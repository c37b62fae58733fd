------------------------------ MODULE QueueLock ------------------------------
(***************************************************************************)
(* The directory lock of a local queue.  Queue instances, in one process   *)
(* or in several, share the files of a queue; every change of them runs    *)
(* while the directory queue.lock exists and carries the owner token of    *)
(* the instance.                                                           *)
(*                                                                         *)
(* mkdir, the token, the check of the token and the removal are steps of   *)
(* their own, and so are, for a waiter, finding the directory stale and    *)
(* moving it aside.  An instance may crash after any of them.  A directory *)
(* becomes stale when the instance that made it is gone (or stalls).       *)
(*                                                                         *)
(* An operator named Fault... is a plausible mistake in the operator that  *)
(* follows it and is used by nothing.                                      *)
(***************************************************************************)
EXTENDS Naturals

CONSTANTS
  Instances,    \* queue instances; each has one acquisition at a time
  Overtakes,    \* whether a waiter that has found the lock stale may move aside
                \* the fresh one that another has put in its place
  Stalls,       \* whether an instance may stall for 15 s while it holds it
  MaxMishaps    \* how many things go wrong: crashes and failing file access

Nobody == "nobody"

ASSUME LockAssumption ==
  /\ Overtakes \in BOOLEAN /\ Stalls \in BOOLEAN
  /\ MaxMishaps \in Nat
  /\ Nobody \notin Instances

VARIABLES
  lock,      \* the directory queue.lock; made is who created it
  at,        \* where each instance is in acquiring and releasing it
  mishaps    \* how many things have gone wrong

lockVars == <<lock, at, mishaps>>

Lock == [there : BOOLEAN, made : Instances \cup {Nobody},
         owner : Instances \cup {Nobody}, old : BOOLEAN]

NoLock == [there |-> FALSE, made |-> Nobody, owner |-> Nobody, old |-> FALSE]

Holding == {"made", "inside", "releasing", "removing"}

LockTypeOK ==
  /\ lock \in Lock
  /\ at \in [Instances -> Holding \cup {"idle", "waiting", "stale"}]
  /\ mishaps \in 0..MaxMishaps

LockInit ==
  /\ lock = NoLock
  /\ at = [i \in Instances |-> "idle"]
  /\ mishaps = 0

Goes(i, from, to) ==
  /\ at[i] = from
  /\ at' = [at EXCEPT ![i] = to]

Mishap ==
  /\ mishaps < MaxMishaps
  /\ mishaps' = mishaps + 1

-----------------------------------------------------------------------------
(* Acquiring.                                                              *)

Ask(i) == Goes(i, "idle", "waiting") /\ UNCHANGED <<lock, mishaps>>

\* Fault: the directory is created with `recursive`, which succeeds when it
\* is there already.
FaultVacant == TRUE

Vacant == ~lock.there

MakeDirectory(i) ==
  /\ Goes(i, "waiting", "made")
  /\ Vacant
  /\ lock' = [NoLock EXCEPT !.there = TRUE, !.made = i]
  /\ UNCHANGED mishaps

\* The token goes into whatever directory is at the path.
WriteOwner(i) ==
  /\ Goes(i, "made", "inside")
  /\ lock.there
  /\ lock' = [lock EXCEPT !.owner = i,
                          !.old = lock.old /\ lock.owner # Nobody]
  /\ UNCHANGED mishaps

\* The token cannot be written; the directory is removed, whoever's it is.
WriteOwnerFails(i) ==
  /\ Goes(i, "made", "idle")
  /\ IF lock.there THEN Mishap ELSE UNCHANGED mishaps
  /\ lock' = NoLock

\* More than 15 s old: nobody holds it any more, or its holder has stalled.
GrowOld ==
  /\ lock.there
  /\ ~lock.old
  /\ Stalls \/ at[lock.made] \notin Holding
  /\ lock' = [lock EXCEPT !.old = TRUE]
  /\ UNCHANGED <<at, mishaps>>

Stale == lock.there /\ lock.old

FindStale(i) ==
  /\ Goes(i, "waiting", "stale")
  /\ Stale
  /\ UNCHANGED <<lock, mishaps>>

\* The rename moves aside whatever directory is at the path by now.
ReclaimStaleLock(i) ==
  /\ Goes(i, "stale", "waiting")
  /\ lock.there /\ ~lock.old => Overtakes
  /\ lock' = NoLock
  /\ UNCHANGED mishaps

\* After 30 s of waiting for a lock that is held.
GiveUp(i) ==
  /\ Goes(i, "waiting", "idle")
  /\ lock.there
  /\ ~Stale
  /\ Mishap
  /\ UNCHANGED lock

-----------------------------------------------------------------------------
(* Releasing, and crashing.                                                *)

Leave(i) == Goes(i, "inside", "releasing") /\ UNCHANGED <<lock, mishaps>>

\* The section has thrown; the lock is released all the same.
Throws(i) == Goes(i, "inside", "releasing") /\ Mishap /\ UNCHANGED lock

\* The token is read; a lock with another token, or none, is left alone.
ReadOwner(i) ==
  /\ Goes(i, "releasing",
          IF lock.there /\ lock.owner = i THEN "removing" ELSE "idle")
  /\ UNCHANGED <<lock, mishaps>>

RemoveDirectory(i) ==
  /\ Goes(i, "removing", "idle")
  /\ lock' = NoLock
  /\ UNCHANGED mishaps

\* The process dies, and another is started in its place.
CrashLock(i) ==
  /\ Mishap
  /\ at' = [at EXCEPT ![i] = "idle"]
  /\ UNCHANGED lock

-----------------------------------------------------------------------------
\* What an instance does between asking for the lock and being inside, and
\* between leaving and being idle again.
Acquires(i) ==
  \/ MakeDirectory(i) \/ WriteOwner(i) \/ FindStale(i) \/ ReclaimStaleLock(i)

Releases(i) == ReadOwner(i) \/ RemoveDirectory(i)

Fails(i) == GiveUp(i) \/ WriteOwnerFails(i)

LockNext ==
  \/ \E i \in Instances :
       Ask(i) \/ Acquires(i) \/ Fails(i) \/ Leave(i) \/ Throws(i)
       \/ Releases(i) \/ CrashLock(i)
  \/ GrowOld

LockSpec == LockInit /\ [][LockNext]_lockVars

\* "Only one racer can move `queue.lock` aside, so two processes cannot both
\* decide a stale lock is theirs to clear and then both create a fresh one":
\* no two instances are inside at the same time.
MutualExclusion ==
  \A i, j \in Instances : at[i] = "inside" /\ at[j] = "inside" => i = j
=============================================================================
