----------------------------- MODULE QueuePromise -----------------------------
(***************************************************************************)
(* What a queue promises of its jobs: a job that was accepted waits until  *)
(* a handler has succeeded with it, until it has failed as often as it may *)
(* be tried, or until it is withdrawn; a job that has gone never waits     *)
(* again.  It may be handled more than once, and even after it has gone.   *)
(***************************************************************************)
EXTENDS Naturals

CONSTANTS Jobs, MaxAttempts

VARIABLES
  waiting,     \* the jobs that wait
  gone,        \* the jobs that no longer do
  succeeded,   \* the jobs a handler has succeeded with
  failures,    \* how often handlers have failed with each job
  withdrawn    \* the jobs an administrator has had removed

vars == <<waiting, gone, succeeded, failures, withdrawn>>

Init ==
  /\ waiting = {} /\ gone = {} /\ succeeded = {} /\ withdrawn = {}
  /\ failures = [j \in Jobs |-> 0]

Accept(j) ==
  /\ j \notin waiting \cup gone
  /\ waiting' = waiting \cup {j}
  /\ UNCHANGED <<gone, succeeded, failures, withdrawn>>

Succeed(j) ==
  /\ j \in waiting \cup gone
  /\ succeeded' = succeeded \cup {j}
  /\ UNCHANGED <<waiting, gone, failures, withdrawn>>

Fail(j) ==
  /\ j \in waiting \cup gone
  /\ failures' = [failures EXCEPT ![j] = @ + 1]
  /\ UNCHANGED <<waiting, gone, succeeded, withdrawn>>

Finished(j) == j \in succeeded \/ failures[j] >= MaxAttempts

Finish(some) ==
  /\ some \subseteq waiting
  /\ \A j \in some : Finished(j)
  /\ waiting' = waiting \ some
  /\ gone' = gone \cup some
  /\ UNCHANGED <<succeeded, failures, withdrawn>>

Withdraw(some) ==
  /\ some \subseteq waiting
  /\ waiting' = waiting \ some
  /\ gone' = gone \cup some
  /\ withdrawn' = withdrawn \cup some
  /\ UNCHANGED <<succeeded, failures>>

Next ==
  \/ \E j \in Jobs : Accept(j) \/ Succeed(j) \/ Fail(j)
  \/ \E some \in SUBSET Jobs : Finish(some) \/ Withdraw(some)

Spec == Init /\ [][Next]_vars
=============================================================================
