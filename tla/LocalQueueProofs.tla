--------------------------- MODULE LocalQueueProofs ---------------------------
(***************************************************************************)
(* Theorems about the local queue, for any number of instances, jobs and   *)
(* crashes.                                                                *)
(*                                                                         *)
(* The lock excludes only where no holder stalls and no waiter overtakes   *)
(* another that reclaims it; the code does not rule out either.  So only   *)
(* the theorems about the lock assume that, of the constants.  Those about *)
(* the jobs assume it of the behaviour: as long as no two sections overlap *)
(* (or no holder loses its directory), overtaking and stalling allowed,    *)
(* the queue keeps its promise to every job, no job is out of the file but *)
(* for a reason or comes back, none is handled too often, and the counters *)
(* add up.                                                                 *)
(***************************************************************************)
EXTENDS LocalQueue, FiniteSetTheorems, TLAPS

-----------------------------------------------------------------------------
(* The lock.                                                               *)

\* Whoever is between making the directory and removing it has made the one
\* that is there, and it is not old.
HolderMadeIt ==
  \A i \in Instances : at[i] \in Holding =>
    lock.there /\ lock.made = i /\ ~lock.old

LockInv == LockTypeOK /\ HolderMadeIt

LEMMA LockInitInv == LockInit => LockInv
BY LockAssumption DEF LockInit, LockInv, LockTypeOK, HolderMadeIt, Lock, NoLock,
  Holding

LEMMA LockTypeStep ==
  ASSUME LockTypeOK, [LockNext]_lockVars
  PROVE  LockTypeOK'
<1> USE LockAssumption DEF LockTypeOK, Lock, NoLock, Holding, Goes, Mishap
<1>1. CASE UNCHANGED lockVars
  BY <1>1 DEF lockVars
<1>2. CASE GrowOld
  BY <1>2 DEF GrowOld
<1>3. ASSUME NEW i \in Instances, Ask(i) \/ FindStale(i) \/ Leave(i) \/ ReadOwner(i)
      PROVE  LockTypeOK'
  BY <1>3 DEF Ask, FindStale, Leave, ReadOwner
<1>4. ASSUME NEW i \in Instances, MakeDirectory(i)
      PROVE  LockTypeOK'
  <2>1. lock' = [there |-> TRUE, made |-> i, owner |-> Nobody, old |-> FALSE]
    BY <1>4 DEF MakeDirectory
  <2> QED
    BY <1>4, <2>1 DEF MakeDirectory
<1>5. ASSUME NEW i \in Instances, ReclaimStaleLock(i) \/ RemoveDirectory(i)
      PROVE  LockTypeOK'
  <2>1. NoLock \in Lock
    OBVIOUS
  <2>2. lock' = NoLock /\ UNCHANGED mishaps
    BY <1>5 DEF ReclaimStaleLock, RemoveDirectory, NoLock
  <2>3. at' \in [Instances -> Holding \cup {"idle", "waiting", "stale"}]
    BY <1>5 DEF ReclaimStaleLock, RemoveDirectory
  <2> QED
    BY <2>1, <2>2, <2>3
<1>6. ASSUME NEW i \in Instances, WriteOwner(i)
      PROVE  LockTypeOK'
  BY <1>6 DEF WriteOwner
<1>7. ASSUME NEW i \in Instances, GiveUp(i)
      PROVE  LockTypeOK'
  BY <1>7 DEF GiveUp
<1>8. ASSUME NEW i \in Instances, WriteOwnerFails(i)
      PROVE  LockTypeOK'
  <2>1. mishaps' \in 0..MaxMishaps
    BY <1>8 DEF WriteOwnerFails
  <2> QED
    BY <1>8, <2>1 DEF WriteOwnerFails
<1>9. ASSUME NEW i \in Instances, Throws(i) \/ CrashLock(i)
      PROVE  LockTypeOK'
  BY <1>9 DEF Throws, CrashLock
<1> QED
  BY <1>1, <1>2, <1>3, <1>4, <1>5, <1>6, <1>7, <1>8, <1>9
  DEF LockNext, Acquires, Releases, Fails

LEMMA LockStep ==
  ASSUME ~Overtakes, ~Stalls, LockInv, [LockNext]_lockVars
  PROVE  LockInv'
<1>1. LockTypeOK'
  BY LockTypeStep DEF LockInv
<1> USE DEF LockInv, LockTypeOK, HolderMadeIt, Lock, NoLock, Holding, Goes
<1>2. CASE UNCHANGED lockVars
  BY <1>1, <1>2 DEF lockVars
<1>3. CASE GrowOld
  BY <1>1, <1>3 DEF GrowOld
<1>4. ASSUME NEW i \in Instances, Ask(i) \/ FindStale(i) \/ GiveUp(i)
      PROVE  LockInv'
  BY <1>1, <1>4 DEF Ask, FindStale, GiveUp
\* The directory is made where there is none, so nobody held one.
<1>5. ASSUME NEW i \in Instances, MakeDirectory(i)
      PROVE  LockInv'
  BY <1>1, <1>5 DEF MakeDirectory, Vacant
<1>6. ASSUME NEW i \in Instances, WriteOwner(i)
      PROVE  LockInv'
  BY <1>1, <1>6 DEF WriteOwner
\* The only holder removes its directory.
<1>7. ASSUME NEW i \in Instances, WriteOwnerFails(i) \/ RemoveDirectory(i)
      PROVE  LockInv'
  BY <1>1, <1>7 DEF WriteOwnerFails, RemoveDirectory
\* An old directory is nobody's.
<1>8. ASSUME NEW i \in Instances, ReclaimStaleLock(i)
      PROVE  LockInv'
  BY <1>1, <1>8 DEF ReclaimStaleLock
<1>9. ASSUME NEW i \in Instances, Leave(i) \/ Throws(i) \/ ReadOwner(i)
                                     \/ CrashLock(i)
      PROVE  LockInv'
  BY <1>1, <1>9 DEF Leave, Throws, ReadOwner, CrashLock
<1> QED
  BY <1>2, <1>3, <1>4, <1>5, <1>6, <1>7, <1>8, <1>9
  DEF LockNext, Acquires, Releases, Fails

\* No holder has lost its directory: whoever is between making it and removing
\* it has made the one that is there.
HoldersKeepLock ==
  \A i \in Instances : at[i] \in Holding => lock.there /\ lock.made = i

LEMMA LockInvKeeps ==
  ASSUME LockInv
  PROVE  HoldersKeepLock
BY DEF LockInv, HolderMadeIt, HoldersKeepLock

LEMMA KeepingExcludes ==
  ASSUME HoldersKeepLock
  PROVE  MutualExclusion
BY DEF HoldersKeepLock, MutualExclusion, Holding

\* Every step of the queue is a step of the lock or leaves it alone.
LEMMA QueueStepIsLockStep ==
  ASSUME [Next]_vars
  PROVE  [LockNext]_lockVars
<1> USE DEF lockVars, LockNext
<1>1. CASE UNCHANGED vars
  BY <1>1 DEF vars
<1>2. ASSUME NEW i \in Instances, NEW op, NEW jobs, Begin(i, op, jobs)
      PROVE  [LockNext]_lockVars
  BY <1>2 DEF Begin
<1>3. ASSUME NEW i \in Instances, SectionStep(i)
      PROVE  [LockNext]_lockVars
  BY <1>3 DEF SectionStep, AcquireSection, Read, Write, WriteState, LeaveSection,
    ReleaseSection
<1>4. ASSUME NEW i \in Instances, SectionFails(i) \/ GiveUpSection(i) \/ Crash(i)
      PROVE  [LockNext]_lockVars
  BY <1>4 DEF SectionFails, GiveUpSection, Crash
<1>5. ASSUME NEW j \in Jobs, Succeeds(j) \/ FailsOnce(j) \/ BecomesDue(j)
      PROVE  [LockNext]_lockVars
  BY <1>5 DEF Succeeds, FailsOnce, BecomesDue
<1> QED
  BY <1>1, <1>2, <1>3, <1>4, <1>5
  DEF Next, Enqueue, RemoveQueuedJobsByScope, Clear, Poll, FinishBatch

\* Every behaviour of the queue is one of its lock.
THEOREM QueueUsesLock == Spec => LockSpec
<1>1. Init => LockInit
  BY DEF Init
<1>2. [Next]_vars => [LockNext]_lockVars
  BY QueueStepIsLockStep
<1> QED
  BY <1>1, <1>2, PTL DEF Spec, LockSpec

\* Whoever crashes where, no holder loses its directory: acquiring, releasing
\* and reclaiming are safe as long as nobody stalls or overtakes.
THEOREM LockIsKept ==
  ASSUME ~Overtakes, ~Stalls
  PROVE  Spec => []HoldersKeepLock
<1>1. LockInit => LockInv
  BY LockInitInv
<1>2. LockInv /\ [LockNext]_lockVars => LockInv'
  BY LockStep
<1>3. LockInv => HoldersKeepLock
  BY LockInvKeeps
<1> QED
  BY <1>1, <1>2, <1>3, QueueUsesLock, PTL DEF LockSpec

\* So sections exclude each other, as long as nobody stalls or overtakes.
THEOREM SectionsExclude ==
  ASSUME ~Overtakes, ~Stalls
  PROVE  Spec => []MutualExclusion
<1>1. HoldersKeepLock => MutualExclusion
  BY KeepingExcludes
<1> QED
  BY <1>1, LockIsKept, PTL

-----------------------------------------------------------------------------
(* Sections and batches.                                                   *)

\* Who is about to write is inside and has read the file as it is.
SectionsInside ==
  \A i \in Instances :
    /\ section[i].step \in {"write", "count"} => at[i] = "inside"
    /\ section[i].step = "write" => section[i].seen = file

\* The job to enqueue has no past, and is enqueued by one instance only.
EnqueuesFresh ==
  /\ \A i \in Instances : section[i].op = "enqueue" =>
       \E j \in Jobs :
         /\ section[i].jobs = {j}
         /\ section[i].step \in {"read", "write"} => j \notin Accepted
  /\ \A i, k \in Instances :
       section[i].op = "enqueue" /\ section[k].op = "enqueue" /\ i # k =>
         section[i].jobs \cap section[k].jobs = {}

\* The attempts in the file and in the batch are failures that happened.
AttemptsHappened ==
  /\ \A j \in Jobs : file[j] # Absent => file[j] <= failures[j]
  /\ \A j \in batch.taken : batch.seen[j] <= failures[j]
  /\ \A j \in batch.retry :
       batch.seen[j] + 1 <= failures[j] /\ batch.seen[j] + 1 < MaxAttempts

BatchAccounts ==
  /\ batch.taken \subseteq Accepted
  /\ batch.done \cup batch.dead \cup batch.retry \subseteq batch.taken
  /\ \A j \in batch.done : successes[j] > 0
  /\ \A j \in batch.dead : failures[j] >= MaxAttempts

QueueInv ==
  /\ TypeOK
  /\ SectionsInside /\ EnqueuesFresh /\ AttemptsHappened /\ BatchAccounts

LEMMA QueueInitInv == Init => QueueInv
<1> SUFFICES ASSUME Init PROVE QueueInv
  OBVIOUS
<1>1. LockTypeOK
  BY LockInitInv DEF Init, LockInv
<1> USE QueueAssumption DEF Init
<1>2. TypeOK
  BY <1>1 DEF TypeOK, Files, Stored, Absent, Empty, Counters, NoCounts, Section,
    NoSection, Operations, Batch, NoBatch
<1>3. SectionsInside /\ EnqueuesFresh
  BY DEF SectionsInside, EnqueuesFresh, NoSection
<1>4. AttemptsHappened /\ BatchAccounts
  BY DEF AttemptsHappened, BatchAccounts, Empty, Absent, NoBatch
<1> QED
  BY <1>1, <1>2, <1>3, <1>4 DEF QueueInv

\* Only an entry of the worker with all its attempts made is Absent.
LEMMA AbsentType == Absent \in Nat \ {0} /\ Absent \in Stored /\ Stored \subseteq Nat
                    /\ Empty \in Files
BY QueueAssumption DEF Absent, Stored, Empty, Files

-----------------------------------------------------------------------------
(* What a write does to the file.                                          *)

LEMMA WriteSeesFile ==
  ASSUME QueueInv, NEW i \in Instances, Write(i)
  PROVE  /\ section[i].seen = file
         /\ section[i].step = "write" /\ at[i] = "inside"
         /\ file \in Files
         /\ file' = Written(i)
         /\ withdrawn' = withdrawn \cup Removed(i)
BY DEF QueueInv, SectionsInside, Write, TypeOK

LEMMA EnqueueWrites ==
  ASSUME QueueInv, NEW i \in Instances, Write(i), section[i].op = "enqueue"
  PROVE  \E j \in Jobs : /\ section[i].jobs = {j} /\ j \notin Accepted
                         /\ file' = [file EXCEPT ![j] = 0]
                         /\ file' \in Files
                         /\ withdrawn' = withdrawn
<1>1. PICK j \in Jobs : section[i].jobs = {j} /\ j \notin Accepted
  BY WriteSeesFile DEF QueueInv, EnqueuesFresh
<1>2. Removed(i) = {}
  BY DEF Removed
<1>3. Written(i) = [k \in Jobs |-> IF k \in {j} THEN 0 ELSE file[k]]
  BY <1>1, WriteSeesFile DEF Written
<1>4. file' = [file EXCEPT ![j] = 0] /\ file' \in Files
  BY <1>3, WriteSeesFile, AbsentType DEF Files, Stored
<1> QED
  BY <1>1, <1>2, <1>4, WriteSeesFile

LEMMA FinishWrites ==
  ASSUME QueueInv, NEW i \in Instances, Write(i), section[i].op = "finish"
  PROVE  /\ withdrawn' = withdrawn
         /\ file' \in Files
         /\ \A j \in Jobs :
              \/ j \in batch.done \cup batch.dead /\ file'[j] = Absent
              \/ /\ j \notin batch.done \cup batch.dead
                 /\ j \in batch.retry /\ file[j] # Absent
                 /\ file'[j] = batch.seen[j] + 1 /\ file'[j] # Absent
              \/ /\ j \notin batch.done \cup batch.dead
                 /\ j \in batch.retry => file[j] = Absent
                 /\ file'[j] = file[j]
<1>1. Removed(i) = {}
  BY DEF Removed
<1>2. Written(i) = AfterBatch(file)
  BY WriteSeesFile DEF Written
<1>3. \A j \in batch.retry : batch.seen[j] \in Nat /\ batch.seen[j] + 1 < Absent
  BY AbsentType DEF QueueInv, AttemptsHappened, TypeOK, Batch, Files, Absent
<1>4. ASSUME NEW j \in Jobs
      PROVE  \/ /\ j \in batch.done \cup batch.dead
                /\ AfterBatch(file)[j] = Absent
             \/ /\ j \notin batch.done \cup batch.dead
                /\ j \in batch.retry /\ file[j] # Absent
                /\ AfterBatch(file)[j] = batch.seen[j] + 1
             \/ /\ j \notin batch.done \cup batch.dead
                /\ j \in batch.retry => file[j] = Absent
                /\ AfterBatch(file)[j] = file[j]
  <2>1. CASE j \in batch.done \cup batch.dead
    BY <2>1 DEF AfterBatch
  <2>2. CASE j \notin batch.done \cup batch.dead /\ j \in batch.retry /\ file[j] # Absent
    BY <2>2 DEF AfterBatch
  <2>3. CASE /\ j \notin batch.done \cup batch.dead
             /\ ~(j \in batch.retry /\ file[j] # Absent)
    BY <2>3 DEF AfterBatch
  <2> QED
    BY <2>1, <2>2, <2>3
<1>5. AfterBatch(file) = [j \in Jobs |-> AfterBatch(file)[j]]
  BY DEF AfterBatch
<1>6. \A j \in Jobs : AfterBatch(file)[j] \in Stored
  BY <1>3, <1>4, WriteSeesFile, AbsentType DEF Files, Stored
<1>7. AfterBatch(file) \in Files
  BY <1>5, <1>6 DEF Files
<1>8. file' = AfterBatch(file)
  BY <1>2, WriteSeesFile
<1>9. withdrawn' = withdrawn
  BY <1>1, WriteSeesFile
<1> HIDE DEF AfterBatch
<1>10. \A j \in batch.retry : batch.seen[j] + 1 # Absent
  BY <1>3, AbsentType
<1> QED
  BY <1>4, <1>7, <1>8, <1>9, <1>10

LEMMA RemovalWrites ==
  ASSUME QueueInv, NEW i \in Instances, Write(i),
         section[i].op \notin {"enqueue", "finish"}
  PROVE  /\ withdrawn' = withdrawn \cup Removed(i)
         /\ Removed(i) \subseteq Waiting(file)
         /\ file' = [j \in Jobs |-> IF j \in Removed(i) THEN Absent ELSE file[j]]
         /\ file' \in Files
<1>1. Removed(i) \subseteq Waiting(file)
  BY WriteSeesFile DEF Removed
<1>2. Written(i) = [j \in Jobs |-> IF j \in Removed(i) THEN Absent ELSE file[j]]
  BY WriteSeesFile DEF Written
<1> HIDE DEF Removed
<1>3. [j \in Jobs |-> IF j \in Removed(i) THEN Absent ELSE file[j]] \in Files
  BY WriteSeesFile, AbsentType DEF Files
<1> QED
  BY <1>1, <1>2, <1>3, WriteSeesFile

-----------------------------------------------------------------------------
(* The operations that begin a section, as one.                            *)

Begins(i) ==
  \/ \E j \in Jobs : Enqueue(i, j)
  \/ \E scope \in Scopes : RemoveQueuedJobsByScope(i, scope)
  \/ Clear(i) \/ Poll(i) \/ FinishBatch(i)

LEMMA BeginsOneSection ==
  ASSUME NEW i \in Instances, Begins(i)
  PROVE  \E op \in Operations, jobs \in SUBSET Jobs :
           /\ Begin(i, op, jobs)
           /\ op = "enqueue" => \E j \in Jobs : jobs = {j} /\ Fresh(j)
<1>1. ASSUME NEW j \in Jobs, Enqueue(i, j)
      PROVE  "enqueue" \in Operations /\ {j} \in SUBSET Jobs
             /\ Begin(i, "enqueue", {j}) /\ Fresh(j)
  BY <1>1 DEF Enqueue, Operations
<1>2. ASSUME NEW scope \in Scopes, RemoveQueuedJobsByScope(i, scope)
      PROVE  "remove" \in Operations /\ scope \in SUBSET Jobs
             /\ Begin(i, "remove", scope)
  BY <1>2, QueueAssumption DEF RemoveQueuedJobsByScope, Operations
<1>3. CASE Clear(i)
  BY <1>3 DEF Clear, Operations
<1>4. CASE Poll(i)
  BY <1>4 DEF Poll, Operations
<1>5. CASE FinishBatch(i)
  BY <1>5 DEF FinishBatch, Operations
<1> QED
  BY <1>1, <1>2, <1>3, <1>4, <1>5 DEF Begins

-----------------------------------------------------------------------------
(* Type correctness.                                                       *)

LEMMA CountsType ==
  ASSUME TypeOK
  PROVE  Counted \in Counters
<1>1. batch.done \subseteq Jobs /\ batch.dead \subseteq Jobs /\ batch.counts \in Counters
  BY DEF TypeOK, Batch
<1>2. IsFiniteSet(batch.done) /\ IsFiniteSet(batch.dead)
  BY <1>1, FS_Subset, QueueAssumption
<1>3. Cardinality(batch.done) \in Nat /\ Cardinality(batch.dead) \in Nat
  BY <1>2, FS_CardinalityType
<1> QED
  BY <1>1, <1>3 DEF Counted, Counters

LEMMA TakenType ==
  ASSUME TypeOK
  PROVE  TakenFrom(file) \in Batch /\ NoBatch \in Batch
<1>1. NoBatch \in Batch
  BY AbsentType DEF NoBatch, Batch, Counters, NoCounts
<1>2. Pending(file) \in SUBSET Jobs
  BY DEF Pending, Waiting
<1>3. file \in Files /\ state \in Counters
  BY DEF TypeOK
<1>4. CASE Pending(file) = {}
  BY <1>1, <1>4 DEF TakenFrom
<1>5. CASE Pending(file) # {}
  <2> HIDE DEF Pending
  <2>1. TakenFrom(file) =
          [running |-> TRUE, taken |-> Pending(file), done |-> {}, dead |-> {},
           retry |-> {}, seen |-> file, counts |-> state]
    BY <1>5 DEF TakenFrom, NoBatch
  <2> QED
    BY <1>1, <1>2, <1>3, <2>1 DEF Batch
<1> QED
  BY <1>1, <1>4, <1>5

LEMMA QueueTypeStep ==
  ASSUME QueueInv, [Next]_vars
  PROVE  TypeOK'
<1>1. LockTypeOK'
  BY QueueStepIsLockStep, LockTypeStep DEF QueueInv, TypeOK
<1>2. TypeOK /\ NoBatch \in Batch
  BY TakenType DEF QueueInv
<1>3. NoSection \in Section
  BY AbsentType DEF NoSection, Section, Operations
<1> USE DEF TypeOK
<1>4. CASE UNCHANGED vars
  BY <1>1, <1>2, <1>4 DEF vars
<1>5. ASSUME NEW i \in Instances, NEW op \in Operations, NEW jobs \in SUBSET Jobs,
             Begin(i, op, jobs)
      PROVE  TypeOK'
  <2>1. [NoSection EXCEPT !.op = op, !.jobs = jobs] \in Section
    BY <1>3 DEF Section
  <2> QED
    BY <1>1, <1>2, <1>5, <2>1 DEF Begin
<1>6. ASSUME NEW i \in Instances, Read(i)
      PROVE  TypeOK'
  <2>1. section' \in [Instances -> Section]
    <3>1. section[i] \in Section /\ file \in Files
      BY <1>2
    <3>2. /\ [section[i] EXCEPT !.step = "end"] \in Section
          /\ [section[i] EXCEPT !.step = "write", !.seen = file] \in Section
      BY <3>1 DEF Section
    <3>3. \/ section' = [section EXCEPT ![i] = [section[i] EXCEPT !.step = "end"]]
          \/ section' = [section EXCEPT ![i] =
                          [section[i] EXCEPT !.step = "write", !.seen = file]]
      BY <1>2, <1>6 DEF Read
    <3> QED
      BY <1>2, <3>2, <3>3
  <2>2. batch' \in Batch
    BY <1>2, <1>6, TakenType DEF Read
  <2> QED
    BY <1>1, <1>2, <1>6, <2>1, <2>2 DEF Read
<1>7. ASSUME NEW i \in Instances, Write(i)
      PROVE  TypeOK'
  <2>1. file' \in Files
    BY <1>7, EnqueueWrites, FinishWrites, RemovalWrites
  <2>2. due' \subseteq Jobs
    BY <1>2, <1>7 DEF Write
  <2>3. withdrawn' \subseteq Jobs
    <3>1. Removed(i) \subseteq Jobs
      BY DEF Removed, Waiting
    <3> QED
      BY <1>2, <3>1, <1>7, WriteSeesFile
  <2>4. section' \in [Instances -> Section]
    <3>1. section[i] \in Section
      BY <1>2
    <3>2. \A step \in {"count", "end"} :
            [section[i] EXCEPT !.step = step, !.seen = Empty] \in Section
      BY <3>1, AbsentType DEF Section
    <3>3. PICK step \in {"count", "end"} :
            section' = [section EXCEPT ![i] =
                         [section[i] EXCEPT !.step = step, !.seen = Empty]]
      BY <1>2, <1>7 DEF Write
    <3> QED
      BY <1>2, <3>2, <3>3
  <2> QED
    BY <1>1, <1>2, <1>7, <2>1, <2>2, <2>3, <2>4 DEF Write
<1>8. ASSUME NEW i \in Instances, WriteState(i) \/ LeaveSection(i) \/ SectionFails(i)
      PROVE  TypeOK'
  <2>1. section[i] \in Section
    BY <1>2
  <2>2. /\ [section[i] EXCEPT !.step = "end"] \in Section
        /\ [section[i] EXCEPT !.step = "end", !.seen = Empty] \in Section
    BY <2>1, AbsentType DEF Section
  <2>3. CASE WriteState(i)
    BY <1>1, <1>2, <2>2, <2>3, CountsType DEF WriteState
  <2>4. CASE LeaveSection(i)
    BY <1>1, <1>2, <2>4 DEF LeaveSection, jobVars
  <2>5. CASE SectionFails(i)
    BY <1>1, <1>2, <2>2, <2>5 DEF SectionFails
  <2> QED
    BY <1>8, <2>3, <2>4, <2>5
<1>9. ASSUME NEW i \in Instances,
             AcquireSection(i) \/ ReleaseSection(i) \/ GiveUpSection(i) \/ Crash(i)
      PROVE  TypeOK'
  <2>1. CASE UNCHANGED jobVars
    BY <1>1, <1>2, <2>1 DEF jobVars
  <2>2. CASE /\ section' = [section EXCEPT ![i] = NoSection]
             /\ batch' \in {batch, NoBatch}
             /\ UNCHANGED <<file, due, state, successes, failures, withdrawn>>
    BY <1>1, <1>2, <1>3, <2>2
  <2> QED
    BY <1>9, <2>1, <2>2 DEF AcquireSection, ReleaseSection, GiveUpSection,
      SectionEnds, Crash
<1>10. ASSUME NEW j \in Jobs, Succeeds(j) \/ FailsOnce(j)
       PROVE  TypeOK'
  <2>1. /\ [batch EXCEPT !.done = @ \cup {j}] \in Batch
        /\ [batch EXCEPT !.dead = @ \cup {j}] \in Batch
        /\ [batch EXCEPT !.retry = @ \cup {j}] \in Batch
    BY <1>2 DEF Batch
  <2>2. CASE Succeeds(j)
    BY <1>1, <1>2, <2>1, <2>2 DEF Succeeds
  <2>3. CASE FailsOnce(j)
    BY <1>1, <1>2, <2>1, <2>3 DEF FailsOnce
  <2> QED
    BY <1>10, <2>2, <2>3
<1>11. ASSUME NEW j \in Jobs, BecomesDue(j)
       PROVE  TypeOK'
  BY <1>1, <1>2, <1>11 DEF BecomesDue
<1>12. CASE GrowOld /\ UNCHANGED jobVars
  BY <1>1, <1>2, <1>12 DEF jobVars
<1> QED
  BY <1>4, <1>5, <1>6, <1>7, <1>8, <1>9, <1>10, <1>11, <1>12, BeginsOneSection
  DEF Next, Begins, SectionStep

-----------------------------------------------------------------------------
(* Which jobs are accepted.                                                *)

\* Only an enqueue accepts a job, and no write forgets one: what leaves the
\* file has been handled or is withdrawn.
LEMMA WriteAccepts ==
  ASSUME QueueInv, NEW i \in Instances, Write(i)
  PROVE  /\ section[i].op = "enqueue" =>
              \E j \in Jobs : /\ section[i].jobs = {j} /\ j \notin Accepted
                             /\ Accepted' = Accepted \cup {j}
         /\ section[i].op # "enqueue" => Accepted' = Accepted
<1>1. successes' = successes /\ failures' = failures
  BY DEF Write
<1>2. CASE section[i].op = "enqueue"
  <2>1. PICK j \in Jobs : /\ section[i].jobs = {j} /\ j \notin Accepted
                         /\ file' = [file EXCEPT ![j] = 0]
                         /\ withdrawn' = withdrawn
    BY <1>2, EnqueueWrites
  <2>2. file \in Files /\ 0 # Absent
    BY AbsentType DEF QueueInv, TypeOK
  <2>3. file'[j] # Absent /\ \A k \in Jobs : k # j => file'[k] = file[k]
    BY <2>1, <2>2 DEF Files
  <2>4. Accepted' = Accepted \cup {j}
    BY <1>1, <2>1, <2>3 DEF Accepted
  <2> QED
    BY <1>2, <2>1, <2>4
<1>3. CASE section[i].op = "finish"
  <2>1. \A j \in batch.done \cup batch.dead : successes[j] + failures[j] > 0
    <3>1. /\ batch.done \cup batch.dead \subseteq Jobs
          /\ \A j \in Jobs : successes[j] \in Nat /\ failures[j] \in Nat
      BY DEF QueueInv, TypeOK, Batch
    <3> QED
      BY <3>1, QueueAssumption DEF QueueInv, BatchAccounts
  <2>2. \A j \in Jobs : file[j] # Absent /\ file'[j] = Absent =>
          successes[j] + failures[j] > 0
    BY <1>3, <2>1, FinishWrites
  <2>3. \A j \in Jobs : file[j] = Absent => file'[j] = Absent
    BY <1>3, FinishWrites
  <2>4. withdrawn' = withdrawn
    BY <1>3, FinishWrites
  <2> QED
    BY <1>1, <1>3, <2>2, <2>3, <2>4 DEF Accepted
<1>4. CASE section[i].op \notin {"enqueue", "finish"}
  <2>1. /\ withdrawn' = withdrawn \cup Removed(i)
        /\ Removed(i) \subseteq Waiting(file)
        /\ file' = [j \in Jobs |-> IF j \in Removed(i) THEN Absent ELSE file[j]]
    BY <1>4, RemovalWrites
  <2> HIDE DEF Removed
  <2>2. \A j \in Jobs : file'[j] = IF j \in Removed(i) THEN Absent ELSE file[j]
    BY <2>1
  <2>3. \A j \in Removed(i) : j \in Jobs /\ file[j] # Absent
    BY <2>1 DEF Waiting
  <2>4. \A j \in Jobs : j \in Accepted' <=> j \in Accepted
    BY <1>1, <2>1, <2>2, <2>3 DEF Accepted
  <2> QED
    BY <1>4, <2>4 DEF Accepted
<1> QED
  BY <1>2, <1>3, <1>4

\* What is handled was accepted.
LEMMA HandledAccepted ==
  ASSUME QueueInv, NEW j \in Jobs, Succeeds(j) \/ FailsOnce(j)
  PROVE  j \in batch.taken /\ j \in Accepted /\ Accepted' = Accepted
<1>1. j \in batch.taken /\ j \in Accepted
  BY DEF Succeeds, FailsOnce, Handling, Todo, QueueInv, BatchAccounts
<1>2. \A k \in Jobs : successes[k] \in Nat /\ failures[k] \in Nat
  BY DEF QueueInv, TypeOK
<1>3. /\ file' = file /\ withdrawn' = withdrawn
      /\ \A k \in Jobs : k # j => successes'[k] = successes[k] /\ failures'[k] = failures[k]
      /\ successes'[j] + failures'[j] > 0
  BY <1>2 DEF Succeeds, FailsOnce, QueueInv, TypeOK
<1>4. \A k \in Jobs : k \in Accepted' <=> k \in Accepted
  BY <1>1, <1>3 DEF Accepted
<1> QED
  BY <1>1, <1>4 DEF Accepted

LEMMA SameAccepted ==
  ASSUME UNCHANGED <<file, successes, failures, withdrawn>>
  PROVE  Accepted' = Accepted
BY DEF Accepted

-----------------------------------------------------------------------------
(* Sections keep what they have read, and what they are to enqueue.        *)

\* A step of the lock that leaves the sections alone, or ends one.
LockMoves(i) ==
  \/ AcquireSection(i) \/ LeaveSection(i) \/ ReleaseSection(i)
  \/ GiveUpSection(i) \/ Crash(i)

LEMMA LockMovesKeep ==
  ASSUME QueueInv, NEW i \in Instances, LockMoves(i)
  PROVE  /\ UNCHANGED <<file, due, state, successes, failures, withdrawn>>
         /\ section' \in {section, [section EXCEPT ![i] = NoSection]}
         /\ batch' \in {batch, NoBatch}
         /\ \A k \in Instances : k # i => at'[k] = at[k]
         /\ section' = section => section[i].step \notin {"write", "count"}
<1>1. at \in [Instances -> Holding \cup {"idle", "waiting", "stale"}]
  BY DEF QueueInv, TypeOK, LockTypeOK
<1>2. \A k \in Instances : k # i => at'[k] = at[k]
  BY <1>1 DEF LockMoves, AcquireSection, Acquires, MakeDirectory, WriteOwner,
    FindStale, ReclaimStaleLock, LeaveSection, Leave, ReleaseSection, Releases,
    ReadOwner, RemoveDirectory, GiveUpSection, Fails, GiveUp, WriteOwnerFails,
    Crash, CrashLock, Goes
<1>3. CASE Crash(i)
  <2>1. section[i] = NoSection => section[i].step = "read"
    BY DEF NoSection
  <2>2. section' = [section EXCEPT ![i] = NoSection] /\ section \in [Instances -> Section]
    BY <1>3 DEF Crash, QueueInv, TypeOK
  <2>3. section' = section => section[i].step = "read"
    BY <2>1, <2>2
  <2> QED
    BY <1>2, <1>3, <2>3 DEF Crash
<1>4. CASE LeaveSection(i)
  BY <1>2, <1>4 DEF LeaveSection, jobVars
<1>5. CASE AcquireSection(i) \/ ReleaseSection(i) \/ GiveUpSection(i)
  <2>1. at[i] # "inside"
    BY <1>5 DEF AcquireSection, Acquires, MakeDirectory, WriteOwner, FindStale,
      ReclaimStaleLock, ReleaseSection, Releases, ReadOwner, RemoveDirectory,
      GiveUpSection, Fails, GiveUp, WriteOwnerFails, Goes
  <2>2. section[i].step \notin {"write", "count"}
    BY <2>1 DEF QueueInv, SectionsInside
  <2> QED
    BY <1>2, <1>5, <2>2 DEF AcquireSection, ReleaseSection, GiveUpSection,
      SectionEnds, jobVars
<1> QED
  BY <1>3, <1>4, <1>5 DEF LockMoves

\* The steps of handlers and of time.
Around ==
  \/ \E j \in Jobs : Succeeds(j) \/ FailsOnce(j) \/ BecomesDue(j)
  \/ GrowOld /\ UNCHANGED jobVars

LEMMA AroundKeeps ==
  ASSUME QueueInv, Around \/ UNCHANGED vars
  PROVE  UNCHANGED <<file, section, at, withdrawn>> /\ Accepted' = Accepted
BY HandledAccepted, SameAccepted
DEF Around, vars, Succeeds, FailsOnce, BecomesDue, GrowOld, lockVars, jobVars

LEMMA NextCases ==
  ASSUME [Next]_vars
  PROVE  \/ \E i \in Instances :
               Begins(i) \/ Read(i) \/ Write(i) \/ WriteState(i)
               \/ SectionFails(i) \/ LockMoves(i)
         \/ Around \/ UNCHANGED vars
BY DEF Next, Begins, SectionStep, LockMoves, Around

LEMMA SectionsInsideStep ==
  ASSUME QueueInv, MutualExclusion, [Next]_vars
  PROVE  SectionsInside'
<1>1. /\ section \in [Instances -> Section]
      /\ at \in [Instances -> Holding \cup {"idle", "waiting", "stale"}]
  BY DEF QueueInv, TypeOK, LockTypeOK
<1> USE DEF SectionsInside
<1>2. ASSUME NEW i \in Instances, Begins(i)
      PROVE  SectionsInside'
  <2>1. PICK op \in Operations, jobs \in SUBSET Jobs : Begin(i, op, jobs)
    BY <1>2, BeginsOneSection
  <2>2. /\ section'[i].step = "read" /\ UNCHANGED file
        /\ \A k \in Instances : k # i => section'[k] = section[k] /\ at'[k] = at[k]
    BY <1>1, <2>1 DEF Begin, Ask, Goes, NoSection
  <2> QED
    BY <2>2 DEF QueueInv
<1>3. ASSUME NEW i \in Instances, Read(i)
      PROVE  SectionsInside'
  <2>1. /\ section'[i].step \in {"write", "end"} /\ at[i] = "inside"
        /\ section'[i].step = "write" => section'[i].seen = file
        /\ UNCHANGED <<file, at>>
        /\ \A k \in Instances : k # i => section'[k] = section[k]
    BY <1>1, <1>3 DEF Read, Section, lockVars
  <2> QED
    BY <2>1 DEF QueueInv
\* Nobody else is about to write.
<1>4. ASSUME NEW i \in Instances, Write(i)
      PROVE  SectionsInside'
  <2>1. /\ section'[i].step \in {"count", "end"} /\ at[i] = "inside"
        /\ UNCHANGED at
        /\ \A k \in Instances : k # i => section'[k] = section[k]
    BY <1>1, <1>4 DEF Write, Section, lockVars
  <2>2. \A k \in Instances : k # i => section[k].step \notin {"write", "count"}
    BY <2>1 DEF QueueInv, MutualExclusion
  <2> QED
    BY <2>1, <2>2
<1>5. ASSUME NEW i \in Instances, WriteState(i) \/ SectionFails(i)
      PROVE  SectionsInside'
  <2>1. /\ section'[i].step = "end" /\ UNCHANGED file
        /\ \A k \in Instances : k # i => section'[k] = section[k] /\ at'[k] = at[k]
    BY <1>1, <1>5 DEF WriteState, SectionFails, Throws, Goes, Section, lockVars
  <2> QED
    BY <2>1 DEF QueueInv
<1>6. ASSUME NEW i \in Instances, LockMoves(i)
      PROVE  SectionsInside'
  <2>1. /\ UNCHANGED file
        /\ section' \in {section, [section EXCEPT ![i] = NoSection]}
        /\ \A k \in Instances : k # i => at'[k] = at[k]
        /\ section' = section => section[i].step \notin {"write", "count"}
    BY <1>6, LockMovesKeep
  <2>2. section'[i].step \notin {"write", "count"}
    BY <1>1, <2>1 DEF NoSection
  <2>3. \A k \in Instances : k # i => section'[k] = section[k]
    BY <1>1, <2>1
  <2> QED
    BY <2>1, <2>2, <2>3 DEF QueueInv
<1>7. CASE Around \/ UNCHANGED vars
  BY <1>7, AroundKeeps DEF QueueInv
<1> QED
  BY <1>2, <1>3, <1>4, <1>5, <1>6, <1>7, NextCases

LEMMA EnqueuesFreshStep ==
  ASSUME QueueInv, [Next]_vars
  PROVE  EnqueuesFresh'
<1>1. section \in [Instances -> Section]
  BY DEF QueueInv, TypeOK
<1>2. EnqueuesFresh
  BY DEF QueueInv
<1> USE DEF EnqueuesFresh
<1>3. ASSUME NEW i \in Instances, Begins(i)
      PROVE  EnqueuesFresh'
  <2>1. PICK op \in Operations, jobs \in SUBSET Jobs :
          /\ Begin(i, op, jobs)
          /\ op = "enqueue" => \E j \in Jobs : jobs = {j} /\ Fresh(j)
    BY <1>3, BeginsOneSection
  <2>2. Accepted' = Accepted
    BY <2>1, SameAccepted DEF Begin
  <2>3. /\ section'[i].op = op /\ section'[i].jobs = jobs
        /\ \A k \in Instances : k # i => section'[k] = section[k]
    BY <1>1, <2>1 DEF Begin, NoSection
  <2>4. ASSUME NEW j \in Jobs, Fresh(j)
        PROVE  /\ j \notin Accepted
               /\ \A k \in Instances :
                    section[k].op = "enqueue" => j \notin section[k].jobs
    BY <2>4, AbsentType DEF Fresh, Accepted
  <2> QED
    BY <1>2, <2>1, <2>2, <2>3, <2>4
<1>4. ASSUME NEW i \in Instances, Read(i)
      PROVE  EnqueuesFresh'
  <2>1. /\ \A k \in Instances : /\ section'[k].op = section[k].op
                                /\ section'[k].jobs = section[k].jobs
        /\ \A k \in Instances : k # i => section'[k] = section[k]
        /\ section[i].step = "read"
    BY <1>1, <1>4 DEF Read, Section
  <2>2. Accepted' = Accepted
    BY <1>4, SameAccepted DEF Read
  <2> QED
    BY <1>2, <2>1, <2>2
<1>5. ASSUME NEW i \in Instances, Write(i)
      PROVE  EnqueuesFresh'
  <2>1. /\ \A k \in Instances : /\ section'[k].op = section[k].op
                                /\ section'[k].jobs = section[k].jobs
        /\ \A k \in Instances : k # i => section'[k] = section[k]
        /\ section'[i].step \in {"count", "end"}
    BY <1>1, <1>5 DEF Write, Section
  <2>2. CASE section[i].op # "enqueue"
    <3>1. Accepted' = Accepted
      BY <1>5, <2>2, WriteAccepts
    <3> QED
      BY <1>2, <2>1, <2>2, <3>1
  <2>3. CASE section[i].op = "enqueue"
    <3>1. PICK j \in Jobs : section[i].jobs = {j} /\ Accepted' = Accepted \cup {j}
      BY <1>5, <2>3, WriteAccepts
    <3>2. \A k \in Instances : k # i /\ section[k].op = "enqueue" => j \notin section[k].jobs
      BY <1>2, <2>3, <3>1
    <3> QED
      BY <1>2, <2>1, <2>3, <3>1, <3>2
  <2> QED
    BY <2>2, <2>3
<1>6. ASSUME NEW i \in Instances, WriteState(i) \/ SectionFails(i)
      PROVE  EnqueuesFresh'
  <2>1. /\ \A k \in Instances : /\ section'[k].op = section[k].op
                                /\ section'[k].jobs = section[k].jobs
        /\ \A k \in Instances : k # i => section'[k] = section[k]
        /\ section'[i].step = "end"
    BY <1>1, <1>6 DEF WriteState, SectionFails, Section
  <2>2. Accepted' = Accepted
    BY <1>6, SameAccepted DEF WriteState, SectionFails
  <2> QED
    BY <1>2, <2>1, <2>2
<1>7. ASSUME NEW i \in Instances, LockMoves(i)
      PROVE  EnqueuesFresh'
  <2>1. /\ section' \in {section, [section EXCEPT ![i] = NoSection]}
        /\ Accepted' = Accepted
    BY <1>7, LockMovesKeep, SameAccepted
  <2>2. \/ section' = section
        \/ /\ section'[i].op = "none"
           /\ \A k \in Instances : k # i => section'[k] = section[k]
    BY <1>1, <2>1 DEF NoSection
  <2> QED
    BY <1>2, <2>1, <2>2
<1>8. CASE Around \/ UNCHANGED vars
  BY <1>2, <1>8, AroundKeeps
<1> QED
  BY <1>3, <1>4, <1>5, <1>6, <1>7, <1>8, NextCases

-----------------------------------------------------------------------------
(* Batches.                                                                *)

LEMMA BatchEmptied ==
  ASSUME QueueInv, UNCHANGED <<file, successes, failures, withdrawn>>,
         batch' \in {batch, NoBatch}
  PROVE  AttemptsHappened' /\ BatchAccounts'
<1>1. Accepted' = Accepted
  BY SameAccepted
<1>2. CASE batch' = batch
  BY <1>1, <1>2 DEF QueueInv, AttemptsHappened, BatchAccounts
<1>3. CASE batch' = NoBatch
  <2>1. batch'.taken = {} /\ batch'.done = {} /\ batch'.dead = {} /\ batch'.retry = {}
    BY <1>3 DEF NoBatch
  <2> QED
    BY <1>1, <2>1 DEF QueueInv, AttemptsHappened, BatchAccounts
<1> QED
  BY <1>2, <1>3

LEMMA BatchStep ==
  ASSUME QueueInv, [Next]_vars
  PROVE  AttemptsHappened' /\ BatchAccounts'
<1>1. /\ file \in Files /\ batch \in Batch
      /\ \A j \in Jobs : successes[j] \in Nat /\ failures[j] \in Nat
      /\ successes \in [Jobs -> Nat] /\ failures \in [Jobs -> Nat]
  BY DEF QueueInv, TypeOK
<1>2. AttemptsHappened /\ BatchAccounts
  BY DEF QueueInv
<1>3. ASSUME NEW i \in Instances, Begins(i)
      PROVE  AttemptsHappened' /\ BatchAccounts'
  BY <1>3, BeginsOneSection, BatchEmptied DEF Begin
<1>4. ASSUME NEW i \in Instances, Read(i)
      PROVE  AttemptsHappened' /\ BatchAccounts'
  <2>1. UNCHANGED <<file, successes, failures, withdrawn>>
    BY <1>4 DEF Read
  <2>2. CASE batch' \in {batch, NoBatch}
    BY <2>1, <2>2, BatchEmptied
  <2>3. CASE batch' \notin {batch, NoBatch}
    <3>1. batch' = TakenFrom(file) /\ TakenFrom(file) # NoBatch
      BY <1>4, <2>3 DEF Read
    <3>2. /\ batch'.taken = Pending(file) /\ batch'.seen = file
          /\ batch'.done = {} /\ batch'.dead = {} /\ batch'.retry = {}
      BY <3>1 DEF TakenFrom, NoBatch
    <3>3. \A j \in Pending(file) : j \in Jobs /\ file[j] # Absent
      BY DEF Pending, Waiting
    <3>4. Accepted' = Accepted /\ Pending(file) \subseteq Accepted
      BY <2>1, <3>3, SameAccepted DEF Accepted
    <3> QED
      BY <1>2, <2>1, <3>2, <3>3, <3>4 DEF AttemptsHappened, BatchAccounts
  <2> QED
    BY <2>2, <2>3
<1>5. ASSUME NEW i \in Instances, Write(i)
      PROVE  AttemptsHappened' /\ BatchAccounts'
  <2>1. UNCHANGED <<batch, successes, failures>>
    BY <1>5 DEF Write
  <2>2. Accepted \subseteq Accepted'
    BY <1>5, WriteAccepts
  <2>3. \A j \in Jobs : file'[j] # Absent => file'[j] <= failures[j]
    <3>1. CASE section[i].op = "enqueue"
      BY <1>1, <1>2, <1>5, <3>1, EnqueueWrites DEF AttemptsHappened, Files
    <3>2. CASE section[i].op = "finish"
      BY <1>2, <1>5, <3>2, FinishWrites DEF AttemptsHappened
    <3>3. CASE section[i].op \notin {"enqueue", "finish"}
      <4>1. \A j \in Jobs : file'[j] # Absent => file'[j] = file[j]
        BY <1>5, <3>3, RemovalWrites
      <4> QED
        BY <1>2, <4>1 DEF AttemptsHappened
    <3> QED
      BY <3>1, <3>2, <3>3
  <2> QED
    BY <1>2, <2>1, <2>2, <2>3 DEF AttemptsHappened, BatchAccounts
<1>6. ASSUME NEW i \in Instances, WriteState(i) \/ SectionFails(i)
      PROVE  AttemptsHappened' /\ BatchAccounts'
  BY <1>6, BatchEmptied DEF WriteState, SectionFails
<1>7. ASSUME NEW i \in Instances, LockMoves(i)
      PROVE  AttemptsHappened' /\ BatchAccounts'
  BY <1>7, LockMovesKeep, BatchEmptied
<1>8. ASSUME NEW j \in Jobs, Succeeds(j)
      PROVE  AttemptsHappened' /\ BatchAccounts'
  <2>1. j \in batch.taken /\ Accepted' = Accepted
    BY <1>8, HandledAccepted
  <2>2. /\ UNCHANGED <<file, failures>>
        /\ batch'.taken = batch.taken /\ batch'.seen = batch.seen
        /\ batch'.dead = batch.dead /\ batch'.retry = batch.retry
        /\ batch'.done = batch.done \cup {j}
    BY <1>1, <1>8 DEF Succeeds, Batch
  <2>3. successes'[j] > 0 /\ \A k \in Jobs : k # j => successes'[k] = successes[k]
    BY <1>1, <1>8 DEF Succeeds
  <2>4. batch.done \subseteq Jobs
    BY <1>1 DEF Batch
  <2> QED
    BY <1>2, <2>1, <2>2, <2>3, <2>4 DEF AttemptsHappened, BatchAccounts
<1>9. ASSUME NEW j \in Jobs, FailsOnce(j)
      PROVE  AttemptsHappened' /\ BatchAccounts'
  <2>1. j \in batch.taken /\ Accepted' = Accepted
    BY <1>9, HandledAccepted
  <2>2. /\ UNCHANGED <<file, successes>>
        /\ batch'.taken = batch.taken /\ batch'.seen = batch.seen
        /\ batch'.done = batch.done
        /\ \/ Exhausted(j) /\ batch'.dead = batch.dead \cup {j}
                           /\ batch'.retry = batch.retry
           \/ ~Exhausted(j) /\ batch'.dead = batch.dead
                            /\ batch'.retry = batch.retry \cup {j}
    BY <1>1, <1>9 DEF FailsOnce, Batch
  <2>3. /\ failures'[j] = failures[j] + 1
        /\ \A k \in Jobs : k # j => failures'[k] = failures[k]
        /\ \A k \in Jobs : failures'[k] >= failures[k] /\ failures'[k] \in Nat
    BY <1>1, <1>9 DEF FailsOnce
  <2>4. /\ batch.taken \subseteq Jobs /\ batch.dead \subseteq Jobs
        /\ batch.retry \subseteq Jobs /\ batch.seen \in Files
    BY <1>1 DEF Batch
  <2>5. \A k \in Jobs : batch.seen[k] \in Nat /\ file[k] \in Nat
    BY <1>1, <2>4, AbsentType DEF Files
  <2>6. /\ batch.seen[j] + 1 <= failures'[j]
        /\ Exhausted(j) => failures'[j] >= MaxAttempts
        /\ ~Exhausted(j) => batch.seen[j] + 1 < MaxAttempts
    BY <1>1, <1>2, <2>1, <2>3, <2>5, QueueAssumption DEF AttemptsHappened, Exhausted
  <2>7. AttemptsHappened'
    BY <1>1, <1>2, <2>2, <2>3, <2>4, <2>5, <2>6, QueueAssumption
    DEF AttemptsHappened
  <2>8. BatchAccounts'
    BY <1>1, <1>2, <2>1, <2>2, <2>3, <2>4, <2>6, QueueAssumption DEF BatchAccounts
  <2> QED
    BY <2>7, <2>8
<1>10. CASE (\E j \in Jobs : BecomesDue(j)) \/ (GrowOld /\ UNCHANGED jobVars)
            \/ UNCHANGED vars
  BY <1>10, BatchEmptied DEF BecomesDue, jobVars, vars
<1> QED
  BY <1>3, <1>4, <1>5, <1>6, <1>7, <1>8, <1>9, <1>10, NextCases DEF Around

LEMMA QueueStepInv ==
  ASSUME MutualExclusion, QueueInv, [Next]_vars
  PROVE  QueueInv'
<1>1. TypeOK'
  BY QueueTypeStep
<1>2. SectionsInside'
  BY SectionsInsideStep
<1>3. EnqueuesFresh'
  BY EnqueuesFreshStep
<1>4. AttemptsHappened' /\ BatchAccounts'
  BY BatchStep
<1> QED
  BY <1>1, <1>2, <1>3, <1>4 DEF QueueInv

LEMMA QueueInvariant == Spec /\ []MutualExclusion => []QueueInv
<1>1. Init => QueueInv
  BY QueueInitInv
<1>2. MutualExclusion /\ QueueInv /\ [Next]_vars => QueueInv'
  BY QueueStepInv
<1> QED
  BY <1>1, <1>2, PTL DEF Spec

\* As long as no two sections overlap, the file, the lock, the sections and
\* the batch keep their domains; in particular no entry of the file has all
\* its attempts made.
THEOREM QueueTypes == Spec /\ []MutualExclusion => []TypeOK
<1>1. QueueInv => TypeOK
  BY DEF QueueInv
<1> QED
  BY <1>1, QueueInvariant, PTL

-----------------------------------------------------------------------------
(* The promise.  A write is what accepts, finishes or withdraws jobs; the  *)
(* handlers succeed and fail; every other step changes nothing of it.      *)

LEMMA PromiseInit == Init => Promise!Init
<1> SUFFICES ASSUME Init PROVE Promise!Init
  OBVIOUS
<1>1. Kept = {} /\ Accepted = {}
  BY AbsentType DEF Init, Kept, Waiting, Accepted, Empty
<1> QED
  BY <1>1 DEF Init, Promise!Init

LEMMA PromiseUntouched ==
  ASSUME UNCHANGED <<file, successes, failures, withdrawn>>
  PROVE  UNCHANGED Promise!vars
BY DEF Promise!vars, Kept, Waiting, Accepted

LEMMA PromiseWrite ==
  ASSUME QueueInv, NEW i \in Instances, Write(i)
  PROVE  Promise!Next
<1>1. UNCHANGED <<successes, failures>>
  BY DEF Write
<1>2. CASE section[i].op = "enqueue"
  <2>1. PICK j \in Jobs : /\ section[i].jobs = {j} /\ j \notin Accepted
                         /\ file' = [file EXCEPT ![j] = 0]
                         /\ withdrawn' = withdrawn
    BY <1>2, EnqueueWrites
  <2>2. Accepted' = Accepted \cup {j}
    BY <1>2, <2>1, WriteAccepts
  <2>3. file \in Files /\ 0 # Absent
    BY AbsentType DEF QueueInv, TypeOK
  <2>4. Kept' = Kept \cup {j} /\ Kept \subseteq Accepted
    BY <2>1, <2>3 DEF Kept, Waiting, Accepted, Files
  <2>5. Promise!Accept(j)
    BY <1>1, <2>1, <2>2, <2>4 DEF Promise!Accept
  <2> QED
    BY <2>5 DEF Promise!Next
<1>3. CASE section[i].op = "finish"
  <2> DEFINE some == {j \in Kept : j \in batch.done \cup batch.dead}
  <2>1. withdrawn' = withdrawn /\ Accepted' = Accepted
    BY <1>3, FinishWrites, WriteAccepts
  <2>2. Kept' = Kept \ some
    <3>1. \A j \in Jobs : file'[j] # Absent <=>
            file[j] # Absent /\ j \notin batch.done \cup batch.dead
      BY <1>3, FinishWrites
    <3> QED
      BY <3>1 DEF Kept, Waiting
  <2>3. some \subseteq Kept /\ Kept \subseteq Accepted
    BY DEF Kept, Waiting, Accepted
  <2>4. \A j \in some : Promise!Finished(j)
    BY DEF QueueInv, BatchAccounts, Promise!Finished, Kept, Waiting
  <2> HIDE DEF some
  <2>5. Promise!Finish(some)
    BY <1>1, <2>1, <2>2, <2>3, <2>4 DEF Promise!Finish
  <2>6. some \in SUBSET Jobs
    BY <2>3 DEF Accepted
  <2> QED
    BY <2>5, <2>6 DEF Promise!Next
<1>4. CASE section[i].op \notin {"enqueue", "finish"}
  <2>1. /\ withdrawn' = withdrawn \cup Removed(i)
        /\ Removed(i) \subseteq Kept
        /\ file' = [j \in Jobs |-> IF j \in Removed(i) THEN Absent ELSE file[j]]
        /\ Accepted' = Accepted
    BY <1>4, RemovalWrites, WriteAccepts DEF Kept
  <2> HIDE DEF Removed
  <2>2. Kept' = Kept \ Removed(i)
    BY <2>1 DEF Kept, Waiting
  <2>3. Kept \subseteq Accepted
    BY DEF Kept, Waiting, Accepted
  <2>4. Promise!Withdraw(Removed(i))
    BY <1>1, <2>1, <2>2, <2>3 DEF Promise!Withdraw
  <2>5. Removed(i) \in SUBSET Jobs
    BY <2>1, <2>3 DEF Accepted
  <2> QED
    BY <2>4, <2>5 DEF Promise!Next
<1> QED
  BY <1>2, <1>3, <1>4

LEMMA PromiseHandled ==
  ASSUME QueueInv, NEW j \in Jobs, Succeeds(j) \/ FailsOnce(j)
  PROVE  Promise!Next
<1>1. j \in Accepted /\ Accepted' = Accepted
  BY HandledAccepted
<1>2. \A k \in Jobs : successes[k] \in Nat
  BY DEF QueueInv, TypeOK
<1>3. Kept' = Kept /\ withdrawn' = withdrawn
  BY DEF Succeeds, FailsOnce, Kept, Waiting
<1>4. CASE Succeeds(j)
  <2>1. /\ failures' = failures
        /\ {k \in Jobs : successes'[k] > 0} = {k \in Jobs : successes[k] > 0} \cup {j}
    BY <1>2, <1>4 DEF Succeeds, QueueInv, TypeOK
  <2>2. Promise!Succeed(j)
    BY <1>1, <1>3, <2>1 DEF Promise!Succeed
  <2> QED
    BY <2>2 DEF Promise!Next
<1>5. CASE FailsOnce(j)
  <2>1. /\ successes' = successes
        /\ failures' = [failures EXCEPT ![j] = @ + 1]
    BY <1>5 DEF FailsOnce
  <2>2. Promise!Fail(j)
    BY <1>1, <1>3, <2>1 DEF Promise!Fail
  <2> QED
    BY <2>2 DEF Promise!Next
<1> QED
  BY <1>4, <1>5

LEMMA PromiseStep ==
  ASSUME QueueInv, [Next]_vars
  PROVE  [Promise!Next]_(Promise!vars)
<1>1. ASSUME NEW i \in Instances, Begins(i)
      PROVE  UNCHANGED Promise!vars
  BY <1>1, BeginsOneSection, PromiseUntouched DEF Begin
<1>2. ASSUME NEW i \in Instances, Read(i) \/ WriteState(i) \/ SectionFails(i)
      PROVE  UNCHANGED Promise!vars
  BY <1>2, PromiseUntouched DEF Read, WriteState, SectionFails
<1>3. ASSUME NEW i \in Instances, LockMoves(i)
      PROVE  UNCHANGED Promise!vars
  BY <1>3, LockMovesKeep, PromiseUntouched
<1>4. CASE \/ \E j \in Jobs : BecomesDue(j)
           \/ GrowOld /\ UNCHANGED jobVars
           \/ UNCHANGED vars
  BY <1>4, PromiseUntouched DEF BecomesDue, jobVars, vars
<1> QED
  BY <1>1, <1>2, <1>3, <1>4, PromiseWrite, PromiseHandled, NextCases DEF Around

\* A job that was accepted stays in the file until it has succeeded, has used
\* up its attempts or is withdrawn, and never comes back: as long as no two
\* sections overlap, whole-file writes of several instances, crashes and late
\* batches lose and revive nothing.
THEOREM QueueKeepsItsPromise == Spec /\ []MutualExclusion => KeepsQueuePromise
<1>1. Init => Promise!Init
  BY PromiseInit
<1>2. QueueInv /\ [Next]_vars => [Promise!Next]_(Promise!vars)
  BY PromiseStep
<1> QED
  BY <1>1, <1>2, QueueInvariant, PTL DEF Spec, KeepsQueuePromise, Promise!Spec

-----------------------------------------------------------------------------
(* What the promise means for a job that is not in the file any more.      *)

\* A job that left the file has succeeded, has used up its attempts or was
\* withdrawn.
LeftForAReason ==
  \A j \in Accepted \ Kept :
    successes[j] > 0 \/ failures[j] >= MaxAttempts \/ j \in withdrawn

\* The jobs that left the file stay out of it.
StaysOut == Accepted \ Kept \subseteq Accepted' \ Kept'

\* One step of the promise, on the numbers the queue counts.
LEMMA PromisedEnds ==
  ASSUME TypeOK, LeftForAReason, Promise!Next
  PROVE  LeftForAReason' /\ StaysOut
<1> DEFINE Done == {j \in Jobs : successes[j] > 0}
           Ended == {j \in Jobs : failures[j] >= MaxAttempts}
           Gone == Accepted \ Kept
<1>1. MaxAttempts \in Nat /\ failures \in [Jobs -> Nat] /\ Accepted \subseteq Jobs
  BY QueueAssumption DEF TypeOK, Accepted
<1>2. Gone \subseteq Done \cup Ended \cup withdrawn
  BY <1>1 DEF LeftForAReason
<1>3. SUFFICES Gone \subseteq Gone' /\ Gone' \subseteq Done' \cup Ended' \cup withdrawn'
  BY DEF LeftForAReason, StaysOut, Accepted
<1>4. ASSUME NEW j \in Jobs, Promise!Accept(j) \/ Promise!Succeed(j)
      PROVE  Gone' = Gone /\ Done \subseteq Done' /\ Ended' = Ended /\ withdrawn' = withdrawn
  BY <1>4 DEF Promise!Accept, Promise!Succeed
<1>5. ASSUME NEW j \in Jobs, Promise!Fail(j)
      PROVE  Gone' = Gone /\ Done' = Done /\ Ended \subseteq Ended' /\ withdrawn' = withdrawn
  <2>1. failures' = [failures EXCEPT ![j] = @ + 1]
    BY <1>5 DEF Promise!Fail
  <2>2. Ended \subseteq Ended'
    BY <1>1, <2>1
  <2> QED
    BY <1>5, <2>2 DEF Promise!Fail
<1>6. ASSUME NEW some \in SUBSET Jobs, Promise!Finish(some)
      PROVE  /\ Gone' = Gone \cup some /\ some \subseteq Done \cup Ended
             /\ Done' = Done /\ Ended' = Ended /\ withdrawn' = withdrawn
  BY <1>1, <1>6 DEF Promise!Finish, Promise!Finished
<1>7. ASSUME NEW some \in SUBSET Jobs, Promise!Withdraw(some)
      PROVE  /\ Gone' = Gone \cup some /\ some \subseteq withdrawn'
             /\ Done' = Done /\ Ended' = Ended /\ withdrawn \subseteq withdrawn'
  BY <1>1, <1>7 DEF Promise!Withdraw
<1> HIDE DEF Done, Ended, Gone
<1> QED
  BY <1>2, <1>4, <1>5, <1>6, <1>7 DEF Promise!Next

\* Whatever several instances write, crash and repeat, as long as no two
\* sections overlap a job is out of the file only because a handler succeeded
\* with it, its attempts are used up or an administrator removed it.
THEOREM JobsLeaveForAReason == Spec /\ []MutualExclusion => []LeftForAReason
<1>1. Init => LeftForAReason
  BY DEF Init, LeftForAReason, Accepted, Kept, Waiting
<1>2. LeftForAReason /\ QueueInv /\ [Next]_vars => LeftForAReason'
  <2>1. SUFFICES ASSUME LeftForAReason, QueueInv, [Next]_vars PROVE LeftForAReason'
    OBVIOUS
  <2>2. CASE Promise!Next
    BY <2>1, <2>2, PromisedEnds DEF QueueInv
  <2>3. CASE UNCHANGED Promise!vars
    <3> DEFINE Done == {j \in Jobs : successes[j] > 0}
    <3>1. LeftForAReason' <=>
            \A j \in (Accepted \ Kept)' :
              j \in Done' \/ failures'[j] >= MaxAttempts \/ j \in withdrawn'
      BY DEF LeftForAReason, Accepted
    <3>2. (Accepted \ Kept)' = Accepted \ Kept /\ Done' = Done
          /\ failures' = failures /\ withdrawn' = withdrawn
      BY <2>3 DEF Promise!vars
    <3>3. \A j \in Accepted \ Kept :
            j \in Done \/ failures[j] >= MaxAttempts \/ j \in withdrawn
      BY <2>1 DEF LeftForAReason, Accepted
    <3> HIDE DEF Done
    <3> QED
      BY <3>1, <3>2, <3>3
  <2> QED
    BY <2>1, <2>2, <2>3, PromiseStep
<1> QED
  BY <1>1, <1>2, QueueInvariant, PTL DEF Spec

\* As long as no two sections overlap, a job that left the file never comes
\* back, not even with a batch or a write that was begun while it was there.
THEOREM JobsStayOut == Spec /\ []MutualExclusion => [][StaysOut]_vars
<1>1. LeftForAReason /\ QueueInv /\ [Next]_vars => [StaysOut]_vars
  <2>1. SUFFICES ASSUME LeftForAReason, QueueInv, [Next]_vars PROVE StaysOut
    OBVIOUS
  <2>2. CASE Promise!Next
    BY <2>1, <2>2, PromisedEnds DEF QueueInv
  <2>3. CASE UNCHANGED Promise!vars
    BY <2>3 DEF Promise!vars, StaysOut
  <2> QED
    BY <2>1, <2>2, <2>3, PromiseStep
<1> QED
  BY <1>1, JobsLeaveForAReason, QueueInvariant, PTL DEF Spec

-----------------------------------------------------------------------------
(* How often a job is handled, and what the counters say.                  *)

\* Sections end before the lock is released, only the worker takes and
\* finishes batches, and it finishes one when every handler has run.
SectionsOrdered ==
  /\ \A i \in Instances :
       /\ at[i] \in {"releasing", "removing"} => section[i].step = "end"
       /\ section[i].op = "finish" => i = Worker /\ Todo = {} /\ batch.running
       /\ section[i].step = "count" => section[i].op = "finish"
       /\ section[i].op = "take" => i = Worker
       /\ section[i].op = "take" /\ section[i].step = "read" => ~batch.running
  /\ ~batch.running => batch = NoBatch

Handled == batch.done \cup batch.dead \cup batch.retry

\* The batch has been written to the file, or its last section has failed.
BatchWritten ==
  section[Worker].op = "finish" /\ section[Worker].step \in {"count", "end"}

Tries(j) == successes[j] + failures[j]

\* The attempts of a job in the file and in the batch are those made, but for
\* one per mishap.
JobCounted(j) ==
  /\ successes[j] <= 1 + mishaps /\ Tries(j) <= MaxAttempts + mishaps
  /\ file[j] # Absent =>
       /\ j \notin Handled \/ BatchWritten =>
            successes[j] <= mishaps /\ Tries(j) <= file[j] + mishaps
       /\ j \notin batch.done => successes[j] <= mishaps
       /\ Tries(j) <= file[j] + 1 + mishaps
  /\ j \in batch.taken => batch.seen[j] # Absent
  /\ j \in Todo =>
       successes[j] <= mishaps /\ Tries(j) <= batch.seen[j] + mishaps
  /\ j \in batch.retry =>
       successes[j] <= mishaps /\ Tries(j) <= batch.seen[j] + 1 + mishaps

AttemptsCounted == \A j \in Jobs : JobCounted(j)

\* A step of the lock ends a batch only when it has been written, or when
\* something has gone wrong.
LEMMA LockMovesEnd ==
  ASSUME QueueInv, HoldersKeepLock, SectionsOrdered, NEW i \in Instances,
         LockMoves(i)
  PROVE  /\ mishaps \in Nat /\ mishaps' \in {mishaps, mishaps + 1}
         /\ at'[i] \in {"releasing", "removing"} =>
              section' = section /\ section[i].step = "end"
         /\ batch' # batch \/ section' # section =>
              /\ section' = [section EXCEPT ![i] = NoSection]
              /\ \/ mishaps' = mishaps + 1
                 \/ section[i].step = "end" /\ (batch' # batch => section[i].op = "finish")
         /\ section' # section /\ section[i].op = "finish" => batch' = NoBatch
         /\ batch' # batch => i = Worker
<1>1. /\ at \in [Instances -> Holding \cup {"idle", "waiting", "stale"}]
      /\ mishaps \in Nat /\ section \in [Instances -> Section]
      /\ at[i] = "made" => lock.there
      /\ at[i] \in {"releasing", "removing"} => section[i].step = "end"
      /\ section[i].op = "finish" => i = Worker
  BY DEF QueueInv, LockTypeOK, HoldersKeepLock, Holding, TypeOK, SectionsOrdered
<1>2. CASE Crash(i)
  BY <1>1, <1>2 DEF Crash, CrashLock, Mishap
<1>3. CASE AcquireSection(i)
  BY <1>1, <1>3 DEF AcquireSection, Acquires, MakeDirectory, WriteOwner, FindStale,
    ReclaimStaleLock, Goes, jobVars
<1>4. CASE LeaveSection(i)
  BY <1>1, <1>4 DEF LeaveSection, Leave, Goes, jobVars
<1>5. CASE ReleaseSection(i)
  BY <1>1, <1>5 DEF ReleaseSection, Releases, ReadOwner, RemoveDirectory, Goes,
    SectionEnds, jobVars
<1>6. CASE GiveUpSection(i)
  BY <1>1, <1>6 DEF GiveUpSection, Fails, GiveUp, WriteOwnerFails, Goes, Mishap,
    SectionEnds, jobVars
<1> QED
  BY <1>2, <1>3, <1>4, <1>5, <1>6 DEF LockMoves

\* Only the worker takes and finishes batches, one after the other.
LEMMA BeginsInTurn ==
  ASSUME NEW i \in Instances, Begins(i)
  PROVE  \E op \in Operations, jobs \in SUBSET Jobs :
           /\ Begin(i, op, jobs)
           /\ op = "finish" => i = Worker /\ Todo = {} /\ batch.running
           /\ op = "take" => i = Worker /\ ~batch.running
<1>1. ASSUME NEW j \in Jobs, Enqueue(i, j)
      PROVE  "enqueue" \in Operations /\ {j} \in SUBSET Jobs
             /\ Begin(i, "enqueue", {j})
  BY <1>1 DEF Enqueue, Operations
<1>2. ASSUME NEW scope \in Scopes, RemoveQueuedJobsByScope(i, scope)
      PROVE  "remove" \in Operations /\ scope \in SUBSET Jobs
             /\ Begin(i, "remove", scope)
  BY <1>2, QueueAssumption DEF RemoveQueuedJobsByScope, Operations
<1>3. CASE Clear(i)
  BY <1>3 DEF Clear, Operations
<1>4. CASE Poll(i)
  BY <1>4 DEF Poll, Operations
<1>5. CASE FinishBatch(i)
  BY <1>5 DEF FinishBatch, Operations
<1> QED
  BY <1>1, <1>2, <1>3, <1>4, <1>5 DEF Begins

LEMMA SectionsOrderedStep ==
  ASSUME QueueInv, HoldersKeepLock, SectionsOrdered, [Next]_vars
  PROVE  SectionsOrdered'
<1>1. /\ section \in [Instances -> Section]
      /\ at \in [Instances -> Holding \cup {"idle", "waiting", "stale"}]
      /\ batch \in Batch
  BY DEF QueueInv, TypeOK, LockTypeOK
<1>2. ASSUME NEW i \in Instances, Begins(i)
      PROVE  SectionsOrdered'
  <2>1. PICK op \in Operations, jobs \in SUBSET Jobs :
          /\ Begin(i, op, jobs)
          /\ op = "finish" => i = Worker /\ Todo = {} /\ batch.running
          /\ op = "take" => i = Worker /\ ~batch.running
    BY <1>2, BeginsInTurn
  <2>2. /\ section'[i].op = op /\ section'[i].step = "read" /\ at'[i] = "waiting"
        /\ UNCHANGED batch
        /\ \A k \in Instances : k # i => section'[k] = section[k] /\ at'[k] = at[k]
    BY <1>1, <2>1 DEF Begin, Ask, Goes, NoSection
  <2> QED
    BY <2>1, <2>2 DEF SectionsOrdered, Todo
<1>3. ASSUME NEW i \in Instances, Read(i)
      PROVE  SectionsOrdered'
  <2>1. /\ section'[i].op = section[i].op /\ section'[i].step \in {"write", "end"}
        /\ at[i] = "inside" /\ UNCHANGED at
        /\ \A k \in Instances : k # i => section'[k] = section[k]
        /\ section[i].op = "take" => batch' = TakenFrom(file)
        /\ section[i].op # "take" => batch' = batch
    BY <1>1, <1>3 DEF Read, Section, lockVars
  <2>2. TakenFrom(file).running \/ TakenFrom(file) = NoBatch
    BY DEF TakenFrom, NoBatch
  <2>3. CASE section[i].op = "take"
    <3>1. i = Worker /\ \A k \in Instances : section'[k].op # "finish"
      BY <2>1, <2>3 DEF SectionsOrdered
    <3>2. \A k \in Instances : section'[k].op = "take" => section'[k].step # "read"
      BY <2>1, <3>1 DEF SectionsOrdered
    <3>3. \A k \in Instances : section'[k].op = "take" => k = Worker
      BY <2>1, <3>1 DEF SectionsOrdered
    <3> QED
      BY <2>1, <2>2, <2>3, <3>1, <3>2, <3>3 DEF SectionsOrdered
  <2>4. CASE section[i].op # "take"
    BY <2>1, <2>4 DEF SectionsOrdered, Todo
  <2> QED
    BY <2>3, <2>4
<1>4. ASSUME NEW i \in Instances, Write(i) \/ WriteState(i) \/ SectionFails(i)
      PROVE  SectionsOrdered'
  <2>1. /\ section'[i].op = section[i].op /\ section'[i].step \in {"count", "end"}
        /\ section'[i].step = "count" => section[i].op = "finish"
        /\ at'[i] = "releasing" => section'[i].step = "end"
        /\ at'[i] \in {"inside", "releasing"} /\ UNCHANGED batch
        /\ \A k \in Instances : k # i => section'[k] = section[k] /\ at'[k] = at[k]
    BY <1>1, <1>4 DEF Write, WriteState, SectionFails, Throws, Goes, Section, lockVars
  <2> QED
    BY <2>1 DEF SectionsOrdered, Todo
<1>5. ASSUME NEW i \in Instances, LockMoves(i)
      PROVE  SectionsOrdered'
  <2>1. /\ section' \in {section, [section EXCEPT ![i] = NoSection]}
        /\ batch' \in {batch, NoBatch}
        /\ \A k \in Instances : k # i => at'[k] = at[k]
    BY <1>5, LockMovesKeep
  <2>2. /\ \A k \in Instances : section'[k] = section[k] \/ section'[k] = NoSection
        /\ \A k \in Instances : k # i => section'[k] = section[k]
        /\ NoSection.op = "none"
    BY <1>1, <2>1 DEF NoSection
  <2>3. Todo' = Todo \/ Todo' = {}
    BY <2>1 DEF Todo, NoBatch
  <2>4. at'[i] \in {"releasing", "removing"} => section'[i].step = "end"
    BY <1>5, LockMovesEnd
  <2>5. batch'.running => batch.running
    BY <2>1 DEF NoBatch
  <2>6. /\ batch' # batch => section'[Worker] = NoSection
        /\ NoSection.step # "count" /\ ~NoBatch.running
    BY <1>1, <1>5, LockMovesEnd, QueueAssumption DEF NoSection, NoBatch
  <2>7. \A k \in Instances : section'[k].op = "finish" =>
          k = Worker /\ Todo' = {} /\ batch'.running
    BY <2>2, <2>3, <2>6 DEF SectionsOrdered
  <2>8. ~batch'.running => batch' = NoBatch
    BY <2>1 DEF SectionsOrdered
  <2> QED
    BY <2>1, <2>2, <2>4, <2>5, <2>6, <2>7, <2>8 DEF SectionsOrdered
<1>6. ASSUME NEW j \in Jobs, Succeeds(j) \/ FailsOnce(j)
      PROVE  SectionsOrdered'
  <2>1. batch.running /\ UNCHANGED <<at, section>>
    BY <1>6 DEF Succeeds, FailsOnce, Handling, lockVars
  <2>2. batch'.running /\ Todo' \subseteq Todo
    BY <1>1, <1>6, <2>1 DEF Succeeds, FailsOnce, Batch, Todo
  <2> QED
    BY <2>1, <2>2 DEF SectionsOrdered
<1>7. CASE (\E j \in Jobs : BecomesDue(j)) \/ (GrowOld /\ UNCHANGED jobVars)
           \/ UNCHANGED vars
  BY <1>7 DEF BecomesDue, GrowOld, jobVars, vars, lockVars, SectionsOrdered, Todo
<1> QED
  BY <1>2, <1>3, <1>4, <1>5, <1>6, <1>7, NextCases DEF Around

LEMMA CountTypes ==
  ASSUME QueueInv, NEW j \in Jobs
  PROVE  /\ successes[j] \in Nat /\ failures[j] \in Nat /\ mishaps \in Nat
         /\ file[j] \in Nat /\ batch.seen[j] \in Nat /\ MaxAttempts \in Nat \ {0}
<1>1. file[j] \in Stored /\ batch.seen[j] \in Stored
  BY DEF QueueInv, TypeOK, Files, Batch
<1>2. mishaps \in Nat
  BY LockAssumption DEF QueueInv, TypeOK, LockTypeOK
<1> QED
  BY <1>1, <1>2, AbsentType, QueueAssumption DEF QueueInv, TypeOK

\* A job that is not handled in a step, and may leave the file.
LEMMA JobStands ==
  ASSUME QueueInv, NEW j \in Jobs, JobCounted(j),
         UNCHANGED <<successes, failures, batch>>,
         file'[j] \in {file[j], Absent}, mishaps' \in {mishaps, mishaps + 1},
         BatchWritten' => BatchWritten \/ mishaps' = mishaps + 1
  PROVE  JobCounted(j)'
BY CountTypes DEF JobCounted, Tries, Handled, Todo

\* A batch that is lost leaves one attempt of each of its jobs uncounted.
LEMMA JobLost ==
  ASSUME QueueInv, NEW j \in Jobs, JobCounted(j),
         UNCHANGED <<successes, failures, file>>, batch' \in {batch, NoBatch},
         mishaps' = mishaps + 1
  PROVE  JobCounted(j)'
BY CountTypes DEF JobCounted, Tries, Handled, Todo, NoBatch

LEMMA JobBatchEnds ==
  ASSUME QueueInv, NEW j \in Jobs, JobCounted(j), BatchWritten,
         UNCHANGED <<successes, failures, file, mishaps>>, batch' = NoBatch
  PROVE  JobCounted(j)'
BY CountTypes DEF JobCounted, Tries, Handled, Todo, NoBatch

LEMMA JobTaken ==
  ASSUME QueueInv, SectionsOrdered, NEW j \in Jobs, JobCounted(j),
         UNCHANGED <<successes, failures, file, mishaps>>, ~batch.running,
         batch' = TakenFrom(file)
  PROVE  JobCounted(j)'
<1>1. batch = NoBatch
  BY DEF SectionsOrdered
<1>2. file[j] # Absent =>
        successes[j] <= mishaps /\ Tries(j) <= file[j] + mishaps
  BY <1>1 DEF JobCounted, Handled, NoBatch
<1>3. /\ batch'.done = {} /\ batch'.dead = {} /\ batch'.retry = {}
      /\ j \in batch'.taken => file[j] # Absent /\ batch'.seen = file
  BY DEF TakenFrom, NoBatch, Pending, Waiting
<1> QED
  BY <1>2, <1>3, CountTypes DEF JobCounted, Tries, Handled, Todo

LEMMA JobEnqueued ==
  ASSUME QueueInv, NEW j \in Jobs, JobCounted(j), j \notin Accepted,
         UNCHANGED <<successes, failures, batch, mishaps>>, file'[j] = 0
  PROVE  JobCounted(j)'
<1>1. successes[j] = 0 /\ failures[j] = 0
  BY CountTypes DEF Accepted
<1> QED
  BY <1>1, CountTypes DEF JobCounted, Tries, Handled, Todo

\* The batch is written: whatever of it stays has its last attempt counted.
LEMMA JobFinished ==
  ASSUME QueueInv, SectionsOrdered, NEW j \in Jobs, JobCounted(j),
         NEW i \in Instances, Write(i), section[i].op = "finish"
  PROVE  JobCounted(j)'
<1>1. UNCHANGED <<successes, failures, batch, mishaps>>
  BY DEF Write, lockVars
<1>2. CASE file'[j] = Absent
  BY <1>1, <1>2, CountTypes DEF JobCounted, Tries, Handled, Todo
<1>3. CASE /\ j \notin batch.done /\ j \in batch.retry
           /\ file'[j] = batch.seen[j] + 1
  BY <1>1, <1>3, CountTypes DEF JobCounted, Tries, Handled, Todo
<1>4. CASE j \notin Handled /\ file'[j] = file[j]
  BY <1>1, <1>4, CountTypes DEF JobCounted, Tries, Handled, Todo
<1> QED
  BY <1>2, <1>3, <1>4, FinishWrites DEF Handled

LEMMA JobSucceeds ==
  ASSUME QueueInv, SectionsOrdered, AttemptsCounted, NEW j \in Jobs,
         NEW k \in Jobs, Succeeds(k)
  PROVE  JobCounted(j)'
<1>1. JobCounted(j) /\ k \in Todo /\ UNCHANGED <<file, section, failures, mishaps>>
  BY DEF AttemptsCounted, Succeeds, Handling, lockVars
<1>2. batch.seen[k] \in Stored /\ Absent = MaxAttempts
  BY DEF QueueInv, TypeOK, Batch, Files, Absent
<1>3. /\ batch'.done = batch.done \cup {k} /\ batch'.dead = batch.dead
      /\ batch'.retry = batch.retry /\ batch'.taken = batch.taken
      /\ batch'.seen = batch.seen
      /\ successes'[k] = successes[k] + 1
      /\ j # k => successes'[j] = successes[j]
  BY DEF Succeeds, QueueInv, TypeOK, Batch
<1>4. ~BatchWritten /\ ~BatchWritten'
  BY <1>1, QueueAssumption DEF BatchWritten, SectionsOrdered
<1>5. CASE j = k
  <2>1. /\ j \notin Handled /\ j \in batch.taken
        /\ batch.seen[j] # Absent /\ batch.seen[j] \in 0..MaxAttempts
    BY <1>1, <1>2, <1>5 DEF Todo, Handled, JobCounted, Stored, Absent
  <2> QED
    BY <1>1, <1>2, <1>3, <1>4, <1>5, <2>1, CountTypes
    DEF JobCounted, Tries, Handled, Todo
<1>6. CASE j # k
  BY <1>1, <1>3, <1>4, <1>6, CountTypes DEF JobCounted, Tries, Handled, Todo
<1> QED
  BY <1>5, <1>6

LEMMA JobFails ==
  ASSUME QueueInv, SectionsOrdered, AttemptsCounted, NEW j \in Jobs,
         NEW k \in Jobs, FailsOnce(k)
  PROVE  JobCounted(j)'
<1>1. JobCounted(j) /\ k \in Todo /\ UNCHANGED <<file, section, successes, mishaps>>
  BY DEF AttemptsCounted, FailsOnce, Handling, lockVars
<1>2. batch.seen[k] \in Stored /\ Absent = MaxAttempts
  BY DEF QueueInv, TypeOK, Batch, Files, Absent
<1>3. /\ batch'.done = batch.done
      /\ \/ batch'.dead = batch.dead \cup {k} /\ batch'.retry = batch.retry
         \/ batch'.retry = batch.retry \cup {k} /\ batch'.dead = batch.dead
      /\ batch'.taken = batch.taken /\ batch'.seen = batch.seen
      /\ failures'[k] = failures[k] + 1
      /\ j # k => failures'[j] = failures[j]
  BY DEF FailsOnce, QueueInv, TypeOK, Batch
<1>4. ~BatchWritten /\ ~BatchWritten'
  BY <1>1, QueueAssumption DEF BatchWritten, SectionsOrdered
<1>5. CASE j = k
  <2>1. /\ j \notin Handled /\ j \in batch.taken
        /\ batch.seen[j] # Absent /\ batch.seen[j] \in 0..MaxAttempts
    BY <1>1, <1>2, <1>5 DEF Todo, Handled, JobCounted, Stored, Absent
  <2> QED
    BY <1>1, <1>2, <1>3, <1>4, <1>5, <2>1, CountTypes
    DEF JobCounted, Tries, Handled, Todo
<1>6. CASE j # k
  BY <1>1, <1>3, <1>4, <1>6, CountTypes DEF JobCounted, Tries, Handled, Todo
<1> QED
  BY <1>5, <1>6

LEMMA AttemptsStep ==
  ASSUME QueueInv, HoldersKeepLock, SectionsOrdered, AttemptsCounted, [Next]_vars
  PROVE  AttemptsCounted'
<1> SUFFICES ASSUME NEW j \in Jobs PROVE JobCounted(j)'
  BY DEF AttemptsCounted
<1>1. /\ JobCounted(j) /\ mishaps \in Nat
      /\ section \in [Instances -> Section]
  BY CountTypes DEF AttemptsCounted, QueueInv, TypeOK
<1>2. ASSUME NEW i \in Instances, Begins(i)
      PROVE  JobCounted(j)'
  <2>1. /\ UNCHANGED <<successes, failures, batch, file, mishaps>>
        /\ section'[i].step = "read"
        /\ \A k \in Instances : k # i => section'[k] = section[k]
    <3>1. PICK op \in Operations, jobs \in SUBSET Jobs : Begin(i, op, jobs)
      BY <1>2, BeginsOneSection
    <3> QED
      BY <1>1, <3>1 DEF Begin, Ask, NoSection
  <2>2. BatchWritten' => BatchWritten
    BY <2>1, QueueAssumption DEF BatchWritten
  <2> QED
    BY <1>1, <2>1, <2>2, JobStands
<1>3. ASSUME NEW i \in Instances, Read(i)
      PROVE  JobCounted(j)'
  <2>1. /\ UNCHANGED <<successes, failures, file, mishaps>>
        /\ section'[i].op = section[i].op
        /\ section[i].op # "take" => section'[i].step = "write" /\ batch' = batch
        /\ section[i].op = "take" => batch' = TakenFrom(file) /\ ~batch.running
        /\ \A k \in Instances : k # i => section'[k] = section[k]
    BY <1>1, <1>3 DEF Read, lockVars, Section, SectionsOrdered
  <2>2. BatchWritten' => BatchWritten
    BY <2>1, QueueAssumption DEF BatchWritten
  <2>3. CASE section[i].op = "take"
    BY <1>1, <2>1, <2>3, JobTaken
  <2>4. CASE section[i].op # "take"
    BY <1>1, <2>1, <2>2, <2>4, JobStands
  <2> QED
    BY <2>3, <2>4
<1>4. ASSUME NEW i \in Instances, Write(i)
      PROVE  JobCounted(j)'
  <2>1. CASE section[i].op = "finish"
    BY <1>1, <1>4, <2>1, JobFinished
  <2>2. CASE section[i].op # "finish"
    <3>1. /\ UNCHANGED <<successes, failures, batch, mishaps>>
          /\ section'[i].op = section[i].op
          /\ \A k \in Instances : k # i => section'[k] = section[k]
      BY <1>1, <1>4 DEF Write, lockVars
    <3>2. BatchWritten' => BatchWritten
      BY <2>2, <3>1, QueueAssumption DEF BatchWritten
    <3>3. \/ file'[j] \in {file[j], Absent}
          \/ j \notin Accepted /\ file'[j] = 0
      <4>1. CASE section[i].op = "enqueue"
        BY <1>4, <4>1, EnqueueWrites DEF QueueInv, TypeOK, Files
      <4>2. CASE section[i].op # "enqueue"
        BY <1>4, <2>2, <4>2, RemovalWrites
      <4> QED
        BY <4>1, <4>2
    <3> QED
      BY <1>1, <3>1, <3>2, <3>3, JobStands, JobEnqueued
  <2> QED
    BY <2>1, <2>2
<1>5. ASSUME NEW i \in Instances, WriteState(i)
      PROVE  JobCounted(j)'
  <2>1. /\ UNCHANGED <<successes, failures, batch, file, mishaps>>
        /\ section'[i].op = section[i].op /\ section[i].step = "count"
        /\ \A k \in Instances : k # i => section'[k] = section[k]
    BY <1>1, <1>5 DEF WriteState, lockVars
  <2>2. BatchWritten' => BatchWritten
    BY <2>1, QueueAssumption DEF BatchWritten
  <2> QED
    BY <1>1, <2>1, <2>2, JobStands
<1>6. ASSUME NEW i \in Instances, SectionFails(i)
      PROVE  JobCounted(j)'
  BY <1>1, <1>6, JobLost DEF SectionFails, Throws, Mishap
<1>7. ASSUME NEW i \in Instances, LockMoves(i)
      PROVE  JobCounted(j)'
  <2>1. /\ UNCHANGED <<successes, failures, file>> /\ batch' \in {batch, NoBatch}
        /\ section' \in {section, [section EXCEPT ![i] = NoSection]}
    BY <1>7, LockMovesKeep
  <2>2. CASE mishaps' = mishaps + 1
    BY <1>1, <2>1, <2>2, JobLost
  <2>3. CASE mishaps' = mishaps /\ batch' = batch
    <3>1. BatchWritten' => BatchWritten
      BY <1>1, <2>1, QueueAssumption DEF BatchWritten, NoSection
    <3> QED
      BY <1>1, <2>1, <2>3, <3>1, JobStands
  <2>4. CASE mishaps' = mishaps /\ batch' # batch
    <3>1. BatchWritten
      BY <1>1, <1>7, <2>4, LockMovesEnd DEF BatchWritten
    <3> QED
      BY <1>1, <2>1, <2>4, <3>1, JobBatchEnds
  <2> QED
    BY <1>7, <2>2, <2>3, <2>4, LockMovesEnd
<1>8. ASSUME NEW k \in Jobs, Succeeds(k) \/ FailsOnce(k)
      PROVE  JobCounted(j)'
  BY <1>8, JobSucceeds, JobFails
<1>9. CASE (\E k \in Jobs : BecomesDue(k)) \/ (GrowOld /\ UNCHANGED jobVars)
           \/ UNCHANGED vars
  <2>1. UNCHANGED <<successes, failures, batch, file, section, mishaps>>
    BY <1>9 DEF BecomesDue, GrowOld, jobVars, vars, lockVars
  <2> QED
    BY <1>1, <2>1, JobStands DEF BatchWritten
<1> QED
  BY <1>2, <1>3, <1>4, <1>5, <1>6, <1>7, <1>8, <1>9, NextCases DEF Around

LEMMA AttemptsInit == Init => SectionsOrdered /\ AttemptsCounted
<1> SUFFICES ASSUME Init PROVE SectionsOrdered /\ AttemptsCounted
  OBVIOUS
<1>1. SectionsOrdered
  BY DEF Init, LockInit, SectionsOrdered, NoSection, NoBatch
<1>2. ASSUME NEW j \in Jobs PROVE JobCounted(j)
  BY QueueAssumption
  DEF Init, LockInit, JobCounted, Tries, Todo, Empty, NoBatch
<1> QED
  BY <1>1, <1>2 DEF AttemptsCounted

LEMMA SectionsInvariant ==
  Spec /\ []HoldersKeepLock => [](QueueInv /\ SectionsOrdered /\ AttemptsCounted)
<1>1. Init => SectionsOrdered /\ AttemptsCounted
  BY AttemptsInit
<1>2. QueueInv /\ HoldersKeepLock /\ SectionsOrdered /\ AttemptsCounted /\ [Next]_vars
        => SectionsOrdered' /\ AttemptsCounted'
  BY SectionsOrderedStep, AttemptsStep
<1>3. HoldersKeepLock => MutualExclusion
  BY KeepingExcludes
<1> QED
  BY <1>1, <1>2, <1>3, QueueInvariant, PTL DEF Spec

\* As long as no holder of the lock loses its directory, no job is handled
\* more than MaxAttempts times, or again after it has succeeded, but for once
\* per crash or failing file access.
THEOREM HandledNoMoreThanAllowed == Spec /\ []HoldersKeepLock => []AttemptsBounded
<1>1. AttemptsCounted => AttemptsBounded
  BY DEF AttemptsCounted, JobCounted, Tries, AttemptsBounded
<1> QED
  BY <1>1, SectionsInvariant, PTL

-----------------------------------------------------------------------------
(* The counters.                                                           *)

Succeeded == {j \in Jobs : successes[j] > 0}
Dropped == {j \in Jobs : failures[j] >= MaxAttempts}

\* The counters are those of before the batch, until its last section has
\* written them.
CountersInv ==
  mishaps = 0 =>
    IF section[Worker].op = "finish" /\ section[Worker].step = "end"
    THEN /\ state.completed = Cardinality(Succeeded)
         /\ state.failed = Cardinality(Dropped)
    ELSE /\ state.completed = Cardinality(Succeeded \ batch.done)
         /\ state.failed = Cardinality(Dropped \ batch.dead)
         /\ batch.running => batch.counts = state

\* A set and the rest of the set that holds it make up the whole.
LEMMA PartAndRest ==
  ASSUME NEW whole \in SUBSET Jobs, NEW part \in SUBSET whole
  PROVE  /\ Cardinality(whole \ part) \in Nat
         /\ Cardinality(whole \ part) + Cardinality(part) = Cardinality(whole)
<1>1. IsFiniteSet(whole)
  BY QueueAssumption, FS_Subset
<1>2. whole \cap part = part /\ IsFiniteSet(part) /\ IsFiniteSet(whole \ part)
  BY <1>1, FS_Subset
<1>3. Cardinality(whole \ part) = Cardinality(whole) - Cardinality(whole \cap part)
  BY <1>1, FS_Difference
<1>4. /\ Cardinality(whole) \in Nat /\ Cardinality(part) \in Nat
      /\ Cardinality(whole \ part) \in Nat
  BY <1>1, <1>2, FS_CardinalityType
<1>5. Cardinality(whole \ part) = Cardinality(whole) - Cardinality(part)
  BY <1>2, <1>3
<1> QED
  BY <1>4, <1>5

LEMMA CountersStand ==
  ASSUME CountersInv, UNCHANGED <<successes, failures, state, batch>>,
         mishaps = 0,
         (section[Worker].op = "finish" /\ section[Worker].step = "end")'
           <=> section[Worker].op = "finish" /\ section[Worker].step = "end"
  PROVE  CountersInv'
BY DEF CountersInv, Succeeded, Dropped

LEMMA CountersHandled ==
  ASSUME QueueInv, SectionsOrdered, AttemptsCounted, CountersInv,
         NEW k \in Jobs, Succeeds(k) \/ FailsOnce(k), mishaps = 0
  PROVE  CountersInv'
<1>1. /\ k \in Todo /\ batch.running
      /\ section[Worker].op # "finish" /\ UNCHANGED <<section, state, mishaps>>
  BY QueueAssumption
  DEF Succeeds, FailsOnce, Handling, SectionsOrdered, lockVars
<1>2. /\ successes[k] = 0 /\ successes[k] + failures[k] <= batch.seen[k]
      /\ batch.seen[k] < MaxAttempts
  <2>1. JobCounted(k)
    BY DEF AttemptsCounted
  <2>2. batch.seen[k] \in 0..MaxAttempts /\ batch.seen[k] # MaxAttempts
    BY <1>1, <2>1
    DEF QueueInv, TypeOK, Batch, Files, Stored, Absent, Todo, JobCounted
  <2> QED
    BY <1>1, <2>1, <2>2, CountTypes DEF JobCounted, Tries
<1>3. /\ state.completed = Cardinality(Succeeded \ batch.done)
      /\ state.failed = Cardinality(Dropped \ batch.dead)
      /\ batch.counts = state
  BY <1>1 DEF CountersInv
<1>4. /\ Succeeded' \ batch'.done = Succeeded \ batch.done
      /\ Dropped' \ batch'.dead = Dropped \ batch.dead
      /\ batch'.counts = batch.counts
  <2>1. CASE Succeeds(k)
    <3>1. /\ batch'.done = batch.done \cup {k} /\ batch'.dead = batch.dead
          /\ batch'.counts = batch.counts /\ failures' = failures
          /\ \A j \in Jobs : j # k => successes'[j] = successes[j]
      BY <2>1 DEF Succeeds, QueueInv, TypeOK, Batch
    <3>2. Succeeded' \ batch'.done = Succeeded \ batch.done
      BY <1>2, <3>1 DEF Succeeded
    <3> QED
      BY <3>1, <3>2 DEF Dropped
  <2>2. CASE FailsOnce(k)
    <3>1. /\ batch'.done = batch.done /\ batch'.counts = batch.counts
          /\ batch'.dead = IF Exhausted(k) THEN batch.dead \cup {k} ELSE batch.dead
          /\ successes' = successes /\ failures'[k] = failures[k] + 1
          /\ \A j \in Jobs : j # k => failures'[j] = failures[j]
      BY <2>2 DEF FailsOnce, QueueInv, TypeOK, Batch
    <3>2. k \notin Dropped
      BY <1>2, CountTypes DEF Dropped
    <3>3. ~Exhausted(k) => failures'[k] < MaxAttempts
      BY <1>2, <3>1, CountTypes DEF Exhausted
    <3>4. \A j \in Jobs : j # k => (j \in Dropped' <=> j \in Dropped)
      BY <3>1 DEF Dropped
    <3>5. ~Exhausted(k) => k \notin Dropped'
      BY <3>3, CountTypes, <3>1 DEF Dropped
    <3>6. Dropped' \subseteq Jobs /\ Dropped \subseteq Jobs
      BY DEF Dropped
    <3> QED
      BY <3>1, <3>2, <3>4, <3>5, <3>6 DEF Succeeded
  <2> QED
    BY <2>1, <2>2
<1> QED
  BY <1>1, <1>3, <1>4 DEF CountersInv

LEMMA CountersWritten ==
  ASSUME QueueInv, SectionsOrdered, CountersInv, NEW i \in Instances,
         WriteState(i), mishaps = 0
  PROVE  CountersInv'
<1>1. /\ i = Worker /\ section[i].op = "finish" /\ section[i].step = "count"
      /\ batch.running
  BY DEF WriteState, SectionsOrdered
<1>2. /\ state' = Counted /\ UNCHANGED <<successes, failures, batch, mishaps>>
      /\ section'[i].op = "finish" /\ section'[i].step = "end"
  BY <1>1 DEF WriteState, lockVars, QueueInv, TypeOK, Section
<1>3. /\ state.completed = Cardinality(Succeeded \ batch.done)
      /\ state.failed = Cardinality(Dropped \ batch.dead)
      /\ batch.counts = state
  BY <1>1 DEF CountersInv
<1>4. /\ batch.done \subseteq Succeeded /\ Succeeded \subseteq Jobs
      /\ batch.dead \subseteq Dropped /\ Dropped \subseteq Jobs
  BY DEF QueueInv, BatchAccounts, Succeeded, Dropped, TypeOK, Batch
<1>5. /\ state'.completed = Cardinality(Succeeded)
      /\ state'.failed = Cardinality(Dropped)
  BY <1>2, <1>3, <1>4, PartAndRest DEF Counted
<1> QED
  BY <1>1, <1>2, <1>5 DEF CountersInv, Succeeded, Dropped

LEMMA CountersStep ==
  ASSUME QueueInv, HoldersKeepLock, SectionsOrdered, AttemptsCounted, CountersInv,
         [Next]_vars
  PROVE  CountersInv'
<1>1. section \in [Instances -> Section] /\ mishaps \in Nat /\ Worker \in Instances
  BY QueueAssumption, LockAssumption DEF QueueInv, TypeOK, LockTypeOK
<1>2. mishaps' = 0 => mishaps = 0
  <2>1. [LockNext]_lockVars
    BY QueueStepIsLockStep
  <2>2. mishaps' \in {mishaps, mishaps + 1}
    BY <2>1
    DEF LockNext, lockVars, Ask, Acquires, MakeDirectory, WriteOwner, FindStale,
      ReclaimStaleLock, Fails, GiveUp, WriteOwnerFails, Mishap, Leave, Throws,
      Releases, ReadOwner, RemoveDirectory, CrashLock, GrowOld
  <2> QED
    BY <1>1, <2>2
<1> SUFFICES ASSUME mishaps = 0, mishaps' = 0 PROVE CountersInv'
  BY <1>2 DEF CountersInv
<1>3. ASSUME NEW i \in Instances, Begins(i)
      PROVE  CountersInv'
  <2>1. PICK op \in Operations, jobs \in SUBSET Jobs : Begin(i, op, jobs)
    BY <1>3, BeginsOneSection
  <2>2. /\ UNCHANGED <<successes, failures, state, batch>>
        /\ section[i].op = "none" /\ section'[i].step = "read"
        /\ \A k \in Instances : k # i => section'[k] = section[k]
    BY <1>1, <2>1 DEF Begin, NoSection
  <2> QED
    BY <1>1, <2>2, CountersStand
<1>4. ASSUME NEW i \in Instances, Read(i)
      PROVE  CountersInv'
  <2>1. /\ UNCHANGED <<successes, failures, state>>
        /\ section'[i].op = section[i].op /\ section[i].step = "read"
        /\ section[i].op # "take" => section'[i].step = "write" /\ batch' = batch
        /\ section[i].op = "take" =>
             batch' = TakenFrom(file) /\ ~batch.running /\ i = Worker
        /\ \A k \in Instances : k # i => section'[k] = section[k]
    BY <1>1, <1>4 DEF Read, Section, SectionsOrdered
  <2>2. CASE section[i].op = "take"
    <3>1. batch = NoBatch
      BY <2>1, <2>2 DEF SectionsOrdered
    <3>2. /\ batch'.done = {} /\ batch'.dead = {}
          /\ batch'.running => batch'.counts = state
      <4>1. CASE Pending(file) = {}
        BY <2>1, <2>2, <4>1 DEF TakenFrom, NoBatch
      <4>2. CASE Pending(file) # {}
        BY <2>1, <2>2, <4>2 DEF TakenFrom, NoBatch
      <4> QED
        BY <4>1, <4>2
    <3>3. section[Worker].op = "take" /\ section'[Worker].op = "take"
      BY <2>1, <2>2
    <3> QED
      BY <2>1, <3>1, <3>2, <3>3 DEF CountersInv, NoBatch, Succeeded, Dropped
  <2>3. CASE section[i].op # "take"
    BY <1>1, <2>1, <2>3, CountersStand
  <2> QED
    BY <2>2, <2>3
<1>5. ASSUME NEW i \in Instances, Write(i)
      PROVE  CountersInv'
  <2>1. /\ UNCHANGED <<successes, failures, state, batch>>
        /\ section'[i].op = section[i].op /\ section[i].step = "write"
        /\ section[i].op = "finish" => section'[i].step = "count"
        /\ \A k \in Instances : k # i => section'[k] = section[k]
    BY <1>1, <1>5 DEF Write, Section
  <2> QED
    BY <1>1, <2>1, CountersStand
<1>6. ASSUME NEW i \in Instances, WriteState(i)
      PROVE  CountersInv'
  BY <1>6, CountersWritten
<1>7. ASSUME NEW i \in Instances, SectionFails(i)
      PROVE  CountersInv'
  BY <1>1, <1>7 DEF SectionFails, Throws, Mishap
<1>8. ASSUME NEW i \in Instances, LockMoves(i)
      PROVE  CountersInv'
  <2>1. /\ UNCHANGED <<successes, failures, state>> /\ batch' \in {batch, NoBatch}
        /\ section' \in {section, [section EXCEPT ![i] = NoSection]}
    BY <1>8, LockMovesKeep
  <2>2. /\ batch' # batch \/ section' # section =>
             /\ section' = [section EXCEPT ![i] = NoSection]
             /\ section[i].step = "end"
             /\ batch' # batch => section[i].op = "finish" /\ i = Worker
        /\ section' # section /\ section[i].op = "finish" =>
             batch' = NoBatch /\ i = Worker
    BY <1>1, <1>8, LockMovesEnd DEF SectionsOrdered
  <2>3. CASE section' = section
    <3>1. batch' = batch
      BY <1>1, <2>2, <2>3 DEF NoSection
    <3> QED
      BY <2>1, <2>3, <3>1, CountersStand
  <2>4. CASE section' # section /\ section[i].op = "finish"
    <3>1. /\ section[Worker].op = "finish" /\ section[Worker].step = "end"
          /\ batch' = NoBatch /\ section'[Worker] = NoSection
      BY <1>1, <2>2, <2>4
    <3> QED
      BY <2>1, <3>1 DEF CountersInv, NoSection, NoBatch, Succeeded, Dropped
  <2>5. CASE section' # section /\ section[i].op # "finish"
    <3>1. batch' = batch /\ (i = Worker => section'[Worker].op # "finish")
          /\ (i # Worker => section'[Worker] = section[Worker])
      BY <1>1, <2>2, <2>5 DEF NoSection
    <3> QED
      BY <2>1, <2>5, <3>1, CountersStand
  <2> QED
    BY <2>3, <2>4, <2>5
<1>9. ASSUME NEW k \in Jobs, Succeeds(k) \/ FailsOnce(k)
      PROVE  CountersInv'
  BY <1>9, CountersHandled
<1>10. CASE (\E k \in Jobs : BecomesDue(k)) \/ (GrowOld /\ UNCHANGED jobVars)
            \/ UNCHANGED vars
  <2>1. UNCHANGED <<successes, failures, state, batch, section>>
    BY <1>10 DEF BecomesDue, jobVars, vars
  <2> QED
    BY <2>1, CountersStand
<1> QED
  BY <1>3, <1>4, <1>5, <1>6, <1>7, <1>8, <1>9, <1>10, NextCases DEF Around

LEMMA CountersInit == Init => CountersInv
<1> SUFFICES ASSUME Init PROVE CountersInv
  OBVIOUS
<1>1. Succeeded = {} /\ Dropped = {}
  BY QueueAssumption DEF Init, Succeeded, Dropped
<1> QED
  BY <1>1, FS_EmptySet, QueueAssumption
  DEF Init, CountersInv, NoSection, NoBatch, NoCounts

\* As long as nothing goes wrong and no holder of the lock loses its directory,
\* every job that has succeeded and every one that was dropped is counted
\* exactly once when no batch is running.
THEOREM JobsAreCountedOnce == Spec /\ []HoldersKeepLock => []CountersAddUp
<1>1. Init => CountersInv
  BY CountersInit
<1>2. QueueInv /\ HoldersKeepLock /\ SectionsOrdered /\ AttemptsCounted /\ CountersInv
        /\ [Next]_vars => CountersInv'
  BY CountersStep
<1>3. SectionsOrdered /\ CountersInv => CountersAddUp
  <2> SUFFICES ASSUME SectionsOrdered, CountersInv, mishaps = 0, ~batch.running
               PROVE  /\ state.completed = Cardinality(Succeeded)
                      /\ state.failed = Cardinality(Dropped)
    BY DEF CountersAddUp, Succeeded, Dropped
  <2>1. batch.done = {} /\ batch.dead = {} /\ section[Worker].op # "finish"
    BY QueueAssumption DEF SectionsOrdered, NoBatch
  <2> QED
    BY <2>1 DEF CountersInv
<1> QED
  BY <1>1, <1>2, <1>3, SectionsInvariant, PTL DEF Spec
=============================================================================
