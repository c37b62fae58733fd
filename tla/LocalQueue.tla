------------------------------ MODULE LocalQueue ------------------------------
(***************************************************************************)
(* The file-based local queue: instances that enqueue, clear and remove    *)
(* jobs, and one of them that also handles them in batches.                *)
(*                                                                         *)
(* Every change of the files is a section run under the directory lock: it *)
(* reads the file, and writes it whole, in a step of its own.  Handlers    *)
(* run between two sections, outside the lock.  A process may crash at any *)
(* step, and file access may fail.                                         *)
(*                                                                         *)
(* The file is a function from jobs to what is stored of them; the order   *)
(* of the jobs in it only decides in which order they are handled.         *)
(*                                                                         *)
(* An operator named Fault... is a plausible mistake in the operator that  *)
(* follows it and is used by nothing.                                      *)
(***************************************************************************)
EXTENDS QueueLock, FiniteSets

CONSTANTS
  Jobs,          \* jobs, each enqueued at most once
  Worker,        \* the instance whose process() is called
  Producers,     \* the instances that jobs are enqueued with
  Admins,        \* the instances that jobs are cleared and removed with
  Scopes,        \* the sets of jobs that removeQueuedJobsByScope may match
  MaxAttempts    \* DEFAULT_MAX_ATTEMPTS

ASSUME QueueAssumption ==
  /\ Worker \in Instances
  /\ Producers \subseteq Instances /\ Admins \subseteq Instances
  /\ Scopes \subseteq SUBSET Jobs
  /\ IsFiniteSet(Jobs)
  /\ MaxAttempts \in Nat \ {0}

VARIABLES
  file,        \* queue.json: attemptCount of each job in it, or Absent
  due,         \* the jobs whose availableAt, if any, has passed
  state,       \* state.json: completedCount and failedCount
  section,     \* the section each instance runs, and what it has read
  batch,       \* the batch in the memory of the worker
  successes,   \* history: how often handlers have succeeded with each job
  failures,    \* history: how often handlers have failed with each job
  withdrawn    \* history: the jobs removed by an administrator

jobVars == <<file, due, state, section, batch, successes, failures, withdrawn>>
vars == <<lock, at, mishaps, file, due, state, section, batch, successes,
          failures, withdrawn>>

Absent == MaxAttempts      \* no job waits with all its attempts made
Stored == 0..Absent
Files  == [Jobs -> Stored]
Empty  == [j \in Jobs |-> Absent]

Waiting(f) == {j \in Jobs : f[j] # Absent}

Counters == [completed : Nat, failed : Nat]
NoCounts == [completed |-> 0, failed |-> 0]

Operations == {"none", "enqueue", "take", "finish", "clear", "remove"}

Section ==
  [op    : Operations,
   step  : {"read", "write", "count", "end"},
   jobs  : SUBSET Jobs,        \* the job to enqueue, or the scope to remove
   seen  : Files]              \* the file as read

NoSection == [op |-> "none", step |-> "read", jobs |-> {}, seen |-> Empty]

Batch ==
  [running : BOOLEAN,
   taken   : SUBSET Jobs,      \* jobsToProcess, and inFlightJobIds
   done    : SUBSET Jobs,      \* completedJobIds
   dead    : SUBSET Jobs,      \* deadJobIds
   retry   : SUBSET Jobs,      \* retryUpdates
   seen    : Files,            \* the file and the counters when it was taken
   counts  : Counters]

NoBatch == [running |-> FALSE, taken |-> {}, done |-> {}, dead |-> {},
            retry |-> {}, seen |-> Empty, counts |-> NoCounts]

TypeOK ==
  /\ LockTypeOK
  /\ file \in Files
  /\ due \subseteq Jobs
  /\ state \in Counters
  /\ section \in [Instances -> Section]
  /\ batch \in Batch
  /\ successes \in [Jobs -> Nat]
  /\ failures \in [Jobs -> Nat]
  /\ withdrawn \subseteq Jobs

Init ==
  /\ LockInit
  /\ file = Empty
  /\ due = Jobs
  /\ state = NoCounts
  /\ section = [i \in Instances |-> NoSection]
  /\ batch = NoBatch
  /\ successes = [j \in Jobs |-> 0]
  /\ failures = [j \in Jobs |-> 0]
  /\ withdrawn = {}

-----------------------------------------------------------------------------
(* Sections.  An instance runs one at a time (fileOpChain).                *)

Begin(i, op, jobs) ==
  /\ section[i].op = "none"
  /\ Ask(i)
  /\ section' = [section EXCEPT ![i] =
       [NoSection EXCEPT !.op = op, !.jobs = jobs]]
  /\ UNCHANGED <<file, due, state, batch, successes, failures, withdrawn>>

\* Ids are random: no job is enqueued twice.
Fresh(j) ==
  /\ file[j] = Absent /\ successes[j] = 0 /\ failures[j] = 0
  /\ j \notin withdrawn
  /\ \A i \in Instances : section[i].op = "enqueue" => j \notin section[i].jobs

Enqueue(i, j) == i \in Producers /\ Fresh(j) /\ Begin(i, "enqueue", {j})

Clear(i) == i \in Admins /\ Begin(i, "clear", Jobs)

RemoveQueuedJobsByScope(i, scope) == i \in Admins /\ Begin(i, "remove", scope)

\* A poll, when no batch is being processed.
Poll(i) == i = Worker /\ ~batch.running /\ Begin(i, "take", {})

Todo == batch.taken \ (batch.done \cup batch.dead \cup batch.retry)

\* All handlers have run and something is to be written.
FinishBatch(i) ==
  /\ i = Worker
  /\ batch.running
  /\ Todo = {}
  /\ Begin(i, "finish", {})

\* Fault: the backoff of a job that failed is taken for never ending.
FaultPending(f) == {j \in Waiting(f) \cap due : f[j] = 0}

Pending(f) == Waiting(f) \cap due

\* The first access to a file in the section.  A poll reads the counters, too,
\* and picks the jobs that are due; nothing is written then.
TakenFrom(f) ==
  LET jobs == Pending(f) IN
  IF jobs = {} THEN NoBatch
  ELSE [NoBatch EXCEPT !.running = TRUE, !.taken = jobs, !.seen = f,
                       !.counts = state]

Read(i) ==
  /\ at[i] = "inside"
  /\ section[i].op # "none" /\ section[i].step = "read"
  /\ IF section[i].op = "take"
     THEN /\ batch' = TakenFrom(file)
          /\ section' = [section EXCEPT ![i].step = "end"]
     ELSE /\ section' = [section EXCEPT ![i].step = "write",
                                        ![i].seen = file]
          /\ UNCHANGED batch
  /\ UNCHANGED <<lockVars, file, due, state, successes, failures, withdrawn>>

\* Fault: a batch writes back the file it took, not what it reads at its end.
FaultAfterBatch(f) ==
  [j \in Jobs |->
     IF j \in batch.done \cup batch.dead THEN Absent
     ELSE IF j \in batch.retry THEN batch.seen[j] + 1
     ELSE batch.seen[j]]

\* Fault: the attempt is counted on the entry in the file, there or not.
FaultRetried(f) ==
  [j \in Jobs |->
     IF j \in batch.done \cup batch.dead THEN Absent
     ELSE IF j \in batch.retry THEN f[j] + 1
     ELSE f[j]]

\* Fault: the attempt is not written to the file.
FaultForgotten(f) ==
  [j \in Jobs |-> IF j \in batch.done \cup batch.dead THEN Absent ELSE f[j]]

\* Jobs that succeeded or failed for the last time go; one that is to be tried
\* again is written with its attempts, if it still is there.
AfterBatch(f) ==
  [j \in Jobs |->
     IF j \in batch.done \cup batch.dead THEN Absent
     ELSE IF j \in batch.retry /\ f[j] # Absent THEN batch.seen[j] + 1
     ELSE f[j]]

\* Jobs that the same instance is handling stay.
Removed(i) ==
  LET mine == IF i = Worker THEN batch.taken ELSE {} IN
  CASE section[i].op = "clear" -> Waiting(section[i].seen)
    [] section[i].op = "remove" ->
         (Waiting(section[i].seen) \cap section[i].jobs) \ mine
    [] OTHER -> {}

Written(i) ==
  LET s == section[i] IN
  CASE s.op = "enqueue" -> [j \in Jobs |-> IF j \in s.jobs THEN 0 ELSE s.seen[j]]
    [] s.op = "finish" -> AfterBatch(s.seen)
    [] OTHER -> [j \in Jobs |-> IF j \in Removed(i) THEN Absent ELSE s.seen[j]]

\* The file is replaced as a whole, by a rename.  A job may be enqueued with a
\* delay, and one that is tried again has one.
Write(i) ==
  /\ at[i] = "inside"
  /\ section[i].step = "write"
  /\ file' = Written(i)
  /\ withdrawn' = withdrawn \cup Removed(i)
  /\ CASE section[i].op = "enqueue" -> due' \in {due, due \ section[i].jobs}
       [] section[i].op = "finish"  -> due' = due \ batch.retry
       [] OTHER -> UNCHANGED due
  /\ section' = [section EXCEPT
       ![i].step = IF section[i].op = "finish" THEN "count" ELSE "end",
       ![i].seen = Empty]
  /\ UNCHANGED <<lockVars, state, batch, successes, failures>>

\* Fault: the counters are set to those of the batch.
FaultCounted ==
  [completed |-> Cardinality(batch.done), failed |-> Cardinality(batch.dead)]

\* The counters read when the batch was taken, and those of the batch.
Counted ==
  [completed |-> batch.counts.completed + Cardinality(batch.done),
   failed    |-> batch.counts.failed + Cardinality(batch.dead)]

WriteState(i) ==
  /\ at[i] = "inside"
  /\ section[i].step = "count"
  /\ state' = Counted
  /\ section' = [section EXCEPT ![i].step = "end"]
  /\ UNCHANGED <<lockVars, file, due, batch, successes, failures, withdrawn>>

LeaveSection(i) ==
  /\ section[i].step = "end"
  /\ Leave(i)
  /\ UNCHANGED jobVars

\* File access fails in the section: it is left as it is.
SectionFails(i) ==
  /\ section[i].step # "end"
  /\ Throws(i)
  /\ section' = [section EXCEPT ![i].step = "end", ![i].seen = Empty]
  /\ UNCHANGED <<file, due, state, batch, successes, failures, withdrawn>>

AcquireSection(i) == Acquires(i) /\ UNCHANGED jobVars

\* Released, or never acquired.  A batch ends with its last section, whether
\* that has failed or not.
SectionEnds(i) ==
  IF at'[i] = "idle"
  THEN /\ section' = [section EXCEPT ![i] = NoSection]
       /\ batch' = IF section[i].op = "finish" THEN NoBatch ELSE batch
       /\ UNCHANGED <<file, due, state, successes, failures, withdrawn>>
  ELSE UNCHANGED jobVars

ReleaseSection(i) == Releases(i) /\ SectionEnds(i)
GiveUpSection(i)  == Fails(i) /\ SectionEnds(i)

-----------------------------------------------------------------------------
(* Handlers, time and crashes.                                             *)

\* A handler runs once the section that took the batch has ended.
Handling(j) ==
  /\ batch.running
  /\ section[Worker].op # "take"
  /\ j \in Todo

Succeeds(j) ==
  /\ Handling(j)
  /\ successes' = [successes EXCEPT ![j] = @ + 1]
  /\ batch' = [batch EXCEPT !.done = @ \cup {j}]
  /\ UNCHANGED <<lockVars, file, due, state, section, failures, withdrawn>>

Exhausted(j) == batch.seen[j] + 1 >= MaxAttempts

FailsOnce(j) ==
  /\ Handling(j)
  /\ failures' = [failures EXCEPT ![j] = @ + 1]
  /\ batch' = IF Exhausted(j) THEN [batch EXCEPT !.dead = @ \cup {j}]
                              ELSE [batch EXCEPT !.retry = @ \cup {j}]
  /\ UNCHANGED <<lockVars, file, due, state, section, successes, withdrawn>>

\* availableAt of a job passes.
BecomesDue(j) ==
  /\ j \notin due
  /\ due' = due \cup {j}
  /\ UNCHANGED <<lockVars, file, state, section, batch, successes, failures,
                 withdrawn>>

\* What the process has in memory is lost; the files and the lock stay.
Crash(i) ==
  /\ CrashLock(i)
  /\ section' = [section EXCEPT ![i] = NoSection]
  /\ batch' = IF i = Worker THEN NoBatch ELSE batch
  /\ UNCHANGED <<file, due, state, successes, failures, withdrawn>>

-----------------------------------------------------------------------------
SectionStep(i) ==
  \/ AcquireSection(i) \/ Read(i) \/ Write(i) \/ WriteState(i)
  \/ LeaveSection(i) \/ ReleaseSection(i)

Next ==
  \/ \E i \in Instances :
       \/ \E j \in Jobs : Enqueue(i, j)
       \/ \E scope \in Scopes : RemoveQueuedJobsByScope(i, scope)
       \/ Clear(i) \/ Poll(i) \/ FinishBatch(i)
       \/ SectionStep(i) \/ SectionFails(i) \/ GiveUpSection(i) \/ Crash(i)
  \/ \E j \in Jobs : Succeeds(j) \/ FailsOnce(j) \/ BecomesDue(j)
  \/ GrowOld /\ UNCHANGED jobVars

Spec == Init /\ [][Next]_vars

\* The timers and the watcher keep polling, handlers return, waiters wait a
\* random time and so find the lock free at some time if it is free again and
\* again, and time passes.
Fairness ==
  /\ \A i \in Instances :
       /\ SF_vars(AcquireSection(i))
       /\ WF_vars(SectionStep(i))
  /\ SF_vars(Poll(Worker)) /\ SF_vars(FinishBatch(Worker))
  /\ \A j \in Jobs : WF_vars(Succeeds(j) \/ FailsOnce(j)) /\ WF_vars(BecomesDue(j))
  /\ WF_vars(GrowOld /\ UNCHANGED jobVars)

FairSpec == Spec /\ Fairness

-----------------------------------------------------------------------------
(* Properties.                                                             *)

\* A job accepted stays in the file until it has succeeded, has failed
\* MaxAttempts times or is removed by an administrator, and once out of the
\* file never comes back: no enqueue, removal or batch is lost to another.
Kept == Waiting(file)
Accepted ==
  {j \in Jobs : file[j] # Absent \/ successes[j] + failures[j] > 0
                \/ j \in withdrawn}
Promise == INSTANCE QueuePromise WITH
  waiting   <- Kept,
  gone      <- Accepted \ Kept,
  succeeded <- {j \in Jobs : successes[j] > 0},
  failures  <- failures,
  withdrawn <- withdrawn
KeepsQueuePromise == Promise!Spec

\* A job is handled at most MaxAttempts times, and once more for each crash
\* or failing file access: attempts are not forgotten otherwise.
AttemptsBounded ==
  \A j \in Jobs : /\ successes[j] <= 1 + mishaps
                  /\ successes[j] + failures[j] <= MaxAttempts + mishaps

\* As long as nothing goes wrong the counters count every job once: those that
\* succeeded, and those dropped after their last attempt.
CountersAddUp ==
  mishaps = 0 /\ ~batch.running =>
    /\ state.completed = Cardinality({j \in Jobs : successes[j] > 0})
    /\ state.failed = Cardinality({j \in Jobs : failures[j] >= MaxAttempts})

\* A job that waits is handled to its end or removed: no crash leaves the lock
\* or the file behind in a way that blocks it for good.
JobsLeave == \A j \in Jobs : file[j] # Absent ~> file[j] = Absent
=============================================================================
