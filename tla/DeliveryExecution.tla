-------------------------- MODULE DeliveryExecution --------------------------
(***************************************************************************)
(* Automatic execution on top of the task board: the bridge that reserves  *)
(* an attempt, starts its workflow and queues its job; the worker that     *)
(* claims the attempt and runs the executor; the worker that tells the     *)
(* waiting workflow of the result; and the scans that repair what was lost.*)
(*                                                                         *)
(* The bridge and the workers are sequences of database transactions and   *)
(* calls of other services with no transaction around them: each such step *)
(* is an action, and between two of them anything may happen, a crash of   *)
(* the process included.  An attempt is named by its task and its place in *)
(* the register; that name is also the correlation key of its workflow.    *)
(***************************************************************************)
EXTENDS DeliveryTasks

CONSTANTS
  Callers,      \* requests being served by the bridge at the same time
  BridgeKeys,   \* the idempotency keys of automatic executions
  Resumers,     \* the concurrent handlers of the resume queue
  Users,        \* the users, whose ids are uuids
  Recorders,    \* who imports results: users, or callers that are none
  ScanActor,    \* who reconciles attempts that are stuck
  ScanLimit,    \* how many pending deliveries one scan lists
  SignalTries,  \* SIGNAL_RETRY_COUNT: signals sent per resume job
  MaxInstances, \* bound: workflow instances ever started
  MaxCrashes    \* bound: crashes of resume handlers

\* A job of the execute queue is named by its id, which is also the worker
\* reference it claims the attempt with.
Jobs == Workers

AttemptIds == Tasks \X (1..MaxAttempts)
NoAttempt  == <<>>

ASSUME ExecutionAssumption ==
  /\ BridgeKeys \subseteq Keys
  /\ Workflows # {}
  /\ ScanLimit \in Nat \ {0}
  /\ SignalTries \in Nat \ {0} /\ MaxInstances \in Nat /\ MaxCrashes \in Nat

VARIABLES
  call,       \* per caller, how far the bridge is
  job,        \* per job of the execute queue, how far its handler is
  instances,  \* the workflow instances, oldest first
  signed,     \* the attempts whose result names a user as its recorder
  wakes,      \* the attempts the resume queue holds a job for
  resume,     \* per resume handler, how far it is
  crashes,    \* how many resume handlers have crashed
  starts      \* history: how often the executor was started per attempt

execVars == <<call, job, instances, signed, wakes, resume, crashes, starts>>
allVars  == <<vars, execVars>>

-----------------------------------------------------------------------------
Call == [pc       : {"idle", "look", "start", "link", "check", "execute",
                     "confirm", "enqueue", "dispatch"},
         owner    : AttemptIds \cup {NoAttempt},
         instance : 0..MaxInstances,
         parked   : BOOLEAN]

Job == [pc    : {"unused", "queued", "claimed", "ready", "running", "failed",
                 "accepting", "done"},
        owner : AttemptIds \cup {NoAttempt}]

\* "start": running at its first step; "wait": paused at wait_for_evidence;
\* "leaving": flushed as running while it still stands at wait_for_evidence;
\* "end": past it.
Instance == [owner : AttemptIds, at : {"start", "wait", "leaving", "end"}]

Resume == [pc     : {"idle", "check", "signal", "flush", "advance", "look",
                     "mark"},
           owner  : AttemptIds \cup {NoAttempt},
           tries  : 0..SignalTries,
           found  : SUBSET (1..MaxInstances),
           target : 0..MaxInstances,
           hit    : BOOLEAN]

IdleCall   == [pc |-> "idle", owner |-> NoAttempt, instance |-> 0,
               parked |-> FALSE]
IdleResume == [pc |-> "idle", owner |-> NoAttempt, tries |-> 0, found |-> {},
               target |-> 0, hit |-> FALSE]

Record(id) == attempts[id[1]][id[2]]
OwnRef     == CHOOSE f \in Workflows : TRUE

InstancesOf(id) == {i \in DOMAIN instances : instances[i].owner = id}

\* isParkedAtEvidenceWait
Parked(i) == instances[i].at = "wait"

\* Fault: the bridge does not wait for the workflow to park.
FaultLeftStart(i) == instances[i].at = "leaving" \/ instances[i].at = "end"
\* Fault: an instance that has reached its end is not recognised.
FaultNeverLeft(i) == instances[i].at = "leaving"
\* hasLeftEvidenceWait
LeftWait(i) == instances[i].at = "end"

MoveInstance(i, to) == instances' = [instances EXCEPT ![i].at = to]

-----------------------------------------------------------------------------
(* attemptQueries: what the bridge and the workers ask the board.          *)

\* With a pinned flow the gates are asked again and nothing else may run.
FlowAllows(id) ==
  HasFlow => /\ ReadyGate(id[1])
             /\ \A u \in Tasks : \A b \in OpenAttempts(u) : <<u, b>> = id

\* assertExecutionReady in mode execute
ExecutionReady(id) ==
  /\ Live(id[1]) /\ Record(id).state \in {"reserved", "claimed"}
  /\ FlowAllows(id)

\* assertExecutionReady in mode resume
ResumeReady(id) ==
  /\ Live(id[1])
  /\ Record(id).state = "result_received" /\ Record(id).delivery = "pending"
  /\ FlowAllows(id)

\* listPendingDeliveries, archived tasks included
PendingDeliveries ==
  {id \in AttemptIds : /\ id[2] \in DOMAIN attempts[id[1]]
                       /\ Record(id).delivery = "pending"}

\* The tasks in the order of their ids.
TaskOrder == CHOOSE f \in [Tasks -> 1..Cardinality(Tasks)] :
               \A t, u \in Tasks : t # u => f[t] # f[u]

ListedBefore(n, id) ==
  \/ TaskOrder[n[1]] < TaskOrder[id[1]]
  \/ n[1] = id[1] /\ n[2] < id[2]

\* Those the scan gets to see: by task and attempt, as far as its limit goes.
ListedDeliveries ==
  {id \in PendingDeliveries :
     Cardinality({n \in PendingDeliveries : ListedBefore(n, id)}) < ScanLimit}

-----------------------------------------------------------------------------
\* A trusted actor is a uuid: only users are.
ActorAccepted(actor) == actor \in Users

ExecInit ==
  /\ Init
  /\ call      = [c \in Callers |-> IdleCall]
  /\ job       = [j \in Jobs |-> [pc |-> "unused", owner |-> NoAttempt]]
  /\ instances = <<>>
  /\ signed    = {}
  /\ wakes     = {}
  /\ resume    = [h \in Resumers |-> IdleResume]
  /\ crashes   = 0
  /\ starts    = [id \in AttemptIds |-> 0]

\* A result that is owed to a workflow is announced after its transaction;
\* the announcement is lost when the process dies in between.
Announce(t, a) ==
  \/ wakes' = wakes
  \/ attempts'[t][a].delivery = "pending" /\ wakes' = wakes \cup {<<t, a>>}

(* Everything people do to the board; attempts are reserved by hand with   *)
(* keys of their own.                                                      *)
Operate ==
  /\ \/ \E t \in Tasks : PlanStep(t) \/ ReviewStep(t)
     \/ \E t \in Tasks, k \in Keys \ BridgeKeys : Reserve(t, k)
     \/ \E t \in Tasks : \E a \in DOMAIN attempts[t] : OperatorStep(t, a)
     \/ ProjectStep
  /\ UNCHANGED execVars

\* evidence.recordedBy of the result of an attempt: null for no user.
Sign(id, who) ==
  signed' = IF ActorAccepted(who) THEN signed \cup {id} ELSE signed

ImportResult(t, a) ==
  /\ \E r \in Revisions, o \in Reports : AcceptResult(t, a, r, o)
  /\ \E who \in Recorders : Sign(<<t, a>>, who)
  /\ Announce(t, a)

\* results.accept, or a reconciliation as completed, which takes only users.
BringResult(t, a) ==
  /\ \/ ImportResult(t, a)
     \/ /\ \E r \in Revisions, o \in Reports : ReconcileCompleted(t, a, r, o)
        /\ \E who \in Users : Sign(<<t, a>>, who)
        /\ Announce(t, a)
  /\ UNCHANGED <<call, job, instances, resume, crashes, starts>>

\* The same result again changes nothing and is announced once more.
RepeatResult(t, a) ==
  /\ Live(t) /\ attempts[t][a].result
  /\ UNCHANGED vars /\ Announce(t, a)
  /\ UNCHANGED <<call, job, instances, signed, resume, crashes, starts>>

-----------------------------------------------------------------------------
(* startExecution, the bridge.                                             *)

Advance(c, to) == call' = [call EXCEPT ![c].pc = to]
OnlyCall(c)    == UNCHANGED <<vars, job, instances, signed, wakes, resume,
                              crashes, starts>>

BeginCall(c, id) ==
  /\ call[c].pc = "idle"
  /\ call' = [call EXCEPT ![c] = [IdleCall EXCEPT !.pc = "look", !.owner = id]]

\* A new reservation.
CallReserve(c, t, k) ==
  /\ Reserve(t, k)
  /\ BeginCall(c, <<t, Len(attempts[t]) + 1>>)
  /\ UNCHANGED <<job, instances, signed, wakes, resume, crashes, starts>>

\* The same key again: goes on only with a reservation not yet dispatched.
CallReplay(c, t, k) ==
  /\ Live(t)
  /\ \E a \in DOMAIN attempts[t] :
       /\ attempts[t][a].key = k
       /\ attempts[t][a].state = "reserved" /\ ~attempts[t][a].dispatched
       /\ BeginCall(c, <<t, a>>)
  /\ OnlyCall(c)

\* findDeliveryWorkflowInstance by correlation key
LookForInstance(c) ==
  LET id == call[c].owner IN
  /\ call[c].pc = "look" /\ ExecutionReady(id)
  /\ \/ /\ InstancesOf(id) = {}
        /\ Advance(c, "start")
     \/ \E i \in InstancesOf(id) :
          call' = [call EXCEPT ![c].pc = "link", ![c].instance = i,
                               ![c].parked = Parked(i)]
  /\ OnlyCall(c)

StartWorkflow(c) ==
  /\ call[c].pc = "start" /\ Len(instances) < MaxInstances
  /\ instances' = Append(instances, [owner |-> call[c].owner, at |-> "start"])
  /\ call' = [call EXCEPT ![c].pc = "link", ![c].instance = Len(instances) + 1]
  /\ UNCHANGED <<vars, job, signed, wakes, resume, crashes, starts>>

Link(c) ==
  /\ call[c].pc = "link"
  /\ LinkWorkflow(call[c].owner[1], call[c].owner[2], OwnRef, FALSE)
  /\ call' = [call EXCEPT ![c].pc = IF call[c].parked THEN "confirm" ELSE "check",
                          ![c].parked = FALSE]
  /\ UNCHANGED <<job, instances, signed, wakes, resume, crashes, starts>>

CheckBeforeExecute(c) ==
  /\ call[c].pc = "check" /\ ExecutionReady(call[c].owner)
  /\ Advance(c, "execute")
  /\ OnlyCall(c)

\* executeWorkflow, one transaction under the instance's row lock: it moves
\* a fresh instance to its wait step, or returns without having moved it, and
\* leaves any other where it is.
ExecuteWorkflow(c) ==
  /\ call[c].pc = "execute"
  /\ \/ /\ instances[call[c].instance].at = "start"
        /\ MoveInstance(call[c].instance, "wait")
     \/ UNCHANGED instances
  /\ Advance(c, "confirm")
  /\ UNCHANGED <<vars, job, signed, wakes, resume, crashes, starts>>

\* Fault: the job is queued without a look at the workflow.
FaultConfirmed(i) == TRUE
\* Fault: the execution is marked as dispatched before it is.
FaultAfterConfirm == "dispatch"

\* pollForPark
Confirmed(i) == Parked(i)
AfterConfirm == "enqueue"

ConfirmParked(c) ==
  /\ call[c].pc = "confirm"
  /\ Confirmed(call[c].instance) /\ ExecutionReady(call[c].owner)
  /\ call' = [call EXCEPT ![c].pc = AfterConfirm, ![c].instance = 0]
  /\ OnlyCall(c)

Enqueue(c, j) ==
  /\ call[c].pc = "enqueue" /\ job[j].pc = "unused"
  /\ job' = [job EXCEPT ![j] = [pc |-> "queued", owner |-> call[c].owner]]
  /\ Advance(c, "dispatch")
  /\ UNCHANGED <<vars, instances, signed, wakes, resume, crashes, starts>>

Dispatch(c) ==
  /\ call[c].pc = "dispatch"
  /\ LinkWorkflow(call[c].owner[1], call[c].owner[2], OwnRef, TRUE)
  /\ call' = [call EXCEPT ![c] = IdleCall]
  /\ UNCHANGED <<job, instances, signed, wakes, resume, crashes, starts>>

\* A check, a command or a service fails, or the process dies.
AbortCall(c) ==
  /\ call[c].pc # "idle"
  /\ call' = [call EXCEPT ![c] = IdleCall]
  /\ OnlyCall(c)

BridgeStep(c) ==
  \/ \E t \in Tasks, k \in BridgeKeys : CallReserve(c, t, k) \/ CallReplay(c, t, k)
  \/ LookForInstance(c) \/ StartWorkflow(c) \/ Link(c)
  \/ CheckBeforeExecute(c) \/ ExecuteWorkflow(c) \/ ConfirmParked(c)
  \/ \E j \in Jobs : Enqueue(c, j)
  \/ Dispatch(c) \/ AbortCall(c)

-----------------------------------------------------------------------------
(* execute-task, the worker.  The queue delivers a job again when its      *)
(* handler throws or its process dies.                                     *)

JobAt(j, to) == job' = [job EXCEPT ![j].pc = to]
OnlyJob(j)   == UNCHANGED <<vars, call, instances, signed, wakes, resume,
                            crashes, starts>>

\* Fault: a job that finds its own claim goes on with it.
FaultUnclaimed(id, j) ==
  IF Record(id).state = "claimed" /\ Record(id).worker = j
    THEN "claimed" ELSE "done"

\* Fault: a job that could not claim is kept in a state of its own.
FaultUnclaimedKept(id, j) == "refused"

\* How a job goes on that could not claim: the start is uncertain, or
\* somebody else holds or ended the attempt.
Unclaimed(id, j) == "done"

ClaimJob(j) ==
  LET id == job[j].owner IN
  /\ job[j].pc = "queued"
  /\ \/ Claim(id[1], id[2], j) /\ JobAt(j, "claimed")
     \/ /\ ~(Live(id[1]) /\ Record(id).state = "reserved")
        /\ JobAt(j, Unclaimed(id, j))
        /\ UNCHANGED vars
  /\ UNCHANGED <<call, instances, signed, wakes, resume, crashes, starts>>

\* buildTaskPackage fails: the handler returns and the attempt stays claimed.
PackageFails(j) ==
  /\ job[j].pc = "claimed"
  /\ JobAt(j, "done")
  /\ OnlyJob(j)

\* The last look before the executor is started; a refusal throws.
CheckJob(j) ==
  /\ job[j].pc = "claimed"
  /\ JobAt(j, IF ExecutionReady(job[j].owner) THEN "ready" ELSE "queued")
  /\ OnlyJob(j)

StartExecutor(j) ==
  /\ job[j].pc = "ready"
  /\ JobAt(j, "running")
  /\ starts' = [starts EXCEPT ![job[j].owner] = @ + 1]
  /\ UNCHANGED <<vars, call, instances, signed, wakes, resume, crashes>>

ExecutorFails(j) ==
  /\ job[j].pc = "running"
  /\ JobAt(j, "failed")
  /\ OnlyJob(j)

\* The executor brought a manifest.  getAttempt: was a cancellation asked for
\* in the meantime?
ReadBack(j) ==
  /\ job[j].pc = "running"
  /\ JobAt(j, IF Record(job[j].owner).state = "cancel_requested"
                THEN "failed" ELSE "accepting")
  /\ OnlyJob(j)

\* The run ended without a result; a refused reconciliation is only logged.
ReconcileJob(j) ==
  /\ job[j].pc = "failed"
  /\ \/ ReconcileReleased(job[j].owner[1], job[j].owner[2], "stopped")
     \/ UNCHANGED vars
  /\ JobAt(j, "done")
  /\ UNCHANGED <<call, instances, signed, wakes, resume, crashes, starts>>

\* results.accept with the manifest; a refusal is only logged.
AcceptJob(j) ==
  /\ job[j].pc = "accepting"
  /\ \/ ImportResult(job[j].owner[1], job[j].owner[2])
     \/ UNCHANGED <<vars, signed, wakes>>
  /\ JobAt(j, "done")
  /\ UNCHANGED <<call, instances, resume, crashes, starts>>

\* The process dies, or the handler throws: no compatible host is installed,
\* or a service cannot be reached.
CrashJob(j) ==
  /\ job[j].pc \in {"claimed", "ready", "running", "failed", "accepting"}
  /\ JobAt(j, "queued")
  /\ OnlyJob(j)

JobProgress(j) ==
  \/ ClaimJob(j) \/ CheckJob(j) \/ StartExecutor(j)
  \/ ExecutorFails(j) \/ ReadBack(j) \/ ReconcileJob(j) \/ AcceptJob(j)

JobStep(j) == JobProgress(j) \/ PackageFails(j) \/ CrashJob(j)

-----------------------------------------------------------------------------
(* resume-attempt, the worker that tells the workflow.                     *)

OnlyResume(h) == UNCHANGED <<vars, call, job, instances, signed, wakes,
                             crashes, starts>>

TakeWake(h, id) ==
  /\ resume[h].pc = "idle" /\ id \in wakes
  /\ wakes' = wakes \ {id}
  /\ resume' = [resume EXCEPT ![h] =
                  [IdleResume EXCEPT !.pc = "check", !.owner = id, !.tries = 1]]
  /\ UNCHANGED <<vars, call, job, instances, signed, crashes, starts>>

\* Act for the user who recorded the result, ask the board, then find the
\* paused instances with the correlation key.  Without such a user nothing is
\* done; a refusal throws, and a retry of the job adds nothing to a scan.
CheckWake(h) ==
  LET id == resume[h].owner IN
  /\ resume[h].pc = "check"
  /\ resume' = [resume EXCEPT ![h] =
       IF id \in signed /\ ResumeReady(id)
         THEN [@ EXCEPT !.pc = "signal",
                        !.found = {i \in InstancesOf(id) : Parked(i)}]
         ELSE IdleResume]
  /\ OnlyResume(h)

\* sendSignal to one of the instances found; one that is paused no more is
\* refused.
CheckSignal(h, i) ==
  /\ resume[h].pc = "signal" /\ i \in resume[h].found
  /\ resume' = [resume EXCEPT ![h] =
       IF Parked(i) THEN [@ EXCEPT !.pc = "flush", !.target = i]
                    ELSE [@ EXCEPT !.found = resume[h].found \ {i}]]
  /\ OnlyResume(h)

\* The instance is flushed as running, whatever became of it since the check;
\* one that has been moved on stays where it is.
FlushSignal(h) ==
  LET i == resume[h].target IN
  /\ resume[h].pc = "flush"
  /\ MoveInstance(i, IF instances[i].at = "end" THEN "end" ELSE "leaving")
  /\ resume' = [resume EXCEPT ![h].pc = "advance"]
  /\ UNCHANGED <<vars, call, job, signed, wakes, crashes, starts>>

SignalDone(h, hit) ==
  resume' = [resume EXCEPT ![h] =
    [@ EXCEPT !.pc = "signal", !.found = resume[h].found \ {resume[h].target},
              !.target = 0, !.hit = resume[h].hit \/ hit]]

\* The transition and the run after it, or a failure of either: when only the
\* run fails, the instance has moved on and yet the signal does not count.
FinishSignal(h) ==
  /\ resume[h].pc = "advance"
  /\ \/ /\ MoveInstance(resume[h].target, "end")
        /\ \E hit \in BOOLEAN : SignalDone(h, hit)
     \/ SignalDone(h, FALSE) /\ UNCHANGED instances
  /\ UNCHANGED <<vars, call, job, signed, wakes, crashes, starts>>

\* All instances are dealt with: done, another try, or a look at why nobody
\* listened.
EndSignal(h) ==
  /\ resume[h].pc = "signal" /\ resume[h].found = {}
  /\ resume' = [resume EXCEPT ![h] =
       IF @.hit THEN [@ EXCEPT !.pc = "mark"]
       ELSE IF @.tries < SignalTries
         THEN [@ EXCEPT !.pc = "check", !.tries = resume[h].tries + 1]
         ELSE [@ EXCEPT !.pc = "look"]]
  /\ OnlyResume(h)

\* workflowLeftEvidenceWait looks at some instance with the key; when it has
\* not left, only the error is recorded and the delivery stays pending.
LookAtWorkflow(h) ==
  LET mine == InstancesOf(resume[h].owner) IN
  /\ resume[h].pc = "look"
  /\ \/ /\ \E i \in mine : LeftWait(i)
        /\ resume' = [resume EXCEPT ![h].pc = "mark"]
     \/ /\ mine = {} \/ \E i \in mine : ~LeftWait(i)
        /\ resume' = [resume EXCEPT ![h] = IdleResume]
  /\ OnlyResume(h)

MarkWake(h) ==
  LET id == resume[h].owner IN
  /\ resume[h].pc = "mark"
  /\ \/ MarkDelivered(id[1], id[2])
     \/ /\ ~(Live(id[1]) /\ Record(id).delivery = "pending")
        /\ UNCHANGED vars
  /\ resume' = [resume EXCEPT ![h] = IdleResume]
  /\ UNCHANGED <<call, job, instances, signed, wakes, crashes, starts>>

\* The process dies and the queue delivers the job again.
CrashResume(h) ==
  /\ resume[h].pc # "idle" /\ crashes < MaxCrashes
  /\ wakes' = wakes \cup {resume[h].owner}
  /\ resume' = [resume EXCEPT ![h] = IdleResume]
  /\ crashes' = crashes + 1
  /\ UNCHANGED <<vars, call, job, instances, signed, starts>>

ResumeProgress(h) ==
  \/ \E id \in AttemptIds : TakeWake(h, id)
  \/ CheckWake(h)
  \/ \E i \in DOMAIN instances : CheckSignal(h, i)
  \/ FlushSignal(h) \/ FinishSignal(h)
  \/ EndSignal(h) \/ LookAtWorkflow(h) \/ MarkWake(h)

ResumeStep(h) == ResumeProgress(h) \/ CrashResume(h)

-----------------------------------------------------------------------------
(* The scheduled scans.                                                    *)

\* pending-delivery-scan
ScanPending ==
  /\ wakes' = wakes \cup ListedDeliveries
  /\ UNCHANGED <<vars, call, job, instances, signed, resume, crashes, starts>>

\* uncertain-start-reconciliation, of an attempt claimed long ago; an error
\* of the command is only logged.
ScanStuck(t, a) ==
  /\ attempts[t][a].state = "claimed"
  /\ IF ActorAccepted(ScanActor)
       THEN ReconcileUnknown(t, a)
       ELSE UNCHANGED vars
  /\ UNCHANGED execVars

-----------------------------------------------------------------------------
ExecNext ==
  \/ Operate
  \/ \E t \in Tasks : \E a \in DOMAIN attempts[t] :
       BringResult(t, a) \/ RepeatResult(t, a) \/ ScanStuck(t, a)
  \/ \E c \in Callers : BridgeStep(c)
  \/ \E j \in Jobs : JobStep(j)
  \/ \E h \in Resumers : ResumeStep(h)
  \/ ScanPending

ExecSpec == ExecInit /\ [][ExecNext]_allVars

\* The queue runs its handlers, passing over none of its jobs for good, and
\* the scheduler its scans; nobody is obliged to call the bridge, to operate
\* the board, or not to crash.
Fairness ==
  /\ \A j \in Jobs : WF_allVars(JobProgress(j))
  /\ \A h \in Resumers : WF_allVars(ResumeProgress(h))
  /\ \A id \in AttemptIds : SF_allVars(\E h \in Resumers : TakeWake(h, id))
  /\ WF_allVars(ScanPending)
  /\ \A t \in Tasks : \A a \in 1..MaxAttempts :
       WF_allVars(a \in DOMAIN attempts[t] /\ ScanStuck(t, a))

FairExecSpec == ExecSpec /\ Fairness
-----------------------------------------------------------------------------
(* The handover as HandoverPromise has it.                                 *)

\* The stage s, when it is reached.
Stage(s, is) == IF is THEN {s} ELSE {}

\* What the row of an attempt says of its handover.
Marks(rec) ==
  UNION {Stage("linked", rec.workflow # None), Stage("dispatched", rec.dispatched),
         Stage("claimed", rec.worker # None), Stage("answered", rec.result),
         Stage("delivered", rec.delivery = "delivered")}

Reached(id) ==
  LET places == {instances[i].at : i \in InstancesOf(id)} IN
  UNION {IF id[2] \in DOMAIN attempts[id[1]] THEN Marks(Record(id)) ELSE {},
         Stage("queued", \E j \in Jobs : job[j].pc # "unused" /\ job[j].owner = id),
         Stage("started", starts[id] > 0),
         Stage("parked", places \ {"start"} # {}), Stage("told", "end" \in places)}

Handover == INSTANCE HandoverPromise WITH
  Attempts <- AttemptIds, reached <- [id \in AttemptIds |-> Reached(id)]

\* However requests are repeated, jobs and handlers race and processes die,
\* every attempt goes through its handover in the promised order and never
\* back: no job before its workflow waits, no dispatch mark and no claim
\* without a job, no start without a claim, no tick without a workflow that
\* was told, and no preparations for an attempt that has its result.
KeepsHandover == Handover!Spec

-----------------------------------------------------------------------------
(***************************************************************************)
(* Properties.                                                             *)
(***************************************************************************)

\* The variables of the executor hold values of their domains.
ExecTypeOK ==
  /\ call \in [Callers -> Call]
  /\ job \in [Jobs -> Job]
  /\ instances \in Seq(Instance) /\ Len(instances) <= MaxInstances
  /\ signed \subseteq AttemptIds /\ wakes \subseteq AttemptIds
  /\ resume \in [Resumers -> Resume]
  /\ crashes \in 0..MaxCrashes
  /\ starts \in [AttemptIds -> Nat]

\* An attempt never starts the executor twice, however often requests are
\* repeated, jobs are queued or delivered again, and wherever a worker dies.
\* The conditional claim of execute-task.ts is all there is to ensure it.
StartsOnce == \A id \in AttemptIds : starts[id] <= 1

\* A job is queued only for an attempt that is linked to a workflow which has
\* parked, or it would bring a result nobody waits for.  About the order of
\* the steps in startExecution, which a crash may cut and a retry resumes.
QueuedWorkIsAwaited ==
  \A j \in Jobs : job[j].pc # "unused" =>
    /\ Record(job[j].owner).workflow # None
    /\ \E i \in InstancesOf(job[j].owner) : instances[i].at # "start"

\* An attempt is marked as dispatched only when a job for it was queued; a
\* crash between the two leaves the mark out, never the job.
DispatchedMeansQueued ==
  \A id \in AttemptIds : id[2] \in DOMAIN attempts[id[1]] =>
    (Record(id).dispatched => \E j \in Jobs : job[j].owner = id)

\* A delivery is ticked off only when a workflow of the attempt really went
\* past its wait step, also when workers race or die around the signal.
DeliveredMeansResumed ==
  \A id \in AttemptIds : id[2] \in DOMAIN attempts[id[1]] =>
    (Record(id).delivery = "delivered" =>
       \E i \in InstancesOf(id) : instances[i].at = "end")

\* A signal that broke off after its first write: the instance neither waits
\* nor moves on, and no handler is at work on it.
Broken(i) ==
  /\ instances[i].at = "leaving"
  /\ \A h \in Resumers : resume[h].target # i

\* The project lets the delivery go on and the scan gets as far as its row.
Deliverable(id) ==
  FlowAllows(id) /\ (id \in PendingDeliveries => id \in ListedDeliveries)

\* When a result that a user recorded is there and its workflow waits, the
\* workflow is told and the delivery ticked off in the end, unless the task is
\* archived first or a signal breaks off half way: lost announcements, racing
\* handlers and crashes before or after the signal are made up for.  Only for
\* a delivery that from some time on the project allows (its stage gate is
\* open, its baseline the active one and no other attempt open) and the scan
\* lists: otherwise each resume job may come at the wrong time, or none come.
WaitingWorkflowIsTold ==
  \A id \in AttemptIds :
    <>[]Deliverable(id) =>
      ((/\ id \in PendingDeliveries \cap signed
        /\ \E i \in InstancesOf(id) : Parked(i)) ~>
         (\/ id \notin PendingDeliveries \/ ~Live(id[1])
          \/ \E i \in InstancesOf(id) : Broken(i)))

\* What the acceptance criteria of the completion plan say: no delivery stays
\* pending for good.
NothingStaysPending ==
  \A id \in AttemptIds :
    id \in PendingDeliveries ~> (id \notin PendingDeliveries \/ ~Live(id[1]))

\* What the schedule of the reconciliation says: an attempt whose worker died
\* after the claim does not stay claimed.
Stuck(id) ==
  /\ id[2] \in DOMAIN attempts[id[1]] /\ Record(id).state = "claimed"
  /\ \A j \in Jobs : job[j].owner = id => job[j].pc = "done"

StuckIsReconciled == \A id \in AttemptIds : Stuck(id) ~> ~Stuck(id)
=============================================================================
