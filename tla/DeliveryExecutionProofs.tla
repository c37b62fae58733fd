----------------------- MODULE DeliveryExecutionProofs -----------------------
(***************************************************************************)
(* Theorems about automatic execution, for every number of callers, jobs   *)
(* and resume handlers: it is a way of using the task board, so what is    *)
(* proved of the board holds of it, and it starts the executor at most     *)
(* once per attempt.                                                       *)
(***************************************************************************)
EXTENDS DeliveryExecution, DeliveryTasksProofs

-----------------------------------------------------------------------------
(* What every command does to the register of a task.                      *)

\* The attempts stay where they are, and once an attempt is reserved no more
\* it is never reserved again and keeps its worker.
KeepsRecords(t) ==
  /\ DOMAIN attempts[t] \subseteq DOMAIN attempts'[t]
  /\ \A a \in DOMAIN attempts[t] : attempts[t][a].state # "reserved" =>
       /\ attempts'[t][a].state # "reserved"
       /\ attempts'[t][a].worker = attempts[t][a].worker
  /\ Len(attempts[t]) <= MaxAttempts => Len(attempts'[t]) <= MaxAttempts

LEMMA SameRegister ==
  ASSUME NEW t \in Tasks, attempts' = attempts
  PROVE  KeepsRecords(t)
BY DEF KeepsRecords

LEMMA ReserveKeepsRecords ==
  ASSUME TypeInv, NEW t \in Tasks, NEW k \in Keys, Reserve(t, k), NEW u \in Tasks
  PROVE  KeepsRecords(u)
<1>1. attempts \in [Tasks -> Seq(Attempt)]
  BY DEF TypeInv, TypeOK
<1>2. CASE u = t
  <2> DEFINE s == attempts[t]  x == NewAttempt(k)
  <2>1. s \in Seq(Attempt) /\ attempts'[t] = Append(s, x) /\ Len(s) < MaxAttempts
    BY <1>1 DEF Reserve
  <2> HIDE DEF s, x
  <2>2. /\ Len(Append(s, x)) = Len(s) + 1 /\ Len(s) \in Nat
        /\ DOMAIN s = 1..Len(s) /\ DOMAIN Append(s, x) = 1..(Len(s) + 1)
        /\ \A a \in 1..Len(s) : Append(s, x)[a] = s[a]
    BY <2>1
  <2>3. /\ DOMAIN s \subseteq DOMAIN Append(s, x)
        /\ Len(Append(s, x)) <= MaxAttempts
    BY <2>1, <2>2, ConstantsAssumption
  <2> QED
    BY <1>2, <2>1, <2>2, <2>3 DEF KeepsRecords, s
<1>3. CASE u # t
  BY <1>1, <1>3 DEF Reserve, KeepsRecords
<1> QED
  BY <1>2, <1>3

\* An attempt is written over by one that is not reserved again.
LEMMA SetAttemptKeepsRecords ==
  ASSUME TypeInv, NEW t \in Tasks, NEW a \in DOMAIN attempts[t],
         NEW new \in Attempt, SetAttempt(t, a, new),
         attempts[t][a].state # "reserved" =>
           new.state # "reserved" /\ new.worker = attempts[t][a].worker,
         NEW u \in Tasks
  PROVE  KeepsRecords(u)
<1>1. attempts \in [Tasks -> Seq(Attempt)]
  BY DEF TypeInv, TypeOK
<1>2. CASE u = t
  <2>1. attempts[t] \in Seq(Attempt) /\ attempts'[t] = [attempts[t] EXCEPT ![a] = new]
    BY <1>1 DEF SetAttempt
  <2>2. /\ DOMAIN attempts'[t] = DOMAIN attempts[t]
        /\ Len(attempts'[t]) = Len(attempts[t])
    BY <2>1, ReplaceInRegister
  <2> QED
    BY <1>2, <2>1, <2>2 DEF KeepsRecords
<1>3. CASE u # t
  BY <1>1, <1>3 DEF SetAttempt, KeepsRecords
<1> QED
  BY <1>2, <1>3

LEMMA AttemptStepKeepsRecords ==
  ASSUME TypeInv, NEW t \in Tasks, NEW a \in DOMAIN attempts[t],
         AttemptStep(t, a), NEW u \in Tasks
  PROVE  KeepsRecords(u)
<1> DEFINE rec == attempts[t][a]
<1>0. rec \in Attempt
  BY DEF TypeInv, TypeOK
<1>a. ASSUME NEW new \in Attempt, SetAttempt(t, a, new),
             rec.state # "reserved" =>
               new.state # "reserved" /\ new.worker = rec.worker
      PROVE  KeepsRecords(u)
  BY <1>a, SetAttemptKeepsRecords
<1>1. ASSUME NEW w \in Workers, Claim(t, a, w)
      PROVE  KeepsRecords(u)
  BY <1>0, <1>1, <1>a, AttemptTypes DEF Claim
<1>2. ASSUME NEW f \in Workflows, NEW sent \in BOOLEAN, LinkWorkflow(t, a, f, sent)
      PROVE  KeepsRecords(u)
  <2> DEFINE new == [rec EXCEPT !.workflow = f, !.dispatched = @ \/ sent]
  <2>1. new \in Attempt /\ SetAttempt(t, a, new)
    BY <1>0, <1>2, AttemptTypes DEF LinkWorkflow
  <2>2. new.state = rec.state /\ new.worker = rec.worker
    BY <1>0 DEF Attempt
  <2> QED
    BY <1>a, <2>1, <2>2
<1>3. ASSUME MarkDelivered(t, a)
      PROVE  KeepsRecords(u)
  <2> DEFINE new == [rec EXCEPT !.delivery = "delivered"]
  <2>1. new \in Attempt /\ SetAttempt(t, a, new)
    BY <1>0, <1>3, AttemptTypes DEF MarkDelivered
  <2>2. new.state = rec.state /\ new.worker = rec.worker
    BY <1>0 DEF Attempt
  <2> QED
    BY <1>a, <2>1, <2>2
<1>4. ASSUME Cancel(t, a)
      PROVE  KeepsRecords(u)
  <2> DEFINE new == [rec EXCEPT !.state = "cancel_requested", !.cancelAsked = TRUE]
  <2>1. new \in Attempt /\ SetAttempt(t, a, new)
    BY <1>0, <1>4, AttemptTypes DEF Cancel
  <2>2. new.state # "reserved" /\ new.worker = rec.worker
    BY <1>0 DEF Attempt
  <2> QED
    BY <1>a, <2>1, <2>2
<1>5. ASSUME NEW res \in {"not_started", "stopped"}, ReconcileReleased(t, a, res)
      PROVE  KeepsRecords(u)
  <2> DEFINE new == [rec EXCEPT !.state = "closed", !.resolution = res,
                       !.outcome = IF rec.cancelAsked THEN "cancelled" ELSE res]
  <2>1. new \in Attempt /\ SetAttempt(t, a, new)
    BY <1>0, <1>5, AttemptTypes DEF ReconcileReleased
  <2>2. new.state # "reserved" /\ new.worker = rec.worker
    BY <1>0 DEF Attempt
  <2> QED
    BY <1>a, <2>1, <2>2
<1>6. ASSUME ReconcileUnknown(t, a)
      PROVE  KeepsRecords(u)
  <2> DEFINE new == [rec EXCEPT !.state = "reconciliation_required",
                                !.resolution = "unknown"]
  <2>1. new \in Attempt /\ SetAttempt(t, a, new)
    BY <1>0, <1>6, AttemptTypes DEF ReconcileUnknown
  <2>2. new.state # "reserved" /\ new.worker = rec.worker
    BY <1>0 DEF Attempt
  <2> QED
    BY <1>a, <2>1, <2>2
<1>7. ASSUME NEW old \in Attempt, old.worker = rec.worker,
             SetAttempt(t, a, WithResult(old))
      PROVE  KeepsRecords(u)
  <2>1. WithResult(old) \in Attempt
    BY AttemptTypes
  <2>2. WithResult(old).state # "reserved" /\ WithResult(old).worker = rec.worker
    BY <1>7 DEF WithResult, Attempt
  <2> QED
    BY <1>7, <1>a, <2>1, <2>2
<1>8. ASSUME NEW r \in Revisions, NEW o \in Reports, AcceptResult(t, a, r, o)
      PROVE  KeepsRecords(u)
  BY <1>0, <1>7, <1>8 DEF AcceptResult, StoreResult
<1>9. ASSUME NEW r \in Revisions, NEW o \in Reports, ReconcileCompleted(t, a, r, o)
      PROVE  KeepsRecords(u)
  <2> DEFINE old == [rec EXCEPT !.resolution = "completed"]
  <2>1. old \in Attempt /\ SetAttempt(t, a, WithResult(old))
    BY <1>0, <1>9, AttemptTypes DEF ReconcileCompleted, StoreResult
  <2>2. old.worker = rec.worker
    BY <1>0 DEF Attempt
  <2> QED
    BY <1>7, <2>1, <2>2
<1>10. CASE InternalStep(t, a)
  BY <1>1, <1>2, <1>3, <1>10 DEF InternalStep
<1>11. CASE OperatorStep(t, a)
  BY <1>4, <1>5, <1>6, <1>11 DEF OperatorStep
<1>12. CASE ResultStep(t, a)
  BY <1>8, <1>9, <1>12 DEF ResultStep
<1> QED
  BY <1>10, <1>11, <1>12 DEF AttemptStep

LEMMA BoardKeepsRecords ==
  ASSUME TypeInv, [Next]_vars, NEW u \in Tasks
  PROVE  KeepsRecords(u)
<1>1. ASSUME NEW t \in Tasks, TaskStep(t)
      PROVE  KeepsRecords(u)
  <2>1. CASE PlanStep(t)
    BY <2>1, SameRegister DEF PlanStep, CreateTask, EditDependencies, SetStatus, DeleteTask
  <2>2. CASE \E k \in Keys : Reserve(t, k)
    BY <2>2, ReserveKeepsRecords
  <2> QED
    BY <1>1, <2>1, <2>2 DEF TaskStep
<1>2. ASSUME NEW t \in Tasks, ReviewStep(t)
      PROVE  KeepsRecords(u)
  BY <1>2, SameRegister DEF ReviewStep, ReviewManualCheck, RequestChanges, Approve
<1>3. CASE ProjectStep
  BY <1>3, SameRegister DEF ProjectStep, RecordTest, DecideBaseline, DecideStage, SetLimit
<1>4. CASE UNCHANGED vars
  BY <1>4, SameRegister DEF vars
<1>5. CASE Next
  BY <1>1, <1>2, <1>3, <1>5, AttemptStepKeepsRecords DEF Next
<1> QED
  BY <1>4, <1>5
-----------------------------------------------------------------------------
(* The inductive invariant.  StartsOnce alone is not inductive: a job may  *)
(* start the executor because it claimed the attempt, a claim is possible  *)
(* only while the attempt is reserved, and the executor has not run then.  *)

Registered(id) == id[2] \in DOMAIN attempts[id[1]]

\* Whoever is at work has an attempt of the register to work on.
CallsOK ==
  /\ call \in [Callers -> Call]
  /\ \A c \in Callers : call[c].pc # "idle" =>
       call[c].owner \in AttemptIds /\ Registered(call[c].owner)

JobsOK ==
  /\ job \in [Jobs -> Job]
  /\ \A j \in Jobs : job[j].pc # "unused" =>
       job[j].owner \in AttemptIds /\ Registered(job[j].owner)

ResumesOK ==
  /\ resume \in [Resumers -> Resume]
  /\ \A h \in Resumers : resume[h].pc # "idle" =>
       resume[h].owner \in AttemptIds /\ Registered(resume[h].owner)

WakesOK == \A id \in wakes : id \in AttemptIds /\ Registered(id)

InstancesOK == instances \in Seq(Instance) /\ Len(instances) <= MaxInstances

CountersOK == crashes \in 0..MaxCrashes /\ starts \in [AttemptIds -> Nat]

ActorsInv ==
  CallsOK /\ JobsOK /\ ResumesOK /\ WakesOK /\ InstancesOK /\ CountersOK

\* Nothing was started for an attempt that may still be claimed.
UnclaimedNotStarted ==
  \A id \in AttemptIds :
    (Registered(id) => Record(id).state = "reserved") => starts[id] = 0

\* A job past its claim holds the attempt; until it has started the executor,
\* nobody has.
ClaimsHold ==
  \A j \in Jobs :
    /\ job[j].pc \in {"claimed", "ready", "running", "failed", "accepting"} =>
         /\ Record(job[j].owner).state # "reserved"
         /\ Record(job[j].owner).worker = j
    /\ job[j].pc \in {"claimed", "ready"} => starts[job[j].owner] = 0

BoardTyped == TypeInv /\ \A t \in Tasks : Len(attempts[t]) <= MaxAttempts

StartInv == UnclaimedNotStarted /\ ClaimsHold /\ StartsOnce

ExecInv == BoardTyped /\ ActorsInv /\ StartInv

\* The registered attempts have names.
LEMMA NamesOfAttempts ==
  ASSUME BoardTyped, NEW t \in Tasks, NEW a \in DOMAIN attempts[t]
  PROVE  <<t, a>> \in AttemptIds /\ Registered(<<t, a>>)
<1>1. attempts[t] \in Seq(Attempt) /\ Len(attempts[t]) <= MaxAttempts
  BY DEF BoardTyped, TypeInv, TypeOK
<1>2. a \in 1..MaxAttempts
  BY <1>1, ConstantsAssumption
<1> QED
  BY <1>2 DEF AttemptIds, Registered

\* A step of the board, as seen from the executor.
LEMMA BoardStep ==
  ASSUME BoardTyped, [Next]_vars
  PROVE  /\ BoardTyped'
         /\ \A id \in AttemptIds : Registered(id) =>
              /\ Registered(id)'
              /\ Record(id).state # "reserved" =>
                   /\ Record(id)'.state # "reserved"
                   /\ Record(id)'.worker = Record(id).worker
<1>1. TypeInv'
  BY TypesStay DEF BoardTyped
<1>2. \A t \in Tasks : KeepsRecords(t)
  BY BoardKeepsRecords DEF BoardTyped
<1>3. BoardTyped'
  BY <1>1, <1>2 DEF BoardTyped, KeepsRecords
<1>4. ASSUME NEW id \in AttemptIds, Registered(id)
      PROVE  /\ Registered(id)'
             /\ Record(id).state # "reserved" =>
                  /\ Record(id)'.state # "reserved"
                  /\ Record(id)'.worker = Record(id).worker
  <2>1. id[1] \in Tasks /\ id[2] \in DOMAIN attempts[id[1]]
    BY <1>4 DEF AttemptIds, Registered
  <2> QED
    BY <1>2, <2>1 DEF KeepsRecords, Registered, Record
<1> QED
  BY <1>3, <1>4

\* As long as no job moves and nothing is started, the claims hold.
LEMMA ClaimsStay ==
  ASSUME BoardTyped, JobsOK, StartInv, [Next]_vars,
         UNCHANGED <<job, starts>>
  PROVE  StartInv'
<1>1. UnclaimedNotStarted'
  BY BoardStep DEF StartInv, UnclaimedNotStarted
<1>2. ClaimsHold'
  <2> SUFFICES ASSUME NEW j \in Jobs
      PROVE  /\ job[j].pc \in {"claimed", "ready", "running", "failed", "accepting"} =>
                  /\ Record(job[j].owner)'.state # "reserved"
                  /\ Record(job[j].owner)'.worker = j
             /\ job[j].pc \in {"claimed", "ready"} => starts[job[j].owner] = 0
    BY DEF ClaimsHold, Record
  <2> QED
    BY BoardStep DEF StartInv, ClaimsHold, JobsOK
<1> QED
  BY <1>1, <1>2 DEF StartInv, StartsOnce
-----------------------------------------------------------------------------
(* One lemma per kind of actor: it stays well-formed when it moves on with *)
(* its own attempt, or is idle, or takes an attempt of the register.       *)

LEMMA Unmoved ==
  ASSUME BoardTyped, [Next]_vars
  PROVE  /\ CallsOK /\ call' = call => CallsOK'
         /\ JobsOK /\ job' = job => JobsOK'
         /\ ResumesOK /\ resume' = resume => ResumesOK'
         /\ WakesOK /\ wakes' = wakes => WakesOK'
         /\ InstancesOK /\ instances' = instances => InstancesOK'
         /\ CountersOK /\ crashes' = crashes /\ starts' = starts => CountersOK'
BY BoardStep DEF CallsOK, JobsOK, ResumesOK, WakesOK, InstancesOK, CountersOK

LEMMA CallMoves ==
  ASSUME BoardTyped, CallsOK, [Next]_vars, NEW c \in Callers, NEW new \in Call,
         call' = [call EXCEPT ![c] = new],
         new.pc # "idle" => new.owner \in AttemptIds /\ Registered(new.owner)'
  PROVE  CallsOK'
BY BoardStep DEF CallsOK

LEMMA JobMoves ==
  ASSUME BoardTyped, JobsOK, [Next]_vars, NEW j \in Jobs, NEW new \in Job,
         job' = [job EXCEPT ![j] = new],
         new.pc # "unused" => new.owner \in AttemptIds /\ Registered(new.owner)'
  PROVE  JobsOK'
BY BoardStep DEF JobsOK

LEMMA ResumeMoves ==
  ASSUME BoardTyped, ResumesOK, [Next]_vars, NEW h \in Resumers, NEW new \in Resume,
         resume' = [resume EXCEPT ![h] = new],
         new.pc # "idle" => new.owner \in AttemptIds /\ Registered(new.owner)'
  PROVE  ResumesOK'
BY BoardStep DEF ResumesOK

LEMMA InstanceMoves ==
  ASSUME InstancesOK, NEW i, NEW to \in {"start", "wait", "leaving", "end"},
         MoveInstance(i, to)
  PROVE  InstancesOK'
<1>1. instances \in Seq(Instance) /\ Len(instances) <= MaxInstances
  BY DEF InstancesOK
<1>2. CASE i \in DOMAIN instances
  <2> DEFINE new == [instances[i] EXCEPT !.at = to]
  <2>0. instances[i] \in Instance
    BY <1>1, <1>2
  <2>1. new \in Instance
    BY <2>0 DEF Instance
  <2>2. instances' = [instances EXCEPT ![i] = new]
    BY DEF MoveInstance
  <2> HIDE DEF new
  <2> QED
    BY <1>1, <1>2, <2>1, <2>2, ReplaceInRegister DEF InstancesOK
<1>3. CASE i \notin DOMAIN instances
  <2>1. instances \in [1..Len(instances) -> Instance]
    BY <1>1
  <2>2. instances' = [instances EXCEPT ![i].at = to]
    BY DEF MoveInstance
  <2>3. i \notin 1..Len(instances)
    BY <1>1, <1>3
  <2>4. instances' = instances
    BY <2>1, <2>2, <2>3
  <2> QED
    BY <1>1, <2>4 DEF InstancesOK
<1> QED
  BY <1>2, <1>3
-----------------------------------------------------------------------------
(* The steps, actor by actor: each is a step of the board or leaves it     *)
(* unchanged, and keeps the actors well-formed.                            *)

LEMMA OneAttemptStep ==
  ASSUME NEW id \in AttemptIds, Registered(id), AttemptStep(id[1], id[2])
  PROVE  [Next]_vars
BY DEF AttemptIds, Registered, Next

LEMMA AnnouncedIsRegistered ==
  ASSUME BoardTyped, [Next]_vars, WakesOK, NEW t \in Tasks, NEW a \in DOMAIN attempts[t],
         Announce(t, a)
  PROVE  WakesOK'
BY NamesOfAttempts, BoardStep DEF Announce, WakesOK

\* However a result is brought, it is a step of the board that is announced.
LEMMA ResultIsImported ==
  ASSUME NEW t, NEW a, ImportResult(t, a)
  PROVE  ResultStep(t, a) /\ Announce(t, a)
BY DEF ImportResult, ResultStep

LEMMA ResultIsBrought ==
  ASSUME NEW t, NEW a, BringResult(t, a)
  PROVE  /\ ResultStep(t, a) /\ Announce(t, a)
         /\ UNCHANGED <<call, job, instances, resume, crashes, starts>>
BY ResultIsImported DEF BringResult, ResultStep

LEMMA PeopleSteps ==
  ASSUME ExecInv,
         \/ Operate
         \/ \E t \in Tasks : \E a \in DOMAIN attempts[t] :
              BringResult(t, a) \/ RepeatResult(t, a) \/ ScanStuck(t, a)
         \/ ScanPending
  PROVE  /\ [Next]_vars /\ ActorsInv'
         /\ UNCHANGED <<job, starts>>
<1>1. CASE Operate
  <2>1. [Next]_vars
    BY <1>1 DEF Operate, Next, TaskStep, AttemptStep
  <2> QED
    BY <1>1, <2>1, Unmoved DEF Operate, execVars, ExecInv, ActorsInv
<1>2. ASSUME NEW t \in Tasks, NEW a \in DOMAIN attempts[t], BringResult(t, a)
      PROVE  [Next]_vars /\ ActorsInv' /\ UNCHANGED <<job, starts>>
  <2>1. [Next]_vars
    BY <1>2, ResultIsBrought DEF Next, AttemptStep
  <2>2. WakesOK'
    BY <1>2, <2>1, ResultIsBrought, AnnouncedIsRegistered DEF ExecInv, ActorsInv
  <2> QED
    BY <1>2, <2>1, <2>2, ResultIsBrought, Unmoved DEF ExecInv, ActorsInv
<1>3. ASSUME NEW t \in Tasks, NEW a \in DOMAIN attempts[t], ScanStuck(t, a)
      PROVE  [Next]_vars /\ ActorsInv' /\ UNCHANGED <<job, starts>>
  <2>1. [Next]_vars
    BY <1>3 DEF ScanStuck, Next, AttemptStep, OperatorStep
  <2> QED
    BY <1>3, <2>1, Unmoved DEF ScanStuck, execVars, ExecInv, ActorsInv
<1>4. CASE ScanPending
  <2>1. [Next]_vars /\ UNCHANGED vars
    BY <1>4 DEF ScanPending
  <2>2. WakesOK'
    BY <1>4, <2>1 DEF ScanPending, ListedDeliveries, PendingDeliveries, WakesOK, Registered, vars,
                      ExecInv, ActorsInv
  <2> QED
    BY <1>4, <2>1, <2>2, Unmoved DEF ScanPending, ExecInv, ActorsInv
<1>5. ASSUME NEW t \in Tasks, NEW a \in DOMAIN attempts[t], RepeatResult(t, a)
      PROVE  [Next]_vars /\ ActorsInv' /\ UNCHANGED <<job, starts>>
  <2>1. [Next]_vars
    BY <1>5 DEF RepeatResult
  <2>2. WakesOK'
    BY <1>5, <2>1, AnnouncedIsRegistered DEF RepeatResult, ExecInv, ActorsInv
  <2> QED
    BY <1>5, <2>1, <2>2, Unmoved DEF RepeatResult, ExecInv, ActorsInv
<1> QED
  BY <1>1, <1>2, <1>3, <1>4, <1>5

\* A call that moves and nothing else.
LEMMA CallOnlySteps ==
  ASSUME ExecInv, NEW c \in Callers, NEW new \in Call,
         call' = [call EXCEPT ![c] = new],
         new.pc # "idle" => new.owner \in AttemptIds /\ Registered(new.owner)',
         [Next]_vars, UNCHANGED <<job, wakes, resume, crashes, starts>>, InstancesOK'
  PROVE  ActorsInv'
BY CallMoves, Unmoved DEF ExecInv, ActorsInv

LEMMA BridgeSteps ==
  ASSUME ExecInv, NEW c \in Callers, BridgeStep(c)
  PROVE  /\ [Next]_vars /\ ActorsInv'
         /\ \/ UNCHANGED <<job, starts>>
            \/ /\ UNCHANGED starts
               /\ \E j \in Jobs, id \in AttemptIds :
                    job' = [job EXCEPT ![j] = [pc |-> "queued", owner |-> id]]
<1> DEFINE Goal == /\ [Next]_vars /\ ActorsInv'
                   /\ \/ UNCHANGED <<job, starts>>
                      \/ /\ UNCHANGED starts
                         /\ \E j \in Jobs, id \in AttemptIds :
                              job' = [job EXCEPT ![j] = [pc |-> "queued", owner |-> id]]
<1>0. /\ call \in [Callers -> Call] /\ call[c] \in Call /\ IdleCall \in Call
      /\ call[c].pc # "idle" =>
           call[c].owner \in AttemptIds /\ Registered(call[c].owner)
      /\ BoardTyped /\ InstancesOK
  BY ExecutionAssumption DEF ExecInv, ActorsInv, CallsOK, Call, IdleCall
\* The call goes on, with the same attempt or with none, while the board
\* takes a step.
<1>a. ASSUME NEW new \in Call, call' = [call EXCEPT ![c] = new],
             new.pc # "idle" => call[c].pc # "idle" /\ new.owner = call[c].owner,
             [Next]_vars, UNCHANGED <<job, wakes, resume, crashes, starts>>,
             InstancesOK'
      PROVE  Goal
  BY <1>0, <1>a, BoardStep, CallOnlySteps
<1>b. ASSUME OnlyCall(c)
      PROVE  /\ [Next]_vars /\ InstancesOK'
             /\ UNCHANGED <<job, wakes, resume, crashes, starts>>
  BY <1>0, <1>b, Unmoved DEF OnlyCall
<1>1. ASSUME NEW t \in Tasks, NEW k \in BridgeKeys, CallReserve(c, t, k)
      PROVE  Goal
  <2>0. PICK id : id = <<t, Len(attempts[t]) + 1>>
    OBVIOUS
  <2> DEFINE new == [IdleCall EXCEPT !.pc = "look", !.owner = id]
  <2>1. Reserve(t, k) /\ k \in Keys
    BY <1>1, ExecutionAssumption DEF CallReserve
  <2>2. [Next]_vars
    BY <2>1 DEF Next, TaskStep
  <2>3. /\ attempts[t] \in Seq(Attempt) /\ Len(attempts[t]) < MaxAttempts
        /\ attempts'[t] = Append(attempts[t], NewAttempt(k))
    BY <1>0, <2>1 DEF Reserve, BoardTyped, TypeInv, TypeOK
  <2>4. id \in AttemptIds /\ Registered(id)'
    <3> DEFINE s == attempts[t]  x == NewAttempt(k)
    <3> HIDE DEF s, x
    <3>1. /\ s \in Seq(Attempt) /\ Len(s) < MaxAttempts
          /\ attempts'[t] = Append(s, x)
      BY <2>3 DEF s, x
    <3>2. /\ DOMAIN Append(s, x) = 1..(Len(s) + 1)
          /\ Len(s) + 1 \in 1..(Len(s) + 1)
      BY <3>1
    <3>3. Len(s) + 1 \in 1..MaxAttempts
      BY <3>1, ConstantsAssumption
    <3>4. id = <<t, Len(s) + 1>>
      BY <2>0 DEF s
    <3> QED
      BY <3>1, <3>2, <3>3, <3>4 DEF AttemptIds, Registered
  <2>5. new \in Call /\ new.owner = id
    BY <1>0, <2>4 DEF Call, IdleCall
  <2>6. /\ call' = [call EXCEPT ![c] = new]
        /\ UNCHANGED <<job, instances, wakes, resume, crashes, starts>>
    BY <1>1, <2>0 DEF CallReserve, BeginCall
  <2>7. InstancesOK'
    BY <1>0, <2>2, <2>6, Unmoved
  <2> HIDE DEF new
  <2> QED
    BY <2>2, <2>4, <2>5, <2>6, <2>7, CallOnlySteps
<1>2. ASSUME NEW t \in Tasks, NEW k \in BridgeKeys, CallReplay(c, t, k)
      PROVE  Goal
  <2>1. PICK a \in DOMAIN attempts[t] : BeginCall(c, <<t, a>>)
    BY <1>2 DEF CallReplay
  <2>0. PICK id : id = <<t, a>>
    OBVIOUS
  <2> DEFINE new == [IdleCall EXCEPT !.pc = "look", !.owner = id]
  <2>2. OnlyCall(c)
    BY <1>2 DEF CallReplay
  <2>3. id \in AttemptIds /\ Registered(id)'
    BY <1>0, <1>b, <2>0, <2>2, NamesOfAttempts, BoardStep
  <2>4. new \in Call /\ new.owner = id
    BY <1>0, <2>3 DEF Call, IdleCall
  <2>5. call' = [call EXCEPT ![c] = new]
    BY <2>0, <2>1 DEF BeginCall
  <2> HIDE DEF new
  <2> QED
    BY <1>b, <2>2, <2>3, <2>4, <2>5, CallOnlySteps
\* The call moves on to another point.
<1>c. ASSUME NEW to \in {"start", "link", "check", "execute", "confirm",
                         "enqueue", "dispatch"},
             Advance(c, to)
      PROVE  /\ [call[c] EXCEPT !.pc = to] \in Call
             /\ call' = [call EXCEPT ![c] = [call[c] EXCEPT !.pc = to]]
             /\ [call[c] EXCEPT !.pc = to].owner = call[c].owner
  BY <1>0, <1>c DEF Advance, Call
<1>3. CASE LookForInstance(c)
  <2>1. OnlyCall(c) /\ call[c].pc # "idle"
    BY <1>3 DEF LookForInstance
  <2>2. CASE Advance(c, "start")
    BY <1>a, <1>b, <1>c, <2>1, <2>2
  <2>3. ASSUME NEW i \in InstancesOf(call[c].owner),
               call' = [call EXCEPT ![c].pc = "link", ![c].instance = i,
                                    ![c].parked = Parked(i)]
        PROVE  Goal
    <3> DEFINE new == [call[c] EXCEPT !.pc = "link", !.instance = i,
                                      !.parked = Parked(i)]
    <3>1. i \in 0..MaxInstances
      BY <1>0, <2>3, ExecutionAssumption DEF InstancesOf, InstancesOK
    <3>2. Parked(i) \in BOOLEAN
      BY DEF Parked
    <3>3. new \in Call /\ new.owner = call[c].owner
      <4> HIDE DEF Parked
      <4> QED
        BY <1>0, <3>1, <3>2 DEF Call
    <3>4. call' = [call EXCEPT ![c] = new]
      BY <1>0, <2>3
    <3> HIDE DEF new
    <3> QED
      BY <1>a, <1>b, <2>1, <3>3, <3>4
  <2> QED
    BY <1>3, <2>2, <2>3 DEF LookForInstance
<1>4. CASE StartWorkflow(c)
  <2> DEFINE new == [call[c] EXCEPT !.pc = "link", !.instance = Len(instances) + 1]
             x == [owner |-> call[c].owner, at |-> "start"]
  <2>1. /\ call[c].pc # "idle" /\ Len(instances) < MaxInstances
        /\ instances' = Append(instances, x)
        /\ [Next]_vars /\ UNCHANGED <<job, wakes, resume, crashes, starts>>
    BY <1>4 DEF StartWorkflow
  <2>2. x \in Instance
    BY <1>0, <2>1 DEF Instance
  <2>3. InstancesOK' /\ Len(instances) + 1 \in 0..MaxInstances
    <3> HIDE DEF x
    <3> QED
      BY <1>0, <2>1, <2>2, ExecutionAssumption DEF InstancesOK
  <2>4. new \in Call /\ new.owner = call[c].owner
    BY <1>0, <2>3 DEF Call
  <2>5. call' = [call EXCEPT ![c] = new]
    BY <1>0, <1>4 DEF StartWorkflow
  <2> HIDE DEF new, x
  <2> QED
    BY <1>a, <2>1, <2>3, <2>4, <2>5
\* A command of the bridge on its attempt.
<1>d. ASSUME NEW sent \in BOOLEAN, call[c].pc # "idle",
             LinkWorkflow(call[c].owner[1], call[c].owner[2], OwnRef, sent)
      PROVE  [Next]_vars
  <2>1. OwnRef \in Workflows
    BY ExecutionAssumption DEF OwnRef
  <2> QED
    BY <1>0, <1>d, <2>1, OneAttemptStep DEF AttemptStep, InternalStep
<1>5. CASE Link(c)
  <2> DEFINE new == [call[c] EXCEPT !.pc = IF call[c].parked THEN "confirm" ELSE "check",
                                    !.parked = FALSE]
  <2>1. [Next]_vars
    BY <1>5, <1>d DEF Link
  <2>2. new \in Call /\ new.owner = call[c].owner
    BY <1>0 DEF Call
  <2>3. call' = [call EXCEPT ![c] = new]
    BY <1>0, <1>5 DEF Link
  <2>4. /\ call[c].pc # "idle" /\ InstancesOK'
        /\ UNCHANGED <<job, wakes, resume, crashes, starts>>
    BY <1>0, <1>5, <2>1, Unmoved DEF Link
  <2> HIDE DEF new
  <2> QED
    BY <1>a, <2>1, <2>2, <2>3, <2>4
<1>6. CASE CheckBeforeExecute(c)
  BY <1>a, <1>b, <1>c, <1>6 DEF CheckBeforeExecute
<1>7. CASE ExecuteWorkflow(c)
  <2>1. InstancesOK'
    BY <1>0, <1>7, InstanceMoves, Unmoved DEF ExecuteWorkflow
  <2> QED
    BY <1>a, <1>c, <1>7, <2>1 DEF ExecuteWorkflow
<1>8. CASE ConfirmParked(c)
  <2> DEFINE new == [call[c] EXCEPT !.pc = "enqueue", !.instance = 0]
  <2>0. 0 \in 0..MaxInstances
    BY ExecutionAssumption
  <2>1. new \in Call /\ new.owner = call[c].owner
    BY <1>0, <2>0 DEF Call
  <2>2. call' = [call EXCEPT ![c] = new]
    BY <1>0, <1>8 DEF ConfirmParked, AfterConfirm
  <2> HIDE DEF new
  <2> QED
    BY <1>a, <1>b, <1>8, <2>1, <2>2 DEF ConfirmParked
<1>9. ASSUME NEW j \in Jobs, Enqueue(c, j)
      PROVE  Goal
  <2>0. PICK id : id = call[c].owner
    OBVIOUS
  <2> DEFINE new == [pc |-> "queued", owner |-> id]
             next == [call[c] EXCEPT !.pc = "dispatch"]
  <2>1. /\ call[c].pc # "idle" /\ [Next]_vars
        /\ job' = [job EXCEPT ![j] = new]
        /\ UNCHANGED <<instances, wakes, resume, crashes, starts>>
    BY <1>9, <2>0 DEF Enqueue
  <2>2. new \in Job /\ new.owner = id
    BY <1>0, <2>0, <2>1 DEF Job
  <2>3. next \in Call /\ next.owner = call[c].owner
        /\ call' = [call EXCEPT ![c] = next]
    BY <1>c, <1>9 DEF Enqueue
  <2>4. id \in AttemptIds /\ Registered(id)'
    BY <1>0, <2>0, <2>1, BoardStep
  <2>5. \E i \in Jobs, n \in AttemptIds :
          job' = [job EXCEPT ![i] = [pc |-> "queued", owner |-> n]]
    BY <2>1, <2>4
  <2> HIDE DEF new, next
  <2>6. JobsOK'
    BY <1>0, <2>1, <2>2, <2>4, JobMoves DEF ExecInv, ActorsInv
  <2>7. CallsOK'
    BY <1>0, <2>0, <2>1, <2>3, <2>4, CallMoves DEF ExecInv, ActorsInv
  <2>8. ActorsInv'
    BY <1>0, <2>1, <2>6, <2>7, Unmoved DEF ExecInv, ActorsInv
  <2> QED
    BY <2>1, <2>5, <2>8
<1>10. CASE Dispatch(c)
  <2>1. [Next]_vars
    BY <1>10, <1>d DEF Dispatch
  <2>2. /\ call' = [call EXCEPT ![c] = IdleCall] /\ InstancesOK'
        /\ UNCHANGED <<job, wakes, resume, crashes, starts>>
    BY <1>0, <1>10, <2>1, Unmoved DEF Dispatch
  <2> QED
    BY <1>0, <2>1, <2>2, CallOnlySteps DEF IdleCall
<1>11. CASE AbortCall(c)
  <2>1. call' = [call EXCEPT ![c] = IdleCall] /\ OnlyCall(c)
    BY <1>11 DEF AbortCall
  <2> QED
    BY <1>0, <1>b, <2>1, CallOnlySteps DEF IdleCall, OnlyCall
<1> QED
  BY <1>1, <1>2, <1>3, <1>4, <1>5, <1>6, <1>7, <1>8, <1>9, <1>10, <1>11
     DEF BridgeStep

\* A job moves on with its own attempt, or stays put in the board.
LEMMA JobOnlySteps ==
  ASSUME ExecInv, NEW j \in Jobs,
         NEW to \in {"queued", "claimed", "ready", "running", "failed",
                     "accepting", "done"},
         job[j].pc # "unused", JobAt(j, to),
         [Next]_vars, UNCHANGED <<call, instances, resume, crashes>>,
         WakesOK', starts' \in [AttemptIds -> Nat]
  PROVE  ActorsInv'
<1> DEFINE new == [job[j] EXCEPT !.pc = to]
<1>1. job[j] \in Job /\ job \in [Jobs -> Job] /\ BoardTyped
  BY DEF ExecInv, ActorsInv, JobsOK
<1>2. new \in Job /\ new.owner = job[j].owner /\ job' = [job EXCEPT ![j] = new]
  BY <1>1 DEF Job, JobAt
<1>3. PICK id : id = job[j].owner
  OBVIOUS
<1>4. id \in AttemptIds /\ Registered(id)'
  BY <1>1, <1>3, BoardStep DEF ExecInv, ActorsInv, JobsOK
<1> HIDE DEF new
<1>5. JobsOK'
  BY <1>1, <1>2, <1>3, <1>4, JobMoves DEF ExecInv, ActorsInv
<1>6. CountersOK'
  BY DEF ExecInv, ActorsInv, CountersOK
<1> QED
  BY <1>1, <1>5, <1>6, Unmoved DEF ExecInv, ActorsInv

\* The claims hold when a job moves on that has claimed already, or that has
\* no claim afterwards.
LEMMA ClaimsOfOneJob ==
  ASSUME ExecInv, NEW j \in Jobs, [Next]_vars, UNCHANGED starts,
         job' \in [Jobs -> Job],
         \A i \in Jobs : i # j => job'[i] = job[i],
         \/ job'[j].pc \notin {"claimed", "ready", "running", "failed", "accepting"}
         \/ /\ job[j].pc \in {"claimed", "ready", "running", "failed", "accepting"}
            /\ job'[j].owner = job[j].owner
            /\ job'[j].pc \in {"claimed", "ready"} => job[j].pc \in {"claimed", "ready"}
  PROVE  StartInv'
<1> DEFINE Working == {"claimed", "ready", "running", "failed", "accepting"}
<1>1. UnclaimedNotStarted'
  BY BoardStep DEF ExecInv, StartInv, UnclaimedNotStarted
<1>2. ASSUME NEW i \in Jobs, job[i].pc \in Working
      PROVE  /\ job[i].owner \in AttemptIds /\ Registered(job[i].owner)
             /\ Record(job[i].owner).state # "reserved"
             /\ Record(job[i].owner).worker = i
             /\ job[i].pc \in {"claimed", "ready"} => starts[job[i].owner] = 0
  BY <1>2 DEF ExecInv, ActorsInv, JobsOK, StartInv, ClaimsHold
<1>3. ASSUME NEW i \in Jobs, NEW id, id = job'[i].owner, job'[i].pc \in Working
      PROVE  /\ Record(id)'.state # "reserved" /\ Record(id)'.worker = i
             /\ job'[i].pc \in {"claimed", "ready"} => starts[id] = 0
  <2>1. /\ job[i].pc \in Working /\ job[i].owner = id
        /\ job'[i].pc \in {"claimed", "ready"} => job[i].pc \in {"claimed", "ready"}
    BY <1>3
  <2>2. /\ id \in AttemptIds /\ Registered(id)
        /\ Record(id).state # "reserved" /\ Record(id).worker = i
        /\ job'[i].pc \in {"claimed", "ready"} => starts[id] = 0
    BY <1>2, <2>1
  <2> QED
    BY <2>2, BoardStep DEF ExecInv
<1>4. ClaimsHold'
  BY <1>3 DEF ClaimsHold, Record
<1> QED
  BY <1>1, <1>4 DEF ExecInv, StartInv, StartsOnce

LEMMA JobSteps ==
  ASSUME ExecInv, NEW j \in Jobs, JobStep(j)
  PROVE  [Next]_vars /\ ActorsInv' /\ StartInv'
<1> DEFINE Working == {"claimed", "ready", "running", "failed", "accepting"}
<1>0. /\ BoardTyped /\ job \in [Jobs -> Job] /\ starts \in [AttemptIds -> Nat]
      /\ job[j].pc # "unused" =>
           job[j].owner \in AttemptIds /\ Registered(job[j].owner)
  BY DEF ExecInv, ActorsInv, JobsOK, CountersOK
<1>1. PICK id : id = job[j].owner
  OBVIOUS
\* The job moves on within its claim, or ends or goes back without one.
<1>a. ASSUME NEW to \in {"queued", "running", "failed", "accepting", "done",
                         "claimed", "ready"},
             job[j].pc # "unused", JobAt(j, to), [Next]_vars,
             to \in Working => job[j].pc \in Working,
             to \in {"claimed", "ready"} => job[j].pc \in {"claimed", "ready"},
             UNCHANGED <<call, instances, resume, crashes, starts>>, WakesOK'
      PROVE  ActorsInv' /\ StartInv'
  <2>1. ActorsInv'
    BY <1>0, <1>a, JobOnlySteps
  <2>2. /\ job' \in [Jobs -> Job]
        /\ \A i \in Jobs : i # j => job'[i] = job[i]
        /\ job'[j].owner = job[j].owner /\ job'[j].pc = to
    BY <1>0, <1>a, <2>1 DEF JobAt, ActorsInv, JobsOK, Job
  <2>3. StartInv'
    BY <1>a, <2>2, ClaimsOfOneJob
  <2> QED
    BY <2>1, <2>3
<1>b. ASSUME OnlyJob(j)
      PROVE  /\ [Next]_vars /\ WakesOK'
             /\ UNCHANGED <<call, instances, resume, crashes, starts>>
  BY <1>0, <1>b, Unmoved DEF OnlyJob, ExecInv, ActorsInv
<1>2. ASSUME job[j].pc = "queued", Claim(id[1], id[2], j), JobAt(j, "claimed"),
             UNCHANGED <<call, instances, wakes, resume, crashes, starts>>
      PROVE  [Next]_vars /\ ActorsInv' /\ StartInv'
  <2>1. id \in AttemptIds /\ Registered(id)
    BY <1>0, <1>1, <1>2
  <2>2. [Next]_vars
    BY <1>2, <2>1, OneAttemptStep DEF Jobs, AttemptStep, InternalStep
  <2>3. ActorsInv'
    BY <1>0, <1>2, <2>2, JobOnlySteps, Unmoved DEF ExecInv, ActorsInv
  <2>4. Record(id).state = "reserved" /\ starts[id] = 0
    BY <1>2, <2>1 DEF Claim, Record, ExecInv, StartInv, UnclaimedNotStarted
  <2>5. Record(id)'.state # "reserved" /\ Record(id)'.worker = j
    <3> DEFINE new == [Record(id) EXCEPT !.state = "claimed", !.worker = j]
    <3>1. id[1] \in Tasks /\ id[2] \in DOMAIN attempts[id[1]]
      BY <2>1 DEF AttemptIds, Registered
    <3>2. Record(id) \in Attempt /\ attempts \in [Tasks -> Seq(Attempt)]
      BY <1>0, <3>1 DEF BoardTyped, TypeInv, TypeOK, Record
    <3>3. SetAttempt(id[1], id[2], new)
      BY <1>2 DEF Claim, Record
    <3>4. new.state = "claimed" /\ new.worker = j
      BY <3>2 DEF Attempt
    <3> HIDE DEF new
    <3>5. attempts'[id[1]][id[2]] = new
      BY <3>1, <3>2, <3>3 DEF SetAttempt
    <3> QED
      BY <3>4, <3>5 DEF Record
  <2>6. /\ job'[j].owner = id
        /\ \A i \in Jobs : i # j => job'[i] = job[i]
    BY <1>0, <1>1, <1>2 DEF JobAt, Job
  <2>7. ClaimsHold'
    <3> SUFFICES ASSUME NEW i \in Jobs, NEW n, n = job'[i].owner
        PROVE  /\ job'[i].pc \in Working =>
                    Record(n)'.state # "reserved" /\ Record(n)'.worker = i
               /\ job'[i].pc \in {"claimed", "ready"} => starts[n] = 0
      BY <1>2 DEF ClaimsHold, Record
    <3>1. CASE i = j
      BY <2>4, <2>5, <2>6, <3>1
    <3>2. ASSUME i # j, job[i].pc \in Working
          PROVE  /\ Record(n)'.state # "reserved" /\ Record(n)'.worker = i
                 /\ job[i].pc \in {"claimed", "ready"} => starts[n] = 0
      <4>1. /\ n \in AttemptIds /\ Registered(n)
            /\ Record(n).state # "reserved" /\ Record(n).worker = i
            /\ job[i].pc \in {"claimed", "ready"} => starts[n] = 0
        BY <2>6, <3>2 DEF ExecInv, ActorsInv, JobsOK, StartInv, ClaimsHold
      <4> QED
        BY <1>0, <2>2, <4>1, BoardStep
    <3> QED
      BY <2>6, <3>1, <3>2
  <2>8. UnclaimedNotStarted' /\ StartsOnce'
    BY <1>0, <1>2, <2>2, BoardStep DEF ExecInv, StartInv, UnclaimedNotStarted, StartsOnce
  <2> QED
    BY <2>2, <2>3, <2>7, <2>8 DEF StartInv
<1>3. CASE ClaimJob(j)
  <2>1. CASE JobAt(j, Unclaimed(id, j)) /\ UNCHANGED vars
    <3>1. /\ [Next]_vars /\ job[j].pc = "queued" /\ JobAt(j, "done")
          /\ UNCHANGED <<call, instances, wakes, resume, crashes, starts>>
      BY <1>3, <2>1 DEF ClaimJob, Unclaimed
    <3>2. WakesOK'
      BY <1>0, <3>1, Unmoved DEF ExecInv, ActorsInv
    <3> QED
      BY <1>a, <3>1, <3>2
  <2> QED
    BY <1>1, <1>2, <1>3, <2>1 DEF ClaimJob
<1>4. CASE PackageFails(j)
  BY <1>a, <1>b, <1>4 DEF PackageFails
<1>5. CASE CheckJob(j)
  BY <1>a, <1>b, <1>5 DEF CheckJob
<1>6. CASE StartExecutor(j)
  <2>1. /\ job[j].pc = "ready" /\ JobAt(j, "running") /\ [Next]_vars
        /\ attempts' = attempts
        /\ starts' = [starts EXCEPT ![id] = @ + 1]
        /\ UNCHANGED <<call, instances, wakes, resume, crashes>>
    BY <1>1, <1>6 DEF StartExecutor, vars
  <2>2. /\ id \in AttemptIds /\ Registered(id)
        /\ Record(id).state # "reserved" /\ Record(id).worker = j /\ starts[id] = 0
    BY <1>0, <1>1, <2>1 DEF ExecInv, StartInv, ClaimsHold
  <2>3. /\ starts' \in [AttemptIds -> Nat] /\ starts'[id] = 1
        /\ \A n \in AttemptIds : n # id => starts'[n] = starts[n]
    BY <1>0, <2>1, <2>2
  <2>4. ActorsInv'
    BY <1>0, <2>1, <2>3, JobOnlySteps, Unmoved DEF ExecInv, ActorsInv
  <2>5. /\ job'[j].owner = id /\ job'[j].pc = "running"
        /\ \A i \in Jobs : i # j => job'[i] = job[i]
    BY <1>0, <1>1, <2>1 DEF JobAt, Job
  <2>6. ClaimsHold'
    <3> SUFFICES ASSUME NEW i \in Jobs, NEW n, n = job'[i].owner
        PROVE  /\ job'[i].pc \in Working =>
                    Record(n).state # "reserved" /\ Record(n).worker = i
               /\ job'[i].pc \in {"claimed", "ready"} => starts'[n] = 0
      BY <2>1 DEF ClaimsHold, Record
    <3>1. CASE i = j
      BY <2>2, <2>5, <3>1
    <3>2. ASSUME i # j, job[i].pc \in Working
          PROVE  /\ Record(n).state # "reserved" /\ Record(n).worker = i
                 /\ job[i].pc \in {"claimed", "ready"} => starts'[n] = 0
      <4>1. /\ n \in AttemptIds
            /\ Record(n).state # "reserved" /\ Record(n).worker = i
            /\ job[i].pc \in {"claimed", "ready"} => starts[n] = 0
        BY <2>5, <3>2 DEF ExecInv, ActorsInv, JobsOK, StartInv, ClaimsHold
      <4>2. n # id
        BY <2>2, <3>2, <4>1
      <4> QED
        BY <2>3, <4>1, <4>2
    <3> QED
      BY <2>5, <3>1, <3>2
  <2>7. UnclaimedNotStarted'
    <3> SUFFICES ASSUME NEW n \in AttemptIds,
                        Registered(n) => Record(n).state = "reserved"
        PROVE  starts'[n] = 0
      BY <2>1 DEF UnclaimedNotStarted, Registered, Record
    <3>1. n # id
      BY <2>2
    <3> QED
      BY <2>3, <3>1 DEF ExecInv, StartInv, UnclaimedNotStarted
  <2>8. StartsOnce'
    BY <2>3 DEF ExecInv, StartInv, StartsOnce
  <2> QED
    BY <2>1, <2>4, <2>6, <2>7, <2>8 DEF StartInv
<1>7. CASE ExecutorFails(j)
  BY <1>a, <1>b, <1>7 DEF ExecutorFails
<1>8. CASE ReadBack(j)
  BY <1>a, <1>b, <1>8 DEF ReadBack
<1>9. CASE ReconcileJob(j)
  <2>1. /\ job[j].pc = "failed" /\ JobAt(j, "done")
        /\ UNCHANGED <<call, instances, wakes, resume, crashes, starts>>
    BY <1>9 DEF ReconcileJob
  <2>2. [Next]_vars
    BY <1>0, <1>1, <1>9, OneAttemptStep DEF ReconcileJob, AttemptStep, OperatorStep
  <2>3. WakesOK'
    BY <1>0, <2>1, <2>2, Unmoved DEF ExecInv, ActorsInv
  <2> QED
    BY <1>a, <2>1, <2>2, <2>3
<1>10. CASE AcceptJob(j)
  <2>1. /\ job[j].pc = "accepting" /\ JobAt(j, "done")
        /\ UNCHANGED <<call, instances, resume, crashes, starts>>
    BY <1>10 DEF AcceptJob
  <2>2. id \in AttemptIds /\ Registered(id)
    BY <1>0, <1>1, <2>1
  <2>3. [Next]_vars
    BY <1>1, <1>10, <2>2, ResultIsImported, OneAttemptStep DEF AcceptJob, AttemptStep
  <2>4. WakesOK'
    <3>1. CASE Announce(id[1], id[2])
      BY <1>0, <2>2, <2>3, <3>1, AnnouncedIsRegistered
         DEF ExecInv, ActorsInv, AttemptIds, Registered
    <3>2. CASE wakes' = wakes
      BY <1>0, <2>3, <3>2, Unmoved DEF ExecInv, ActorsInv
    <3> QED
      BY <1>1, <1>10, <3>1, <3>2, ResultIsImported DEF AcceptJob
  <2> QED
    BY <1>a, <2>1, <2>3, <2>4
<1>11. CASE CrashJob(j)
  BY <1>a, <1>b, <1>11 DEF CrashJob
<1> QED
  BY <1>3, <1>4, <1>5, <1>6, <1>7, <1>8, <1>9, <1>10, <1>11 DEF JobStep, JobProgress

LEMMA ResumeSteps ==
  ASSUME ExecInv, NEW h \in Resumers, ResumeStep(h)
  PROVE  /\ [Next]_vars /\ ActorsInv'
         /\ UNCHANGED <<job, starts>>
<1> DEFINE Goal == /\ [Next]_vars /\ ActorsInv' /\ UNCHANGED <<job, starts>>
<1>0. /\ BoardTyped /\ InstancesOK /\ WakesOK /\ CountersOK
      /\ resume \in [Resumers -> Resume]
      /\ resume[h] \in Resume /\ IdleResume \in Resume /\ IdleResume.pc = "idle"
      /\ resume[h].pc # "idle" =>
           resume[h].owner \in AttemptIds /\ Registered(resume[h].owner)
  <2>1. 0 \in 0..SignalTries /\ 0 \in 0..MaxInstances
    BY ExecutionAssumption
  <2> QED
    BY <2>1 DEF ExecInv, ActorsInv, ResumesOK, Resume, IdleResume
\* The handler goes on, with its attempt or with none, whatever else it does.
<1>a. ASSUME NEW new \in Resume, resume' = [resume EXCEPT ![h] = new],
             new.pc # "idle" => resume[h].pc # "idle" /\ new.owner = resume[h].owner,
             [Next]_vars, UNCHANGED <<call, job, starts>>,
             InstancesOK', WakesOK', crashes' \in 0..MaxCrashes
      PROVE  Goal
  <2>1. new.pc # "idle" => new.owner \in AttemptIds /\ Registered(new.owner)'
    BY <1>0, <1>a, BoardStep
  <2>2. ResumesOK'
    BY <1>0, <1>a, <2>1, ResumeMoves DEF ExecInv, ActorsInv
  <2>3. CountersOK'
    BY <1>0, <1>a DEF CountersOK
  <2> QED
    BY <1>0, <1>a, <2>2, <2>3, Unmoved DEF ExecInv, ActorsInv
<1>b. ASSUME OnlyResume(h)
      PROVE  /\ [Next]_vars /\ UNCHANGED <<call, job, starts>>
             /\ InstancesOK' /\ WakesOK' /\ crashes' \in 0..MaxCrashes
  BY <1>0, <1>b, Unmoved DEF OnlyResume, CountersOK
\* One that touches the instances only.
<1>c. ASSUME InstancesOK', UNCHANGED <<vars, call, job, wakes, crashes, starts>>
      PROVE  /\ [Next]_vars /\ UNCHANGED <<call, job, starts>>
             /\ WakesOK' /\ crashes' \in 0..MaxCrashes
  BY <1>0, <1>c, Unmoved DEF CountersOK
<1>1. ASSUME NEW id \in AttemptIds, TakeWake(h, id)
      PROVE  Goal
  <2> DEFINE new == [IdleResume EXCEPT !.pc = "check", !.owner = id, !.tries = 1]
  <2>1. /\ id \in wakes /\ wakes' = wakes \ {id} /\ [Next]_vars
        /\ resume' = [resume EXCEPT ![h] = new]
        /\ UNCHANGED <<call, job, instances, crashes, starts>>
    BY <1>1 DEF TakeWake
  <2>2. 1 \in 0..SignalTries
    BY ExecutionAssumption
  <2>3. new \in Resume /\ new.owner = id
    BY <1>0, <2>2 DEF Resume, IdleResume
  <2>4. \A n \in wakes : Registered(n)'
    BY <1>0, <2>1, BoardStep DEF WakesOK
  <2>5. WakesOK' /\ InstancesOK' /\ CountersOK'
    BY <1>0, <2>1, <2>4, Unmoved DEF WakesOK
  <2> HIDE DEF new
  <2>6. ResumesOK'
    BY <1>0, <2>1, <2>3, <2>4, ResumeMoves DEF ExecInv, ActorsInv
  <2> QED
    BY <1>0, <2>1, <2>5, <2>6, Unmoved DEF ExecInv, ActorsInv
<1>2. CASE CheckWake(h)
  <2> DEFINE id == resume[h].owner
             new == [resume[h] EXCEPT !.pc = "signal",
                       !.found = {i \in InstancesOf(id) : Parked(i)}]
  <2>1. OnlyResume(h) /\ resume[h].pc # "idle"
    BY <1>2 DEF CheckWake
  <2>2. new \in Resume /\ new.owner = resume[h].owner
    <3>1. InstancesOf(id) \subseteq 1..MaxInstances
      BY <1>0, ExecutionAssumption DEF InstancesOf, InstancesOK
    <3>2. {i \in InstancesOf(id) : Parked(i)} \in SUBSET (1..MaxInstances)
      BY <3>1
    <3> QED
      BY <1>0, <3>2 DEF Resume
  <2>3. resume' = [resume EXCEPT ![h] = new] \/ resume' = [resume EXCEPT ![h] = IdleResume]
    BY <1>0, <1>2 DEF CheckWake
  <2> HIDE DEF new
  <2> QED
    BY <1>0, <1>a, <1>b, <2>1, <2>2, <2>3
<1>3. ASSUME NEW i \in DOMAIN instances, CheckSignal(h, i)
      PROVE  Goal
  <2> DEFINE go == [resume[h] EXCEPT !.pc = "flush", !.target = i]
             no == [resume[h] EXCEPT !.found = @ \ {i}]
  <2>1. OnlyResume(h) /\ resume[h].pc # "idle"
    BY <1>3 DEF CheckSignal
  <2>2. i \in 0..MaxInstances
    BY <1>0, ExecutionAssumption DEF InstancesOK
  <2>3. go \in Resume /\ go.owner = resume[h].owner
    BY <1>0, <2>2 DEF Resume
  <2>4. no \in Resume /\ no.owner = resume[h].owner
    BY <1>0 DEF Resume
  <2>5. resume' = [resume EXCEPT ![h] = go] \/ resume' = [resume EXCEPT ![h] = no]
    BY <1>3, Zenon DEF CheckSignal
  <2> HIDE DEF go, no
  <2> QED
    BY <1>a, <1>b, <2>1, <2>3, <2>4, <2>5
<1>4. CASE FlushSignal(h)
  <2> DEFINE new == [resume[h] EXCEPT !.pc = "advance"]
  <2>1. /\ resume[h].pc # "idle"
        /\ UNCHANGED <<vars, call, job, wakes, crashes, starts>>
    BY <1>4 DEF FlushSignal
  <2>2. PICK to \in {"leaving", "end"} : MoveInstance(resume[h].target, to)
    BY <1>4 DEF FlushSignal
  <2>3. InstancesOK'
    BY <1>0, <2>2, InstanceMoves
  <2>4. /\ new \in Resume /\ new.owner = resume[h].owner
        /\ resume' = [resume EXCEPT ![h] = new]
    BY <1>0, <1>4 DEF FlushSignal, Resume
  <2> HIDE DEF new
  <2> QED
    BY <1>a, <1>c, <2>1, <2>3, <2>4
<1>5. CASE FinishSignal(h)
  <2>1. /\ resume[h].pc # "idle"
        /\ UNCHANGED <<vars, call, job, wakes, crashes, starts>>
    BY <1>5 DEF FinishSignal
  <2>2. InstancesOK'
    BY <1>0, <1>5, <2>1, InstanceMoves, Unmoved DEF FinishSignal
  <2>3. PICK hit \in BOOLEAN : SignalDone(h, hit)
    BY <1>5 DEF FinishSignal
  <2> DEFINE new == [resume[h] EXCEPT !.pc = "signal", !.found = @ \ {resume[h].target},
                                      !.target = 0, !.hit = @ \/ hit]
  <2>4. 0 \in 0..MaxInstances
    BY ExecutionAssumption
  <2>5. (resume[h].hit \/ hit) \in BOOLEAN
    OBVIOUS
  <2>6. new \in Resume /\ new.owner = resume[h].owner
    BY <1>0, <2>4, <2>5 DEF Resume
  <2>7. resume' = [resume EXCEPT ![h] = new]
    BY <2>3, Zenon DEF SignalDone
  <2> HIDE DEF new
  <2> QED
    BY <1>a, <1>c, <2>1, <2>2, <2>6, <2>7
<1>6. CASE EndSignal(h)
  <2>1. OnlyResume(h) /\ resume[h].pc # "idle"
    BY <1>6 DEF EndSignal
  <2>2. PICK to \in {"mark", "check", "look"}, n \in 0..SignalTries :
          resume' = [resume EXCEPT ![h] = [resume[h] EXCEPT !.pc = to, !.tries = n]]
    <3>1. resume[h].tries \in 0..SignalTries
      BY <1>0 DEF Resume
    <3>2. resume[h].tries < SignalTries => resume[h].tries + 1 \in 0..SignalTries
      BY <3>1, ExecutionAssumption
    <3>3. \A to \in {"mark", "look"} :
            [resume[h] EXCEPT !.pc = to] = [resume[h] EXCEPT !.pc = to, !.tries = resume[h].tries]
      BY <1>0 DEF Resume
    <3>4. \/ resume' = [resume EXCEPT ![h] = [resume[h] EXCEPT !.pc = "mark"]]
          \/ resume' = [resume EXCEPT ![h] = [resume[h] EXCEPT !.pc = "look"]]
          \/ /\ resume[h].tries < SignalTries
             /\ resume' = [resume EXCEPT ![h] =
                  [resume[h] EXCEPT !.pc = "check", !.tries = resume[h].tries + 1]]
      BY <1>0, <1>6 DEF EndSignal
    <3> QED
      BY <3>1, <3>2, <3>3, <3>4
  <2> DEFINE new == [resume[h] EXCEPT !.pc = to, !.tries = n]
  <2>3. new \in Resume /\ new.owner = resume[h].owner
    BY <1>0 DEF Resume
  <2> HIDE DEF new
  <2> QED
    BY <1>a, <1>b, <2>1, <2>2, <2>3 DEF new
<1>7. CASE LookAtWorkflow(h)
  <2> DEFINE new == [resume[h] EXCEPT !.pc = "mark"]
  <2>1. OnlyResume(h) /\ resume[h].pc # "idle"
    BY <1>7 DEF LookAtWorkflow
  <2>2. new \in Resume /\ new.owner = resume[h].owner
    BY <1>0 DEF Resume
  <2>3. resume' = [resume EXCEPT ![h] = new] \/ resume' = [resume EXCEPT ![h] = IdleResume]
    BY <1>0, <1>7 DEF LookAtWorkflow
  <2> HIDE DEF new
  <2> QED
    BY <1>0, <1>a, <1>b, <2>1, <2>2, <2>3
<1>8. CASE MarkWake(h)
  <2>1. /\ resume[h].pc # "idle" /\ resume' = [resume EXCEPT ![h] = IdleResume]
        /\ UNCHANGED <<call, job, instances, wakes, crashes, starts>>
    BY <1>8 DEF MarkWake
  <2>2. [Next]_vars
    <3>1. PICK id : id = resume[h].owner
      OBVIOUS
    <3> QED
      BY <1>0, <1>8, <2>1, <3>1, OneAttemptStep DEF MarkWake, AttemptStep, InternalStep
  <2>3. InstancesOK' /\ WakesOK' /\ crashes' \in 0..MaxCrashes
    BY <1>0, <2>1, <2>2, Unmoved DEF CountersOK
  <2> QED
    BY <1>0, <1>a, <2>1, <2>2, <2>3
<1>9. CASE CrashResume(h)
  <2>1. /\ resume[h].pc # "idle" /\ resume' = [resume EXCEPT ![h] = IdleResume]
        /\ wakes' = wakes \cup {resume[h].owner}
        /\ crashes < MaxCrashes /\ crashes' = crashes + 1
        /\ [Next]_vars /\ UNCHANGED <<call, job, instances, starts>>
    BY <1>9 DEF CrashResume
  <2>2. \A n \in wakes' : n \in AttemptIds /\ Registered(n)'
    BY <1>0, <2>1, BoardStep DEF WakesOK
  <2>3. WakesOK' /\ InstancesOK' /\ crashes' \in 0..MaxCrashes
    BY <1>0, <2>1, <2>2, Unmoved, ExecutionAssumption DEF WakesOK, CountersOK
  <2> QED
    BY <1>0, <1>a, <2>1, <2>3
<1> QED
  BY <1>1, <1>2, <1>3, <1>4, <1>5, <1>6, <1>7, <1>8, <1>9
     DEF ResumeStep, ResumeProgress
-----------------------------------------------------------------------------
(* The invariant holds, and its consequences.                              *)

LEMMA StartsWithNothing ==
  ASSUME ExecInit
  PROVE  ExecInv
<1>1. Init
  BY DEF ExecInit
<1>2. TypeInv
  BY <1>1, TypesAtStart
<1>3. \A t \in Tasks : attempts[t] = <<>>
  BY <1>1 DEF Init
<1>4. BoardTyped
  BY <1>2, <1>3, ConstantsAssumption DEF BoardTyped
<1>5. IdleCall \in Call /\ IdleResume \in Resume
  <2>1. 0 \in 0..MaxInstances /\ 0 \in 0..SignalTries
    BY ExecutionAssumption
  <2> QED
    BY <2>1 DEF Call, IdleCall, Resume, IdleResume
<1>6. [pc |-> "unused", owner |-> NoAttempt] \in Job
  BY DEF Job
<1>7. /\ IdleCall.pc = "idle" /\ IdleResume.pc = "idle"
      /\ [pc |-> "unused", owner |-> NoAttempt].pc = "unused"
  BY DEF IdleCall, IdleResume
<1>8. CallsOK /\ JobsOK /\ ResumesOK /\ WakesOK
  BY <1>5, <1>6, <1>7 DEF ExecInit, CallsOK, JobsOK, ResumesOK, WakesOK
<1>9. InstancesOK /\ CountersOK
  BY ExecutionAssumption DEF ExecInit, InstancesOK, CountersOK
<1>10. ActorsInv
  BY <1>8, <1>9 DEF ActorsInv
<1>11. StartInv
  BY DEF ExecInit, StartInv, UnclaimedNotStarted, ClaimsHold, StartsOnce
<1> QED
  BY <1>4, <1>10, <1>11 DEF ExecInv

LEMMA ExecInvStays ==
  ASSUME ExecInv, [ExecNext]_allVars
  PROVE  ExecInv' /\ [Next]_vars
<1>a. ASSUME [Next]_vars, ActorsInv', UNCHANGED <<job, starts>>
      PROVE  ExecInv'
  BY <1>a, BoardStep, ClaimsStay DEF ExecInv, ActorsInv
<1>1. CASE UNCHANGED allVars
  <2>1. /\ [Next]_vars /\ UNCHANGED <<job, starts>>
        /\ UNCHANGED <<call, instances, wakes, resume, crashes>>
    BY <1>1 DEF allVars, execVars
  <2> QED
    BY <1>a, <2>1, Unmoved DEF ExecInv, ActorsInv
<1>2. ASSUME NEW c \in Callers, BridgeStep(c)
      PROVE  ExecInv' /\ [Next]_vars
  <2>1. [Next]_vars /\ ActorsInv' /\ UNCHANGED starts
    BY <1>2, BridgeSteps
  <2>2. CASE UNCHANGED <<job, starts>>
    BY <1>a, <2>1, <2>2
  <2>3. ASSUME NEW j \in Jobs, NEW id \in AttemptIds,
               job' = [job EXCEPT ![j] = [pc |-> "queued", owner |-> id]]
        PROVE  ExecInv'
    <3>1. job \in [Jobs -> Job] /\ job' \in [Jobs -> Job]
      BY <2>1 DEF ExecInv, ActorsInv, JobsOK
    <3>2. job'[j].pc = "queued" /\ \A i \in Jobs : i # j => job'[i] = job[i]
      BY <2>3, <3>1
    <3>3. StartInv'
      BY <2>1, <3>1, <3>2, ClaimsOfOneJob
    <3> QED
      BY <2>1, <3>3, BoardStep DEF ExecInv
  <2> QED
    BY <1>2, <2>1, <2>2, <2>3, BridgeSteps
<1>3. ASSUME NEW j \in Jobs, JobStep(j)
      PROVE  ExecInv' /\ [Next]_vars
  BY <1>3, JobSteps, BoardStep DEF ExecInv
<1>4. ASSUME NEW h \in Resumers, ResumeStep(h)
      PROVE  ExecInv' /\ [Next]_vars
  BY <1>4, <1>a, ResumeSteps
<1>5. CASE \/ Operate
           \/ \E t \in Tasks : \E a \in DOMAIN attempts[t] :
                BringResult(t, a) \/ RepeatResult(t, a) \/ ScanStuck(t, a)
           \/ ScanPending
  BY <1>5, <1>a, PeopleSteps
<1>6. CASE ExecNext
  BY <1>2, <1>3, <1>4, <1>5, <1>6 DEF ExecNext
<1> QED
  BY <1>1, <1>6

THEOREM ExecInvHolds == ExecSpec => []ExecInv
<1>1. ExecInit => ExecInv
  BY StartsWithNothing
<1>2. ExecInv /\ [ExecNext]_allVars => ExecInv'
  BY ExecInvStays
<1> QED
  BY <1>1, <1>2, PTL DEF ExecSpec

SignedOK == signed \subseteq AttemptIds

\* Only the two ways of importing a result touch who signed for it.
LEMMA SignedStays ==
  ASSUME ExecInv, SignedOK, [ExecNext]_allVars
  PROVE  SignedOK'
<1>1. ASSUME NEW id \in AttemptIds, NEW who, Sign(id, who)
      PROVE  SignedOK'
  BY <1>1 DEF Sign, SignedOK
<1>2. ASSUME NEW t \in Tasks, NEW a \in DOMAIN attempts[t],
             BringResult(t, a) \/ RepeatResult(t, a) \/ ScanStuck(t, a)
      PROVE  SignedOK'
  <2>1. <<t, a>> \in AttemptIds
    BY NamesOfAttempts DEF ExecInv
  <2>2. (\E who : Sign(<<t, a>>, who)) \/ signed' = signed
    BY <1>2 DEF BringResult, ImportResult, RepeatResult, ScanStuck, execVars
  <2> QED
    BY <1>1, <2>1, <2>2 DEF SignedOK
<1>3. ASSUME NEW c \in Callers, BridgeStep(c)
      PROVE  signed' = signed
  BY <1>3 DEF BridgeStep, CallReserve, CallReplay, LookForInstance, StartWorkflow, Link,
     CheckBeforeExecute, ExecuteWorkflow, ConfirmParked, Enqueue, Dispatch, AbortCall,
     OnlyCall
<1>4. ASSUME NEW j \in Jobs, JobStep(j)
      PROVE  SignedOK'
  <2>1. CASE AcceptJob(j)
    <3>1. job[j].owner \in AttemptIds
      BY <2>1 DEF AcceptJob, ExecInv, ActorsInv, JobsOK
    <3>2. <<job[j].owner[1], job[j].owner[2]>> = job[j].owner
      BY <3>1 DEF AttemptIds
    <3>3. (\E who : Sign(job[j].owner, who)) \/ signed' = signed
      BY <2>1, <3>2 DEF AcceptJob, ImportResult
    <3> QED
      BY <1>1, <3>1, <3>3 DEF SignedOK
  <2>2. CASE ~AcceptJob(j)
    BY <1>4, <2>2 DEF JobStep, JobProgress, ClaimJob, PackageFails, CheckJob,
       StartExecutor, ExecutorFails, ReadBack, ReconcileJob, CrashJob, OnlyJob, SignedOK
  <2> QED
    BY <2>1, <2>2
<1>5. ASSUME NEW h \in Resumers, ResumeStep(h)
      PROVE  signed' = signed
  BY <1>5 DEF ResumeStep, ResumeProgress, TakeWake, CheckWake, CheckSignal, FlushSignal,
     FinishSignal, EndSignal, LookAtWorkflow, MarkWake, CrashResume, OnlyResume
<1>6. CASE Operate \/ ScanPending \/ UNCHANGED allVars
  BY <1>6 DEF Operate, ScanPending, execVars, allVars, SignedOK
<1>7. CASE ExecNext
  BY <1>2, <1>3, <1>4, <1>5, <1>6, <1>7 DEF ExecNext, SignedOK
<1> QED
  BY <1>6, <1>7

\* The variables of the executor keep to their domains.
THEOREM ExecTypesHold == ExecSpec => []ExecTypeOK
<1>1. ExecInit => SignedOK
  BY DEF ExecInit, SignedOK
<1>2. ExecInv /\ SignedOK => ExecTypeOK
  BY DEF ExecInv, ActorsInv, CallsOK, JobsOK, ResumesOK, WakesOK, InstancesOK,
         CountersOK, SignedOK, ExecTypeOK
<1> QED
  BY <1>1, <1>2, ExecInvHolds, SignedStays, PTL DEF ExecSpec

\* For any number of requests, jobs, deliveries of a job and crashes, an
\* attempt never starts the executor twice: the conditional claim of
\* execute-task.ts is enough.
THEOREM AttemptStartsOnce == ExecSpec => []StartsOnce
<1>1. ExecInv => StartsOnce
  BY DEF ExecInv, StartInv
<1> QED
  BY <1>1, ExecInvHolds, PTL

\* The bridge, the workers and the scans use the board only through its
\* commands: whatever they do is a behaviour of the board.
THEOREM ExecutionUsesBoard == ExecSpec => Spec
<1>1. ExecInit => Init
  BY DEF ExecInit
<1>2. ExecInv /\ [ExecNext]_allVars => [Next]_vars
  BY ExecInvStays
<1> QED
  BY <1>1, <1>2, ExecInvHolds, PTL DEF ExecSpec, Spec

\* Hence no automatic execution, however it interleaves or fails, lets a task
\* become ready or be worked on before its prerequisites are verified.
THEOREM ExecutionKeepsPrerequisites == ExecSpec => []PrerequisitesVerified
BY ExecutionUsesBoard, StartedOnVerifiedWork, PTL
=============================================================================
