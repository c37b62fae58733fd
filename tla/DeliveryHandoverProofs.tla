------------------------ MODULE DeliveryHandoverProofs ------------------------
(***************************************************************************)
(* Theorems about the handover between the bridge, the workers and the     *)
(* workflow: a job is queued only for a workflow that has parked, an       *)
(* attempt counts as dispatched only with a job, and a delivery is ticked  *)
(* off only when a workflow went past its wait step; from these, the       *)
(* promise of the handover and what the board keeps under automatic        *)
(* execution; for every number of callers, jobs, handlers, instances and   *)
(* crashes.                                                                *)
(***************************************************************************)
EXTENDS DeliveryExecutionProofs, DeliveryPromiseProofs

-----------------------------------------------------------------------------
(* What an attempt may claim, and what its actors know of it.              *)

Linked(id)  == Record(id).workflow # None
Ticked(id)  == Record(id).delivery = "delivered"
Queued(id)  == \E j \in Jobs : job[j].pc # "unused" /\ job[j].owner = id
HasLeft(id) == \E i \in InstancesOf(id) : instances[i].at # "start"
Ended(id)   == \E i \in InstancesOf(id) : instances[i].at = "end"

\* The marks of the register are true.
MarksTrue ==
  \A id \in AttemptIds : Registered(id) =>
    /\ Record(id).dispatched => Queued(id)
    /\ Ticked(id) => Ended(id)

\* What a call has seen to when it stands where it does.
Handed(x) ==
  /\ x.pc \in {"link", "check", "execute", "confirm"} =>
       x.instance \in InstancesOf(x.owner)
  /\ x.pc \in {"check", "execute", "confirm", "enqueue", "dispatch"} =>
       Linked(x.owner)
  /\ x.pc \in {"enqueue", "dispatch"} => HasLeft(x.owner)
  /\ x.pc = "dispatch" => Queued(x.owner)

\* What a handler of the resume queue has seen to.
Told(x) ==
  /\ x.found \subseteq InstancesOf(x.owner)
  /\ x.pc \in {"flush", "advance"} => x.target \in InstancesOf(x.owner)
  /\ x.hit \/ x.pc = "mark" => Ended(x.owner)

Awaited(x) == x.pc # "unused" => Linked(x.owner) /\ HasLeft(x.owner)

HandoverInv ==
  /\ MarksTrue
  /\ \A c \in Callers : Handed(call[c])
  /\ \A j \in Jobs : Awaited(job[j])
  /\ \A h \in Resumers : Told(resume[h])

-----------------------------------------------------------------------------
(* What a step of the board does to the register.                          *)

\* No attempt loses its workflow, and none gets a mark.
RecordsKept ==
  \A id \in AttemptIds :
    /\ Registered(id) => Registered(id)' /\ (Linked(id) => Linked(id)')
    /\ Registered(id)' =>
         /\ Record(id)'.dispatched => Registered(id) /\ Record(id).dispatched
         /\ Ticked(id)' => Registered(id) /\ Ticked(id)

LEMMA RegisterUntouched ==
  ASSUME UNCHANGED attempts
  PROVE  RecordsKept
BY DEF RecordsKept, Registered, Linked, Ticked, Record

\* One attempt is written over.
LEMMA RecordWritten ==
  ASSUME BoardTyped, NEW t \in Tasks, NEW a \in DOMAIN attempts[t],
         NEW new \in Attempt, SetAttempt(t, a, new), NEW id \in AttemptIds
  PROVE  /\ Registered(id)' <=> Registered(id)
         /\ id = <<t, a>> => Record(id)' = new
         /\ id # <<t, a>> /\ Registered(id) => Record(id)' = Record(id)
<1>1. attempts \in [Tasks -> Seq(Attempt)]
  BY DEF BoardTyped, TypeInv, TypeOK
<1>2. id[1] \in Tasks /\ id = <<id[1], id[2]>>
  BY DEF AttemptIds
<1>3. attempts[t] \in Seq(Attempt) /\ attempts' = [attempts EXCEPT ![t] = [attempts[t] EXCEPT ![a] = new]]
  BY <1>1 DEF SetAttempt
<1>4. DOMAIN [attempts[t] EXCEPT ![a] = new] = DOMAIN attempts[t]
  BY <1>3, ReplaceInRegister
<1> QED
  BY <1>1, <1>2, <1>3, <1>4 DEF Registered, Record

LEMMA RewrittenKept ==
  ASSUME BoardTyped, NEW t \in Tasks, NEW a \in DOMAIN attempts[t],
         NEW new \in Attempt, SetAttempt(t, a, new),
         new.workflow = attempts[t][a].workflow,
         new.dispatched = attempts[t][a].dispatched,
         new.delivery = "delivered" => attempts[t][a].delivery = "delivered"
  PROVE  RecordsKept
<1> SUFFICES ASSUME NEW id \in AttemptIds
             PROVE  /\ Registered(id) => Registered(id)' /\ (Linked(id) => Linked(id)')
                    /\ Registered(id)' =>
                         /\ Record(id)'.dispatched => Registered(id) /\ Record(id).dispatched
                         /\ Ticked(id)' => Registered(id) /\ Ticked(id)
  BY DEF RecordsKept
<1>1. CASE id = <<t, a>>
  <2>1. Registered(id) /\ Record(id) = attempts[t][a]
    BY <1>1 DEF Registered, Record
  <2>2. Registered(id)' /\ Record(id)' = new
    BY <1>1, <2>1, RecordWritten
  <2> QED
    BY <2>1, <2>2 DEF Linked, Ticked
<1>2. CASE id # <<t, a>>
  BY <1>2, RecordWritten DEF Linked, Ticked
<1> QED
  BY <1>1, <1>2

LEMMA ReserveKept ==
  ASSUME BoardTyped, NEW t \in Tasks, NEW k \in Keys, Reserve(t, k)
  PROVE  RecordsKept
<1>1. attempts \in [Tasks -> Seq(Attempt)]
  BY DEF BoardTyped, TypeInv, TypeOK
<1> SUFFICES ASSUME NEW id \in AttemptIds
             PROVE  /\ Registered(id) => Registered(id)' /\ (Linked(id) => Linked(id)')
                    /\ Registered(id)' =>
                         /\ Record(id)'.dispatched => Registered(id) /\ Record(id).dispatched
                         /\ Ticked(id)' => Registered(id) /\ Ticked(id)
  BY DEF RecordsKept
<1> DEFINE s == attempts[t]  x == NewAttempt(k)
<1>2. ~x.dispatched /\ x.delivery # "delivered"
  BY DEF NewAttempt, None
<1>3. s \in Seq(Attempt) /\ attempts' = [attempts EXCEPT ![t] = Append(s, x)]
  BY <1>1 DEF Reserve
<1>4. id[1] \in Tasks
  BY DEF AttemptIds
<1> HIDE DEF s, x
<1>5. /\ DOMAIN s = 1..Len(s) /\ DOMAIN Append(s, x) = 1..(Len(s) + 1)
      /\ Append(s, x)[Len(s) + 1] = x
      /\ \A a \in 1..Len(s) : Append(s, x)[a] = s[a]
      /\ Len(s) \in Nat
  BY <1>3
<1>6. CASE id[1] = t
  <2>1. attempts'[id[1]] = Append(s, x) /\ attempts[id[1]] = s
    BY <1>1, <1>3, <1>6 DEF s
  <2>2. id[2] \in DOMAIN Append(s, x) => id[2] \in DOMAIN s \/ id[2] = Len(s) + 1
    BY <1>5
  <2>3. DOMAIN s \subseteq DOMAIN Append(s, x)
    BY <1>5
  <2> QED
    BY <1>2, <1>5, <2>1, <2>2, <2>3 DEF Registered, Linked, Ticked, Record
<1>7. CASE id[1] # t
  BY <1>1, <1>3, <1>4, <1>7 DEF Registered, Linked, Ticked, Record
<1> QED
  BY <1>6, <1>7

\* The commands but those that link an attempt or tick off its delivery.
LEMMA QuietAttemptStep ==
  ASSUME BoardTyped, NEW t \in Tasks, NEW a \in DOMAIN attempts[t],
         \/ \E w \in Workers : Claim(t, a, w)
         \/ OperatorStep(t, a)
         \/ ResultStep(t, a)
  PROVE  RecordsKept
<1> DEFINE rec == attempts[t][a]
<1>0. rec \in Attempt
  BY DEF BoardTyped, TypeInv, TypeOK
<1>a. ASSUME NEW new \in Attempt, SetAttempt(t, a, new),
             new.workflow = rec.workflow, new.dispatched = rec.dispatched,
             new.delivery = "delivered" => rec.delivery = "delivered"
      PROVE  RecordsKept
  BY <1>a, RewrittenKept
<1>1. ASSUME NEW w \in Workers, Claim(t, a, w)
      PROVE  RecordsKept
  <2> DEFINE new == [rec EXCEPT !.state = "claimed", !.worker = w]
  <2>1. new \in Attempt /\ SetAttempt(t, a, new)
    BY <1>0, <1>1, AttemptTypes DEF Claim
  <2>2. /\ new.workflow = rec.workflow /\ new.dispatched = rec.dispatched
        /\ new.delivery = rec.delivery
    BY <1>0 DEF Attempt
  <2> QED
    BY <1>a, <2>1, <2>2
<1>2. ASSUME Cancel(t, a)
      PROVE  RecordsKept
  <2> DEFINE new == [rec EXCEPT !.state = "cancel_requested", !.cancelAsked = TRUE]
  <2>1. new \in Attempt /\ SetAttempt(t, a, new)
    BY <1>0, <1>2, AttemptTypes DEF Cancel
  <2>2. /\ new.workflow = rec.workflow /\ new.dispatched = rec.dispatched
        /\ new.delivery = rec.delivery
    BY <1>0 DEF Attempt
  <2> QED
    BY <1>a, <2>1, <2>2
<1>3. ASSUME NEW res \in {"not_started", "stopped"}, ReconcileReleased(t, a, res)
      PROVE  RecordsKept
  <2> DEFINE new == [rec EXCEPT !.state = "closed", !.resolution = res,
                       !.outcome = IF rec.cancelAsked THEN "cancelled" ELSE res]
  <2>1. new \in Attempt /\ SetAttempt(t, a, new)
    BY <1>0, <1>3, AttemptTypes DEF ReconcileReleased
  <2>2. /\ new.workflow = rec.workflow /\ new.dispatched = rec.dispatched
        /\ new.delivery = rec.delivery
    BY <1>0 DEF Attempt
  <2> QED
    BY <1>a, <2>1, <2>2
<1>4. ASSUME ReconcileUnknown(t, a)
      PROVE  RecordsKept
  <2> DEFINE new == [rec EXCEPT !.state = "reconciliation_required",
                                !.resolution = "unknown"]
  <2>1. new \in Attempt /\ SetAttempt(t, a, new)
    BY <1>0, <1>4, AttemptTypes DEF ReconcileUnknown
  <2>2. /\ new.workflow = rec.workflow /\ new.dispatched = rec.dispatched
        /\ new.delivery = rec.delivery
    BY <1>0 DEF Attempt
  <2> QED
    BY <1>a, <2>1, <2>2
<1>5. ASSUME NEW old \in Attempt, SetAttempt(t, a, WithResult(old)),
             old.workflow = rec.workflow, old.dispatched = rec.dispatched
      PROVE  RecordsKept
  <2>1. WithResult(old) \in Attempt
    BY AttemptTypes
  <2>2. /\ WithResult(old).workflow = old.workflow
        /\ WithResult(old).dispatched = old.dispatched
        /\ WithResult(old).delivery # "delivered"
    BY DEF WithResult, Attempt, None
  <2> QED
    BY <1>5, <1>a, <2>1, <2>2
<1>6. ASSUME NEW r \in Revisions, NEW o \in Reports, AcceptResult(t, a, r, o)
      PROVE  RecordsKept
  BY <1>0, <1>5, <1>6 DEF AcceptResult, StoreResult
<1>7. ASSUME NEW r \in Revisions, NEW o \in Reports, ReconcileCompleted(t, a, r, o)
      PROVE  RecordsKept
  <2> DEFINE old == [rec EXCEPT !.resolution = "completed"]
  <2>1. old \in Attempt /\ SetAttempt(t, a, WithResult(old))
    BY <1>0, <1>7, AttemptTypes DEF ReconcileCompleted, StoreResult
  <2>2. old.workflow = rec.workflow /\ old.dispatched = rec.dispatched
    BY <1>0 DEF Attempt
  <2> QED
    BY <1>5, <2>1, <2>2
<1> QED
  BY <1>1, <1>2, <1>3, <1>4, <1>6, <1>7 DEF OperatorStep, ResultStep

-----------------------------------------------------------------------------
(* What lasts: instances only move on, and a job keeps its attempt.        *)

InstancesGrow ==
  \A i \in DOMAIN instances :
    /\ i \in DOMAIN instances'
    /\ instances'[i].owner = instances[i].owner
    /\ instances[i].at # "start" => instances'[i].at # "start"
    /\ instances[i].at = "end" => instances'[i].at = "end"

JobsGrow ==
  \A j \in Jobs : job[j].pc # "unused" =>
    job'[j].pc # "unused" /\ job'[j].owner = job[j].owner

\* The register after a step, given what calls and handlers have seen to.
RecordsFit ==
  \A id \in AttemptIds :
    /\ Registered(id) => Registered(id)' /\ (Linked(id) => Linked(id)')
    /\ Registered(id)' =>
         /\ Record(id)'.dispatched =>
              (Registered(id) /\ Record(id).dispatched) \/ Queued(id)
         /\ Ticked(id)' => (Registered(id) /\ Ticked(id)) \/ Ended(id)

LEMMA KeptFits == RecordsKept => RecordsFit
BY DEF RecordsKept, RecordsFit

LEMMA Lasting ==
  ASSUME InstancesGrow, JobsGrow, NEW id
  PROVE  /\ InstancesOf(id) \subseteq InstancesOf(id)'
         /\ HasLeft(id) => HasLeft(id)'
         /\ Ended(id) => Ended(id)'
         /\ Queued(id) => Queued(id)'
<1>1. InstancesOf(id) \subseteq InstancesOf(id)'
  BY DEF InstancesGrow, InstancesOf
<1>2. HasLeft(id) => HasLeft(id)'
  BY <1>1 DEF HasLeft, InstancesGrow, InstancesOf
<1>3. Ended(id) => Ended(id)'
  BY <1>1 DEF Ended, InstancesGrow, InstancesOf
<1>4. Queued(id) => Queued(id)'
  BY DEF Queued, JobsGrow
<1> QED
  BY <1>1, <1>2, <1>3, <1>4

\* The invariant survives a step when whoever moved has seen to what it says.
LEMMA HandoverStays ==
  ASSUME ExecInv, HandoverInv, InstancesGrow, JobsGrow, RecordsFit,
         \A c \in Callers : call'[c] = call[c] \/ Handed(call[c])',
         \A j \in Jobs : job'[j] = job[j] \/ Awaited(job[j])',
         \A h \in Resumers : resume'[h] = resume[h] \/ Told(resume[h])'
  PROVE  HandoverInv'
<1>1. MarksTrue'
  <2> SUFFICES ASSUME NEW id \in AttemptIds, Registered(id)'
               PROVE  /\ Record(id)'.dispatched => Queued(id)'
                      /\ Ticked(id)' => Ended(id)'
    BY DEF MarksTrue
  <2> QED
    BY Lasting DEF RecordsFit, HandoverInv, MarksTrue
<1>2. ASSUME NEW c \in Callers
      PROVE  Handed(call[c])'
  <2>1. PICK x : x = call[c]
    OBVIOUS
  <2>2. x.pc # "idle" => x.owner \in AttemptIds /\ Registered(x.owner)
    BY <2>1 DEF ExecInv, ActorsInv, CallsOK
  <2>3. Handed(x)
    BY <2>1 DEF HandoverInv
  <2>4. Handed(x)'
    BY <2>2, <2>3, Lasting DEF Handed, RecordsFit
  <2>5. call'[c] = x => Handed(call[c])'
    BY <2>4 DEF Handed
  <2> QED
    BY <2>1, <2>5
<1>3. ASSUME NEW j \in Jobs
      PROVE  Awaited(job[j])'
  <2>1. PICK x : x = job[j]
    OBVIOUS
  <2>2. x.pc # "unused" => x.owner \in AttemptIds /\ Registered(x.owner)
    BY <2>1 DEF ExecInv, ActorsInv, JobsOK
  <2>3. Awaited(x)
    BY <2>1 DEF HandoverInv
  <2>4. Awaited(x)'
    BY <2>2, <2>3, Lasting DEF Awaited, RecordsFit
  <2>5. job'[j] = x => Awaited(job[j])'
    BY <2>4 DEF Awaited
  <2> QED
    BY <2>1, <2>5
<1>4. ASSUME NEW h \in Resumers
      PROVE  Told(resume[h])'
  <2>1. PICK x : x = resume[h]
    OBVIOUS
  <2>2. Told(x)
    BY <2>1 DEF HandoverInv
  <2>3. Told(x)'
    BY <2>2, Lasting DEF Told
  <2>4. resume'[h] = x => Told(resume[h])'
    BY <2>3 DEF Told
  <2> QED
    BY <2>1, <2>4
<1> QED
  BY <1>1, <1>2, <1>3, <1>4 DEF HandoverInv

\* An instance that moves on.
LEMMA MovedOn ==
  ASSUME InstancesOK, NEW i \in DOMAIN instances,
         NEW to \in {"wait", "leaving", "end"}, MoveInstance(i, to),
         instances[i].at = "end" => to = "end"
  PROVE  /\ InstancesGrow /\ instances'[i].at = to
         /\ instances'[i].owner = instances[i].owner /\ i \in DOMAIN instances'
<1>1. instances \in Seq(Instance)
  BY DEF InstancesOK
<1>2. instances[i] \in Instance
  BY <1>1
<1> DEFINE new == [instances[i] EXCEPT !.at = to]
<1>3. new \in Instance /\ new.owner = instances[i].owner /\ new.at = to
  BY <1>2 DEF Instance
<1>4. instances' = [instances EXCEPT ![i] = new]
  BY DEF MoveInstance
<1> HIDE DEF new
<1>5. DOMAIN instances' = DOMAIN instances
  BY <1>4
<1>6. instances'[i] = new /\ \A n \in DOMAIN instances : n # i => instances'[n] = instances[n]
  BY <1>4
<1> QED
  BY <1>3, <1>5, <1>6 DEF InstancesGrow

LEMMA NothingMoves ==
  /\ instances' = instances => InstancesGrow
  /\ job' = job => JobsGrow
  /\ vars' = vars => RecordsFit
BY RegisterUntouched, KeptFits DEF InstancesGrow, JobsGrow, vars

-----------------------------------------------------------------------------
(* The steps, actor by actor.                                              *)

LEMMA PeopleHandover ==
  ASSUME ExecInv, HandoverInv,
         \/ Operate
         \/ \E t \in Tasks : \E a \in DOMAIN attempts[t] :
              BringResult(t, a) \/ RepeatResult(t, a) \/ ScanStuck(t, a)
         \/ ScanPending
  PROVE  HandoverInv'
<1>0. BoardTyped
  BY DEF ExecInv
<1>a. ASSUME RecordsFit, UNCHANGED <<call, job, instances, resume>>
      PROVE  HandoverInv'
  BY <1>a, HandoverStays, NothingMoves
<1>1. ASSUME NEW t \in Tasks, PlanStep(t) \/ ReviewStep(t)
      PROVE  UNCHANGED attempts
  BY <1>1 DEF PlanStep, CreateTask, EditDependencies, SetStatus, DeleteTask,
              ReviewStep, ReviewManualCheck, RequestChanges, Approve
<1>2. ProjectStep => UNCHANGED attempts
  BY DEF ProjectStep, RecordTest, DecideBaseline, DecideStage, SetLimit
<1>3. CASE Operate
  <2>1. RecordsKept
    BY <1>0, <1>1, <1>2, <1>3, RegisterUntouched, ReserveKept, QuietAttemptStep
       DEF Operate
  <2> QED
    BY <1>3, <1>a, <2>1, KeptFits DEF Operate, execVars
<1>4. ASSUME NEW t \in Tasks, NEW a \in DOMAIN attempts[t], BringResult(t, a)
      PROVE  HandoverInv'
  BY <1>0, <1>4, <1>a, ResultIsBrought, KeptFits, QuietAttemptStep
<1>5. ASSUME NEW t \in Tasks, NEW a \in DOMAIN attempts[t], ScanStuck(t, a)
      PROVE  HandoverInv'
  <2>1. RecordsFit
    BY <1>0, <1>5, KeptFits, QuietAttemptStep, NothingMoves DEF ScanStuck, OperatorStep
  <2> QED
    BY <1>5, <1>a, <2>1 DEF ScanStuck, execVars
<1>6. CASE ScanPending
  BY <1>6, <1>a, NothingMoves DEF ScanPending
<1>7. ASSUME NEW t \in Tasks, NEW a \in DOMAIN attempts[t], RepeatResult(t, a)
      PROVE  HandoverInv'
  BY <1>7, <1>a, NothingMoves DEF RepeatResult
<1> QED
  BY <1>3, <1>4, <1>5, <1>6, <1>7

\* Linking gives an attempt its workflow, and the mark when its job is there.
LEMMA LinkFits ==
  ASSUME BoardTyped, NEW id \in AttemptIds, Registered(id), NEW sent \in BOOLEAN,
         LinkWorkflow(id[1], id[2], OwnRef, sent), sent => Queued(id)
  PROVE  RecordsFit /\ Linked(id)'
<1>0. /\ id[1] \in Tasks /\ id[2] \in DOMAIN attempts[id[1]]
      /\ id = <<id[1], id[2]>> /\ OwnRef \in Workflows
      /\ Record(id) \in Attempt
  BY ExecutionAssumption DEF AttemptIds, Registered, OwnRef, Record, BoardTyped, TypeInv, TypeOK
<1> DEFINE new == [Record(id) EXCEPT !.workflow = OwnRef, !.dispatched = @ \/ sent]
<1>1. new \in Attempt /\ SetAttempt(id[1], id[2], new)
  BY <1>0, AttemptTypes DEF LinkWorkflow, Record
<1>2. /\ new.workflow # None /\ new.delivery = Record(id).delivery
      /\ new.dispatched => Record(id).dispatched \/ sent
  BY <1>0, ConstantsAssumption DEF Attempt
<1> HIDE DEF new
<1>3. Registered(id)' /\ Record(id)' = new
  BY <1>0, <1>1, RecordWritten
<1>4. ASSUME NEW n \in AttemptIds, n # id
      PROVE  /\ Registered(n)' <=> Registered(n)
             /\ Registered(n) => Record(n)' = Record(n)
  BY <1>0, <1>1, <1>4, RecordWritten
<1> QED
  BY <1>2, <1>3, <1>4 DEF RecordsFit, Linked, Ticked

LEMMA BridgeHandover ==
  ASSUME ExecInv, HandoverInv, NEW c \in Callers, BridgeStep(c)
  PROVE  HandoverInv'
<1>0. PICK x \in Call : x = call[c]
  BY DEF ExecInv, ActorsInv, CallsOK
<1>1. PICK id : id = x.owner
  OBVIOUS
<1>2. /\ call \in [Callers -> Call] /\ BoardTyped /\ InstancesOK /\ JobsOK
      /\ x.pc # "idle" => id \in AttemptIds /\ Registered(id)
      /\ Handed(x)
  BY <1>0, <1>1 DEF ExecInv, ActorsInv, CallsOK, HandoverInv
\* Only this call moves, and perhaps the register and the instances.
<1>a. ASSUME NEW new, call' = [call EXCEPT ![c] = new], Handed(new)',
             RecordsFit, InstancesGrow, JobsGrow,
             \A j \in Jobs : job'[j] = job[j] \/ Awaited(job[j])',
             UNCHANGED resume
      PROVE  HandoverInv'
  <2>1. call'[c] = new /\ \A n \in Callers : n # c => call'[n] = call[n]
    BY <1>2, <1>a
  <2>2. Handed(call[c])'
    BY <1>a, <2>1 DEF Handed
  <2> QED
    BY <1>a, <2>1, <2>2, HandoverStays
<1>b. ASSUME OnlyCall(c)
      PROVE  /\ RecordsFit /\ InstancesGrow /\ JobsGrow
             /\ UNCHANGED <<job, resume, instances>>
  BY <1>b, NothingMoves DEF OnlyCall
<1>c. Handed(IdleCall)'
  BY DEF Handed, IdleCall
<1>3. ASSUME NEW t \in Tasks, NEW k \in BridgeKeys, CallReserve(c, t, k)
      PROVE  HandoverInv'
  <2>1. PICK n : n = <<t, Len(attempts[t]) + 1>>
    OBVIOUS
  <2> DEFINE new == [IdleCall EXCEPT !.pc = "look", !.owner = n]
  <2>2. call' = [call EXCEPT ![c] = new] /\ new.pc = "look"
    BY <1>3, <2>1 DEF CallReserve, BeginCall, IdleCall
  <2>3. Reserve(t, k) /\ k \in Keys
    BY <1>3, ExecutionAssumption DEF CallReserve
  <2>4. RecordsFit
    BY <1>2, <2>3, ReserveKept, KeptFits
  <2> HIDE DEF new
  <2>5. Handed(new)'
    BY <2>2 DEF Handed
  <2> QED
    BY <1>3, <1>a, <2>2, <2>4, <2>5, NothingMoves DEF CallReserve
<1>4. ASSUME NEW t \in Tasks, NEW k \in BridgeKeys, CallReplay(c, t, k)
      PROVE  HandoverInv'
  <2>1. PICK a \in DOMAIN attempts[t] : BeginCall(c, <<t, a>>)
    BY <1>4 DEF CallReplay
  <2>2. PICK n : n = <<t, a>>
    OBVIOUS
  <2> DEFINE new == [IdleCall EXCEPT !.pc = "look", !.owner = n]
  <2>3. call' = [call EXCEPT ![c] = new] /\ new.pc = "look"
    BY <2>1, <2>2 DEF BeginCall, IdleCall
  <2>4. OnlyCall(c)
    BY <1>4 DEF CallReplay
  <2> HIDE DEF new
  <2>5. Handed(new)'
    BY <2>3 DEF Handed
  <2> QED
    BY <1>a, <1>b, <2>3, <2>4, <2>5
<1>5. CASE LookForInstance(c)
  <2>1. OnlyCall(c)
    BY <1>5 DEF LookForInstance
  <2>2. CASE Advance(c, "start")
    <3> DEFINE new == [x EXCEPT !.pc = "start"]
    <3>1. call' = [call EXCEPT ![c] = new] /\ new.pc = "start"
      BY <1>0, <2>2 DEF Advance, Call
    <3> HIDE DEF new
    <3>2. Handed(new)'
      BY <3>1 DEF Handed
    <3> QED
      BY <1>a, <1>b, <2>1, <3>1, <3>2
  <2>3. ASSUME NEW i \in InstancesOf(id),
               call' = [call EXCEPT ![c].pc = "link", ![c].instance = i,
                                    ![c].parked = Parked(i)]
        PROVE  HandoverInv'
    <3>1. PICK p : p = Parked(i)
      OBVIOUS
    <3> DEFINE new == [x EXCEPT !.pc = "link", !.instance = i, !.parked = p]
    <3>2. /\ call' = [call EXCEPT ![c] = new]
          /\ new.pc = "link" /\ new.instance = i /\ new.owner = id
      BY <1>0, <1>1, <1>2, <2>3, <3>1 DEF Call
    <3>3. i \in InstancesOf(id)'
      BY <1>b, <2>1, <2>3 DEF InstancesOf
    <3> HIDE DEF new
    <3>4. Handed(new)'
      BY <3>2, <3>3 DEF Handed
    <3> QED
      BY <1>a, <1>b, <2>1, <3>2, <3>4
  <2> QED
    BY <1>0, <1>1, <1>5, <2>2, <2>3 DEF LookForInstance
<1>6. CASE StartWorkflow(c)
  <2>1. PICK n : n = Len(instances) + 1
    OBVIOUS
  <2> DEFINE new == [x EXCEPT !.pc = "link", !.instance = n]
             y == [owner |-> id, at |-> "start"]
  <2>2. /\ call' = [call EXCEPT ![c] = new]
        /\ new.pc = "link" /\ new.instance = n /\ new.owner = id
        /\ instances' = Append(instances, y) /\ y.owner = id
        /\ UNCHANGED <<vars, job, resume>>
    BY <1>0, <1>1, <1>2, <1>6, <2>1 DEF StartWorkflow, Call
  <2> HIDE DEF new, y
  <2>3. /\ DOMAIN instances' = 1..(Len(instances) + 1)
        /\ DOMAIN instances = 1..Len(instances) /\ Len(instances) \in Nat
        /\ instances'[Len(instances) + 1] = y
        /\ \A i \in 1..Len(instances) : instances'[i] = instances[i]
    BY <1>2, <2>2 DEF InstancesOK
  <2>4. InstancesGrow
    BY <2>3 DEF InstancesGrow
  <2>5. n \in InstancesOf(id)'
    BY <2>1, <2>2, <2>3 DEF InstancesOf
  <2>6. Handed(new)'
    BY <2>2, <2>5 DEF Handed
  <2> QED
    BY <1>a, <2>2, <2>4, <2>6, NothingMoves
<1>7. CASE Link(c)
  <2> DEFINE new == [x EXCEPT !.pc = IF x.parked THEN "confirm" ELSE "check",
                              !.parked = FALSE]
  <2>1. /\ call' = [call EXCEPT ![c] = new]
        /\ new.pc \in {"check", "confirm"} /\ new.owner = id
        /\ new.instance = x.instance /\ x.pc = "link"
        /\ LinkWorkflow(id[1], id[2], OwnRef, FALSE)
        /\ UNCHANGED <<job, instances, resume>>
    BY <1>0, <1>1, <1>2, <1>7 DEF Link, Call
  <2> HIDE DEF new
  <2>2. RecordsFit /\ Linked(id)'
    BY <1>2, <2>1, LinkFits
  <2>3. x.instance \in InstancesOf(id)'
    BY <1>1, <1>2, <2>1 DEF Handed, InstancesOf
  <2>4. Handed(new)'
    BY <2>1, <2>2, <2>3 DEF Handed
  <2> QED
    BY <1>a, <2>1, <2>2, <2>4, NothingMoves
<1>8. CASE CheckBeforeExecute(c)
  <2> DEFINE new == [x EXCEPT !.pc = "execute"]
  <2>1. /\ call' = [call EXCEPT ![c] = new]
        /\ new.pc = "execute" /\ new.owner = id
        /\ new.instance = x.instance /\ x.pc = "check" /\ OnlyCall(c)
    BY <1>0, <1>1, <1>2, <1>8 DEF CheckBeforeExecute, Advance, Call
  <2> HIDE DEF new
  <2>2. x.instance \in InstancesOf(id)' /\ Linked(id)'
    BY <1>1, <1>2, <1>b, <2>1 DEF Handed, InstancesOf, RecordsFit
  <2>3. Handed(new)'
    BY <2>1, <2>2 DEF Handed
  <2> QED
    BY <1>a, <1>b, <2>1, <2>3
<1>9. CASE ExecuteWorkflow(c)
  <2> DEFINE new == [x EXCEPT !.pc = "confirm"]
  <2>1. /\ call' = [call EXCEPT ![c] = new]
        /\ new.pc = "confirm" /\ new.owner = id
        /\ new.instance = x.instance /\ x.pc = "execute"
        /\ UNCHANGED <<vars, job, resume>>
    BY <1>0, <1>1, <1>2, <1>9 DEF ExecuteWorkflow, Advance, Call
  <2> HIDE DEF new
  <2>2. x.instance \in InstancesOf(id) /\ x.instance \in DOMAIN instances /\ Linked(id)
    BY <1>1, <1>2, <2>1 DEF Handed, InstancesOf
  <2>3. \/ instances[x.instance].at = "start" /\ MoveInstance(x.instance, "wait")
        \/ UNCHANGED instances
    BY <1>0, <1>9 DEF ExecuteWorkflow
  <2>4. InstancesGrow
    BY <1>2, <2>2, <2>3, MovedOn, NothingMoves
  <2>5. x.instance \in InstancesOf(id)' /\ Linked(id)'
    BY <1>2, <2>1, <2>2, <2>4, NothingMoves, Lasting DEF RecordsFit
  <2>6. Handed(new)'
    BY <2>1, <2>5 DEF Handed
  <2> QED
    BY <1>a, <2>1, <2>4, <2>6, NothingMoves
<1>10. CASE ConfirmParked(c)
  <2> DEFINE new == [x EXCEPT !.pc = "enqueue", !.instance = 0]
  <2>1. /\ call' = [call EXCEPT ![c] = new]
        /\ new.pc = "enqueue" /\ new.owner = id /\ x.pc = "confirm"
        /\ OnlyCall(c) /\ Parked(x.instance)
    BY <1>0, <1>1, <1>2, <1>10 DEF ConfirmParked, AfterConfirm, Confirmed, Call
  <2> HIDE DEF new
  <2>2. HasLeft(id) /\ Linked(id)
    BY <1>1, <1>2, <2>1 DEF Handed, HasLeft, Parked
  <2>3. HasLeft(id)' /\ Linked(id)'
    BY <1>2, <1>b, <2>1, <2>2, Lasting DEF RecordsFit
  <2>4. Handed(new)'
    BY <2>1, <2>3 DEF Handed
  <2> QED
    BY <1>a, <1>b, <2>1, <2>4
<1>11. ASSUME NEW j \in Jobs, Enqueue(c, j)
       PROVE  HandoverInv'
  <2> DEFINE new == [x EXCEPT !.pc = "dispatch"]
             y == [pc |-> "queued", owner |-> id]
  <2>1. /\ call' = [call EXCEPT ![c] = new] /\ job' = [job EXCEPT ![j] = y]
        /\ new.pc = "dispatch" /\ new.owner = id /\ x.pc = "enqueue"
        /\ y.pc = "queued" /\ y.owner = id /\ job[j].pc = "unused"
        /\ UNCHANGED <<vars, instances, resume>>
    BY <1>0, <1>1, <1>2, <1>11 DEF Enqueue, Advance, Call
  <2> HIDE DEF new, y
  <2>2. job'[j] = y /\ \A n \in Jobs : n # j => job'[n] = job[n]
    BY <1>2, <2>1 DEF JobsOK
  <2>3. JobsGrow /\ InstancesGrow /\ RecordsFit
    BY <2>1, <2>2, NothingMoves DEF JobsGrow
  <2>4. HasLeft(id) /\ Linked(id)
    BY <1>1, <1>2, <2>1 DEF Handed
  <2>5. HasLeft(id)' /\ Linked(id)'
    BY <1>2, <2>1, <2>3, <2>4, Lasting DEF RecordsFit
  <2>6. Queued(id)'
    BY <2>1, <2>2 DEF Queued
  <2>7. Handed(new)' /\ Awaited(job[j])'
    BY <2>1, <2>2, <2>5, <2>6 DEF Handed, Awaited
  <2> QED
    BY <1>a, <2>1, <2>2, <2>3, <2>7
<1>12. CASE Dispatch(c)
  <2>1. /\ x.pc = "dispatch" /\ LinkWorkflow(id[1], id[2], OwnRef, TRUE)
        /\ call' = [call EXCEPT ![c] = IdleCall]
        /\ UNCHANGED <<job, instances, resume>>
    BY <1>0, <1>1, <1>12 DEF Dispatch
  <2>2. Queued(id)
    BY <1>1, <1>2, <2>1 DEF Handed
  <2>3. RecordsFit
    BY <1>2, <2>1, <2>2, LinkFits
  <2> QED
    BY <1>a, <1>c, <2>1, <2>3, NothingMoves
<1>13. CASE AbortCall(c)
  <2>1. call' = [call EXCEPT ![c] = IdleCall] /\ OnlyCall(c)
    BY <1>13 DEF AbortCall
  <2> QED
    BY <1>a, <1>b, <1>c, <2>1
<1> QED
  BY <1>3, <1>4, <1>5, <1>6, <1>7, <1>8, <1>9, <1>10, <1>11, <1>12, <1>13
     DEF BridgeStep

LEMMA JobHandover ==
  ASSUME ExecInv, HandoverInv, NEW j \in Jobs, JobStep(j)
  PROVE  HandoverInv'
<1>0. PICK id : id = job[j].owner
  OBVIOUS
<1>1. /\ job \in [Jobs -> Job] /\ BoardTyped
      /\ job[j].pc # "unused" => id \in AttemptIds /\ Registered(id)
  BY <1>0 DEF ExecInv, ActorsInv, JobsOK
\* A job moves on, with its attempt; so it keeps what it had.
<1>a. ASSUME NEW to, JobAt(j, to), to # "unused", job[j].pc # "unused",
             RecordsFit, UNCHANGED <<call, instances, resume>>
      PROVE  HandoverInv'
  <2>1. /\ job'[j].pc = to /\ job'[j].owner = id
        /\ \A n \in Jobs : n # j => job'[n] = job[n]
    BY <1>0, <1>1, <1>a DEF JobAt, Job
  <2>2. JobsGrow /\ InstancesGrow
    BY <1>0, <1>a, <2>1, NothingMoves DEF JobsGrow
  <2>3. Linked(id) /\ HasLeft(id)
    BY <1>0, <1>a DEF HandoverInv, Awaited
  <2>4. Linked(id)' /\ HasLeft(id)'
    BY <1>1, <1>a, <2>2, <2>3, Lasting DEF RecordsFit
  <2>5. Awaited(job[j])'
    BY <2>1, <2>4 DEF Awaited
  <2> QED
    BY <1>a, <2>1, <2>2, <2>5, HandoverStays
<1>2. CASE PackageFails(j) \/ CheckJob(j) \/ ExecutorFails(j) \/ ReadBack(j) \/ CrashJob(j)
  <2>1. RecordsFit /\ job[j].pc # "unused" /\ UNCHANGED <<call, instances, resume>>
    BY <1>2, NothingMoves
       DEF PackageFails, CheckJob, ExecutorFails, ReadBack, CrashJob, OnlyJob
  <2>2. PICK to \in {"queued", "ready", "failed", "accepting", "done"} : JobAt(j, to)
    BY <1>2 DEF PackageFails, CheckJob, ExecutorFails, ReadBack, CrashJob
  <2> QED
    BY <1>a, <2>1, <2>2
<1>3. CASE StartExecutor(j)
  BY <1>3, <1>a, NothingMoves DEF StartExecutor
<1>4. CASE ClaimJob(j)
  <2>1. job[j].pc = "queued" /\ UNCHANGED <<call, instances, resume>>
    BY <1>4 DEF ClaimJob
  <2>2. \/ Claim(id[1], id[2], j) /\ JobAt(j, "claimed")
        \/ UNCHANGED vars /\ JobAt(j, "done")
    BY <1>0, <1>4 DEF ClaimJob, Unclaimed
  <2>3. id[1] \in Tasks /\ id[2] \in DOMAIN attempts[id[1]]
    BY <1>1, <2>1 DEF AttemptIds, Registered
  <2>4. RecordsFit
    BY <1>1, <2>2, <2>3, QuietAttemptStep, KeptFits, NothingMoves DEF Jobs
  <2> QED
    BY <1>a, <2>1, <2>2, <2>4
<1>5. CASE ReconcileJob(j)
  <2>1. /\ job[j].pc = "failed" /\ JobAt(j, "done") /\ UNCHANGED <<call, instances, resume>>
        /\ ReconcileReleased(id[1], id[2], "stopped") \/ UNCHANGED vars
    BY <1>0, <1>5 DEF ReconcileJob
  <2>2. id[1] \in Tasks /\ id[2] \in DOMAIN attempts[id[1]]
    BY <1>1, <2>1 DEF AttemptIds, Registered
  <2>3. RecordsFit
    BY <1>1, <2>1, <2>2, QuietAttemptStep, KeptFits, NothingMoves DEF OperatorStep
  <2> QED
    BY <1>a, <2>1, <2>3
<1>6. CASE AcceptJob(j)
  <2>1. /\ job[j].pc = "accepting" /\ JobAt(j, "done") /\ UNCHANGED <<call, instances, resume>>
        /\ ResultStep(id[1], id[2]) \/ UNCHANGED vars
    BY <1>0, <1>6, ResultIsImported DEF AcceptJob
  <2>2. id[1] \in Tasks /\ id[2] \in DOMAIN attempts[id[1]]
    BY <1>1, <2>1 DEF AttemptIds, Registered
  <2>3. RecordsFit
    BY <1>1, <2>1, <2>2, QuietAttemptStep, KeptFits, NothingMoves
  <2> QED
    BY <1>a, <2>1, <2>3
<1> QED
  BY <1>2, <1>3, <1>4, <1>5, <1>6 DEF JobStep, JobProgress

\* A delivery is ticked off when a workflow has ended.
LEMMA TickFits ==
  ASSUME BoardTyped, NEW id \in AttemptIds, Registered(id),
         MarkDelivered(id[1], id[2]), Ended(id)
  PROVE  RecordsFit
<1>0. /\ id[1] \in Tasks /\ id[2] \in DOMAIN attempts[id[1]]
      /\ id = <<id[1], id[2]>> /\ Record(id) \in Attempt
  BY DEF AttemptIds, Registered, Record, BoardTyped, TypeInv, TypeOK
<1> DEFINE new == [Record(id) EXCEPT !.delivery = "delivered"]
<1>1. new \in Attempt /\ SetAttempt(id[1], id[2], new)
  BY <1>0, AttemptTypes DEF MarkDelivered, Record
<1>2. new.workflow = Record(id).workflow /\ new.dispatched = Record(id).dispatched
  BY <1>0 DEF Attempt
<1> HIDE DEF new
<1>3. Registered(id)' /\ Record(id)' = new
  BY <1>0, <1>1, RecordWritten
<1>4. ASSUME NEW n \in AttemptIds, n # id
      PROVE  /\ Registered(n)' <=> Registered(n)
             /\ Registered(n) => Record(n)' = Record(n)
  BY <1>0, <1>1, <1>4, RecordWritten
<1> QED
  BY <1>2, <1>3, <1>4 DEF RecordsFit, Linked, Ticked

LEMMA ResumeHandover ==
  ASSUME ExecInv, HandoverInv, NEW h \in Resumers, ResumeStep(h)
  PROVE  HandoverInv'
<1>0. PICK x \in Resume : x = resume[h]
  BY DEF ExecInv, ActorsInv, ResumesOK
<1>1. PICK id : id = x.owner
  OBVIOUS
<1>2. /\ resume \in [Resumers -> Resume] /\ BoardTyped /\ InstancesOK
      /\ x.pc # "idle" => id \in AttemptIds /\ Registered(id)
      /\ Told(x)
  BY <1>0, <1>1 DEF ExecInv, ActorsInv, ResumesOK, HandoverInv
<1>a. ASSUME NEW new, resume' = [resume EXCEPT ![h] = new], Told(new)',
             RecordsFit, InstancesGrow, UNCHANGED <<call, job>>
      PROVE  HandoverInv'
  <2>1. resume'[h] = new /\ \A n \in Resumers : n # h => resume'[n] = resume[n]
    BY <1>2, <1>a
  <2>2. Told(resume[h])'
    BY <1>a, <2>1 DEF Told
  <2> QED
    BY <1>a, <2>1, <2>2, HandoverStays, NothingMoves
<1>b. ASSUME OnlyResume(h)
      PROVE  RecordsFit /\ InstancesGrow /\ JobsGrow /\ UNCHANGED <<call, job, instances>>
  BY <1>b, NothingMoves DEF OnlyResume
<1>c. Told(IdleResume)'
  BY DEF Told, IdleResume
\* What the handler has seen to lasts.
<1>d. ASSUME InstancesGrow, UNCHANGED job
      PROVE  /\ InstancesOf(id) \subseteq InstancesOf(id)'
             /\ Ended(id) => Ended(id)'
  BY <1>d, Lasting, NothingMoves
<1>3. ASSUME NEW n \in AttemptIds, TakeWake(h, n)
      PROVE  HandoverInv'
  <2> DEFINE new == [IdleResume EXCEPT !.pc = "check", !.owner = n, !.tries = 1]
  <2>1. /\ resume' = [resume EXCEPT ![h] = new]
        /\ new.pc = "check" /\ new.found = {} /\ new.hit = FALSE
        /\ UNCHANGED <<vars, call, job, instances>>
    BY <1>3 DEF TakeWake, IdleResume
  <2> HIDE DEF new
  <2>2. Told(new)'
    BY <2>1 DEF Told
  <2> QED
    BY <1>a, <2>1, <2>2, NothingMoves
<1>4. CASE CheckWake(h)
  <2>1. PICK F : F = {i \in InstancesOf(id) : Parked(i)}
    OBVIOUS
  <2> DEFINE new == [x EXCEPT !.pc = "signal", !.found = F]
  <2>2. /\ new.pc = "signal" /\ new.found = F /\ new.owner = id /\ new.hit = x.hit
        /\ OnlyResume(h)
        /\ \/ resume' = [resume EXCEPT ![h] = new]
           \/ resume' = [resume EXCEPT ![h] = IdleResume]
    BY <1>0, <1>1, <1>2, <1>4, <2>1 DEF CheckWake, Resume
  <2> HIDE DEF new
  <2>3. F \subseteq InstancesOf(id)' /\ (x.hit => Ended(id)')
    BY <1>1, <1>2, <1>b, <1>d, <2>1, <2>2 DEF Told
  <2>4. Told(new)'
    BY <2>2, <2>3 DEF Told
  <2> QED
    BY <1>a, <1>b, <1>c, <2>2, <2>4
<1>5. ASSUME NEW i \in DOMAIN instances, CheckSignal(h, i)
      PROVE  HandoverInv'
  <2> DEFINE go == [x EXCEPT !.pc = "flush", !.target = i]
             no == [x EXCEPT !.found = x.found \ {i}]
  <2>1. /\ go.pc = "flush" /\ go.target = i /\ go.owner = id /\ go.hit = x.hit
        /\ go.found = x.found
        /\ no.pc = "signal" /\ no.found = x.found \ {i} /\ no.owner = id /\ no.hit = x.hit
        /\ OnlyResume(h) /\ i \in x.found
        /\ \/ resume' = [resume EXCEPT ![h] = go]
           \/ resume' = [resume EXCEPT ![h] = no]
    BY <1>0, <1>1, <1>2, <1>5 DEF CheckSignal, Resume
  <2> HIDE DEF go, no
  <2>2. x.found \subseteq InstancesOf(id)' /\ (x.hit => Ended(id)')
    BY <1>1, <1>2, <1>b, <1>d, <2>1 DEF Told
  <2>3. Told(go)' /\ Told(no)'
    BY <2>1, <2>2 DEF Told
  <2> QED
    BY <1>a, <1>b, <2>1, <2>3
<1>6. CASE FlushSignal(h)
  <2> DEFINE new == [x EXCEPT !.pc = "advance"]
  <2>1. /\ new.pc = "advance" /\ new.owner = id /\ new.hit = x.hit
        /\ new.found = x.found /\ new.target = x.target /\ x.pc = "flush"
        /\ resume' = [resume EXCEPT ![h] = new]
        /\ MoveInstance(x.target, IF instances[x.target].at = "end" THEN "end" ELSE "leaving")
        /\ UNCHANGED <<vars, call, job>>
    BY <1>0, <1>1, <1>2, <1>6 DEF FlushSignal, Resume
  <2> HIDE DEF new
  <2>2. x.target \in InstancesOf(id) /\ x.target \in DOMAIN instances
    BY <1>1, <1>2, <2>1 DEF Told, InstancesOf
  <2>3. InstancesGrow
    BY <1>2, <2>1, <2>2, MovedOn
  <2>4. /\ x.found \subseteq InstancesOf(id)' /\ x.target \in InstancesOf(id)'
        /\ x.hit => Ended(id)'
    BY <1>1, <1>2, <1>d, <2>1, <2>2, <2>3 DEF Told
  <2>5. Told(new)'
    BY <2>1, <2>4 DEF Told
  <2> QED
    BY <1>a, <2>1, <2>3, <2>5, NothingMoves
<1>7. CASE FinishSignal(h)
  <2>1. PICK hit \in BOOLEAN :
          /\ SignalDone(h, hit)
          /\ \/ MoveInstance(x.target, "end")
             \/ ~hit /\ UNCHANGED instances
    BY <1>0, <1>7, Zenon DEF FinishSignal
  <2> DEFINE new == [x EXCEPT !.pc = "signal", !.found = x.found \ {x.target},
                              !.target = 0, !.hit = x.hit \/ hit]
  <2>2. /\ new.pc = "signal" /\ new.owner = id /\ new.hit = (x.hit \/ hit)
        /\ new.found = x.found \ {x.target} /\ x.pc = "advance"
        /\ UNCHANGED <<vars, call, job>>
    BY <1>0, <1>1, <1>2, <1>7 DEF FinishSignal, Resume
  <2>3. resume' = [resume EXCEPT ![h] = new]
    BY <1>0, <2>1, Zenon DEF SignalDone
  <2> HIDE DEF new
  <2>4. x.target \in InstancesOf(id) /\ x.target \in DOMAIN instances
    BY <1>1, <1>2, <2>2 DEF Told, InstancesOf
  <2>5. InstancesGrow /\ (hit => instances'[x.target].at = "end")
    BY <1>2, <2>1, <2>4, MovedOn, NothingMoves
  <2>6. x.found \subseteq InstancesOf(id)' /\ x.target \in InstancesOf(id)'
    BY <1>1, <1>2, <1>d, <2>2, <2>4, <2>5 DEF Told
  <2>7. x.hit \/ hit => Ended(id)'
    BY <1>1, <1>2, <1>d, <2>2, <2>5, <2>6 DEF Told, Ended
  <2>8. Told(new)'
    BY <2>2, <2>6, <2>7 DEF Told
  <2> QED
    BY <1>a, <2>2, <2>3, <2>5, <2>8, NothingMoves
<1>8. CASE EndSignal(h)
  <2>1. PICK to \in {"mark", "check", "look"}, n \in Nat :
          /\ resume' = [resume EXCEPT ![h] = [x EXCEPT !.pc = to, !.tries = n]]
          /\ to = "mark" => x.hit
    <3>1. \A to \in {"mark", "look"} :
            [x EXCEPT !.pc = to] = [x EXCEPT !.pc = to, !.tries = x.tries]
      BY DEF Resume
    <3>2. \/ x.hit /\ resume' = [resume EXCEPT ![h] = [x EXCEPT !.pc = "mark"]]
          \/ resume' = [resume EXCEPT ![h] = [x EXCEPT !.pc = "look"]]
          \/ resume' = [resume EXCEPT ![h] = [x EXCEPT !.pc = "check", !.tries = x.tries + 1]]
      BY <1>0, <1>8 DEF EndSignal
    <3>3. x.tries \in Nat /\ x.tries + 1 \in Nat
      BY <1>1, ExecutionAssumption DEF Resume
    <3> QED
      BY <3>1, <3>2, <3>3
  <2> DEFINE new == [x EXCEPT !.pc = to, !.tries = n]
  <2>2. /\ new.pc = to /\ new.owner = id /\ new.hit = x.hit /\ new.found = x.found
        /\ OnlyResume(h)
    BY <1>0, <1>1, <1>8 DEF EndSignal, Resume
  <2>3. resume' = [resume EXCEPT ![h] = new]
    BY <2>1
  <2> HIDE DEF new
  <2>4. x.found \subseteq InstancesOf(id)' /\ (x.hit => Ended(id)')
    BY <1>1, <1>2, <1>b, <1>d, <2>2 DEF Told
  <2>5. Told(new)'
    BY <2>1, <2>2, <2>4 DEF Told
  <2> QED
    BY <1>a, <1>b, <2>2, <2>3, <2>5
<1>9. CASE LookAtWorkflow(h)
  <2> DEFINE new == [x EXCEPT !.pc = "mark"]
  <2>1. /\ new.pc = "mark" /\ new.owner = id /\ new.hit = x.hit /\ new.found = x.found
        /\ OnlyResume(h)
        /\ \/ resume' = [resume EXCEPT ![h] = new] /\ \E i \in InstancesOf(id) : LeftWait(i)
           \/ resume' = [resume EXCEPT ![h] = IdleResume]
    BY <1>0, <1>1, <1>2, <1>9 DEF LookAtWorkflow, Resume
  <2> HIDE DEF new
  <2>2. CASE resume' = [resume EXCEPT ![h] = IdleResume]
    BY <1>a, <1>b, <1>c, <2>1, <2>2
  <2>3. CASE resume' = [resume EXCEPT ![h] = new] /\ \E i \in InstancesOf(id) : LeftWait(i)
    <3>1. Ended(id)' /\ x.found \subseteq InstancesOf(id)'
      BY <1>1, <1>2, <1>b, <1>d, <2>1, <2>3 DEF Told, Ended, LeftWait
    <3>2. Told(new)'
      BY <2>1, <3>1 DEF Told
    <3> QED
      BY <1>a, <1>b, <2>1, <2>3, <3>2
  <2> QED
    BY <2>1, <2>2, <2>3
<1>10. CASE MarkWake(h)
  <2>1. /\ x.pc = "mark" /\ resume' = [resume EXCEPT ![h] = IdleResume]
        /\ MarkDelivered(id[1], id[2]) \/ UNCHANGED vars
        /\ UNCHANGED <<call, job, instances>>
    BY <1>0, <1>1, <1>10 DEF MarkWake
  <2>2. Ended(id)
    BY <1>1, <1>2, <2>1 DEF Told
  <2>3. RecordsFit
    BY <1>2, <2>1, <2>2, TickFits, NothingMoves
  <2> QED
    BY <1>a, <1>c, <2>1, <2>3, NothingMoves
<1>11. CASE CrashResume(h)
  BY <1>a, <1>c, <1>11, NothingMoves DEF CrashResume
<1> QED
  BY <1>3, <1>4, <1>5, <1>6, <1>7, <1>8, <1>9, <1>10, <1>11
     DEF ResumeStep, ResumeProgress

-----------------------------------------------------------------------------
(* The invariant holds, and its consequences.                              *)

LEMMA HandoverAtStart ==
  ASSUME ExecInit
  PROVE  HandoverInv
<1>1. \A id \in AttemptIds : ~Registered(id)
  BY DEF ExecInit, Init, Registered, AttemptIds
<1>2. MarksTrue
  BY <1>1 DEF MarksTrue
<1>3. Handed(IdleCall) /\ Told(IdleResume)
  BY DEF Handed, Told, IdleCall, IdleResume
<1>4. \A j \in Jobs : Awaited(job[j])
  BY DEF ExecInit, Awaited
<1>5. /\ \A c \in Callers : call[c] = IdleCall
      /\ \A h \in Resumers : resume[h] = IdleResume
  BY DEF ExecInit
<1> QED
  BY <1>2, <1>3, <1>4, <1>5 DEF HandoverInv

LEMMA HandoverKept ==
  ASSUME ExecInv, HandoverInv, [ExecNext]_allVars
  PROVE  HandoverInv'
<1>1. CASE UNCHANGED allVars
  BY <1>1, HandoverStays, NothingMoves DEF allVars, execVars
<1>2. CASE ExecNext
  BY <1>2, PeopleHandover, BridgeHandover, JobHandover, ResumeHandover DEF ExecNext
<1> QED
  BY <1>1, <1>2

LEMMA HandoverAlways == ExecSpec => []HandoverInv
<1>1. ExecInit => HandoverInv
  BY HandoverAtStart
<1>2. ExecInv /\ HandoverInv /\ [ExecNext]_allVars => HandoverInv'
  BY HandoverKept
<1> QED
  BY <1>1, <1>2, ExecInvHolds, PTL DEF ExecSpec

\* Whenever a job is queued, its attempt is linked to a workflow that has
\* parked, wherever calls of the bridge break off and repeat.
THEOREM JobsAreAwaited == ExecSpec => []QueuedWorkIsAwaited
<1>1. HandoverInv => QueuedWorkIsAwaited
  BY DEF HandoverInv, Awaited, Linked, HasLeft, QueuedWorkIsAwaited
<1> QED
  BY <1>1, HandoverAlways, PTL

\* The dispatch mark never runs ahead of the job.
THEOREM DispatchedHasJob == ExecSpec => []DispatchedMeansQueued
<1>1. HandoverInv => DispatchedMeansQueued
  BY DEF HandoverInv, MarksTrue, Registered, Queued, DispatchedMeansQueued
<1> QED
  BY <1>1, HandoverAlways, PTL

\* A delivery that is ticked off has reached a workflow, however handlers
\* race or die around the signal.
THEOREM DeliveredHasResumed == ExecSpec => []DeliveredMeansResumed
<1>1. HandoverInv => DeliveredMeansResumed
  BY DEF HandoverInv, MarksTrue, Registered, Ticked, Ended, DeliveredMeansResumed
<1> QED
  BY <1>1, HandoverAlways, PTL

-----------------------------------------------------------------------------
(* What holds of the board holds of automatic execution.                   *)

\* However requests, workers, workflows, scans and crashes interleave, the
\* register, the results and the dependency graph of the board stay sound.
THEOREM ExecutionKeepsBoard ==
  ExecSpec => [](/\ RegisterMatchesStatus /\ NoLateResult /\ DeliveryOwed
                 /\ ResultsMatchRegister /\ OneResultPerRound /\ GraphIsSound)
BY ExecutionUsesBoard, RegisterAgrees, LateResultsAreOut, ResultsAreOwed,
   EvidenceMatchesRegister, ResultsAreReviewed, GraphStaysSound, PTL

\* The same of what a step of the board may never do, its promise included.
THEOREM ExecutionKeepsPromise ==
  ExecSpec => /\ KeepsPromise /\ DoneIsForever /\ EntersWorkThroughGate
              /\ EscalationIsFinal /\ ReturnedWorkCanRestart
              /\ VerifiedOnNewestResult /\ BlockReachesAll /\ FreedIsFree
BY ExecutionUsesBoard, BoardKeepsPromise, FinishedStays, GateIsAlwaysAsked,
   EscalationStays, ReturnedCanRestart, VerifiedOnProof, BlocksReachAll, FreedAreFree

-----------------------------------------------------------------------------
(* HandoverPromise is implemented.  The stages an attempt has reached, read *)
(* off the register, the queue, the instances and the starts.              *)

RegisterStages == {"linked", "dispatched", "claimed", "answered", "delivered"}
InstanceStages == {"parked", "told"}

LEMMA StagesAre ==
  Handover!Stages = RegisterStages \cup InstanceStages \cup {"queued", "started"}
BY DEF Handover!Stages, Handover!Before, RegisterStages, InstanceStages

LEMMA MarksAre ==
  ASSUME NEW rec, NEW s
  PROVE  s \in Marks(rec) <=>
           \/ s = "linked" /\ rec.workflow # None
           \/ s = "dispatched" /\ rec.dispatched
           \/ s = "claimed" /\ rec.worker # None
           \/ s = "answered" /\ rec.result
           \/ s = "delivered" /\ rec.delivery = "delivered"
BY DEF Marks, Stage

LEMMA ReachedAre ==
  ASSUME NEW id, NEW s
  PROVE  s \in Reached(id) <=>
           \/ Registered(id) /\ s \in Marks(Record(id))
           \/ s = "queued" /\ Queued(id)
           \/ s = "started" /\ starts[id] > 0
           \/ s = "parked" /\ HasLeft(id)
           \/ s = "told" /\ Ended(id)
<1> DEFINE places == {instances[i].at : i \in InstancesOf(id)}
<1>1. /\ places \ {"start"} # {} <=> HasLeft(id)
      /\ "end" \in places <=> Ended(id)
  BY DEF HasLeft, Ended
<1>2. Reached(id) =
        UNION {IF Registered(id) THEN Marks(Record(id)) ELSE {},
               Stage("queued", Queued(id)), Stage("started", starts[id] > 0),
               Stage("parked", places \ {"start"} # {}), Stage("told", "end" \in places)}
  BY DEF Reached, Registered, Queued
<1> HIDE DEF places
<1> QED
  BY <1>1, <1>2 DEF Stage

LEMMA ReachedNext ==
  ASSUME NEW id, NEW s
  PROVE  s \in Reached(id)' <=>
           \/ Registered(id)' /\ s \in Marks(Record(id)')
           \/ s = "queued" /\ Queued(id)'
           \/ s = "started" /\ starts'[id] > 0
           \/ s = "parked" /\ HasLeft(id)'
           \/ s = "told" /\ Ended(id)'
<1> DEFINE places == {instances'[i].at : i \in InstancesOf(id)'}
<1>1. /\ places \ {"start"} # {} <=> HasLeft(id)'
      /\ "end" \in places <=> Ended(id)'
  BY DEF HasLeft, Ended
<1>2. Reached(id)' =
        UNION {IF Registered(id)' THEN Marks(Record(id)') ELSE {},
               Stage("queued", Queued(id)'), Stage("started", starts'[id] > 0),
               Stage("parked", places \ {"start"} # {}), Stage("told", "end" \in places)}
  BY DEF Reached, Registered, Queued, Marks, Stage, InstancesOf, Record
<1> HIDE DEF places
<1> QED
  BY <1>1, <1>2 DEF Stage

\* What of the state a stage depends on.
LEMMA StageOf ==
  ASSUME NEW id
  PROVE  /\ \A s \in RegisterStages :
              s \in Reached(id) <=> Registered(id) /\ s \in Marks(Record(id))
         /\ "queued" \in Reached(id) <=> Queued(id)
         /\ "started" \in Reached(id) <=> starts[id] > 0
         /\ "parked" \in Reached(id) <=> HasLeft(id)
         /\ "told" \in Reached(id) <=> Ended(id)
         /\ Reached(id) \subseteq Handover!Stages
<1>1. \A s : s \in Marks(Record(id)) => s \in RegisterStages
  BY MarksAre DEF RegisterStages
<1>2. \A s \in RegisterStages : s \notin {"queued", "started", "parked", "told"}
  BY DEF RegisterStages
<1>3. \A s : s \in Reached(id) =>
         s \in RegisterStages \/ s \in {"queued", "started", "parked", "told"}
  BY <1>1, ReachedAre
<1>4. Reached(id) \subseteq Handover!Stages
  BY <1>3, StagesAre DEF InstanceStages
<1> QED
  BY <1>1, <1>2, <1>4, ReachedAre

LEMMA StageNext ==
  ASSUME NEW id
  PROVE  /\ \A s \in RegisterStages :
              s \in Reached(id)' <=> Registered(id)' /\ s \in Marks(Record(id)')
         /\ "queued" \in Reached(id)' <=> Queued(id)'
         /\ "started" \in Reached(id)' <=> starts'[id] > 0
         /\ "parked" \in Reached(id)' <=> HasLeft(id)'
         /\ "told" \in Reached(id)' <=> Ended(id)'
         /\ Reached(id)' \subseteq Handover!Stages
<1>1. \A s : s \in Marks(Record(id)') => s \in RegisterStages
  BY MarksAre DEF RegisterStages
<1>2. \A s \in RegisterStages : s \notin {"queued", "started", "parked", "told"}
  BY DEF RegisterStages
<1>3. \A s : s \in Reached(id)' =>
         s \in RegisterStages \/ s \in {"queued", "started", "parked", "told"}
  BY <1>1, ReachedNext
<1>4. Reached(id)' \subseteq Handover!Stages
  BY <1>3, StagesAre DEF InstanceStages
<1> QED
  BY <1>1, <1>2, <1>4, ReachedNext

-----------------------------------------------------------------------------
(* Steps of the promise.                                                   *)

AllReached == [id \in AttemptIds |-> Reached(id)]

HandoverStep == [Handover!Next]_AllReached

\* Some stages are where they were, for every attempt.
Same(S) == \A id \in AttemptIds, s \in S : s \in Reached(id)' <=> s \in Reached(id)

LEMMA NothingReached ==
  /\ attempts' = attempts => Same(RegisterStages)
  /\ instances' = instances => Same(InstanceStages)
  /\ job' = job => Same({"queued"})
  /\ starts' = starts => Same({"started"})
<1> SUFFICES ASSUME NEW id \in AttemptIds
             PROVE  /\ attempts' = attempts =>
                         \A s \in RegisterStages : s \in Reached(id)' <=> s \in Reached(id)
                    /\ instances' = instances =>
                         \A s \in InstanceStages : s \in Reached(id)' <=> s \in Reached(id)
                    /\ job' = job => ("queued" \in Reached(id)' <=> "queued" \in Reached(id))
                    /\ starts' = starts => ("started" \in Reached(id)' <=> "started" \in Reached(id))
  BY DEF Same
<1>1. attempts' = attempts => /\ Registered(id)' <=> Registered(id)
                              /\ Record(id)' = Record(id)
  BY DEF Registered, Record
<1>2. instances' = instances => (HasLeft(id)' <=> HasLeft(id)) /\ (Ended(id)' <=> Ended(id))
  BY DEF HasLeft, Ended, InstancesOf
<1>3. job' = job => (Queued(id)' <=> Queued(id))
  BY DEF Queued
<1> QED
  BY <1>1, <1>2, <1>3, StageOf, StageNext DEF InstanceStages

\* One attempt gets one stage further, or none.
LEMMA OneStage ==
  ASSUME NEW id \in AttemptIds, NEW s \in Handover!Stages,
         \A n \in AttemptIds, f \in Handover!Stages :
           n # id \/ f # s => (f \in Reached(n)' <=> f \in Reached(n)),
         s \in Reached(id) => s \in Reached(id)',
         s \in Reached(id)' \ Reached(id) =>
           /\ Handover!Before[s] \subseteq Reached(id)
           /\ s \in Handover!Preparations => "answered" \notin Reached(id)
  PROVE  HandoverStep
<1>1. \A n : Reached(n) \subseteq Handover!Stages /\ Reached(n)' \subseteq Handover!Stages
  BY StageOf, StageNext
<1>2. \A n \in AttemptIds : n # id => Reached(n)' = Reached(n)
  BY <1>1
<1>3. CASE s \in Reached(id) \/ s \notin Reached(id)'
  <2>1. Reached(id)' = Reached(id)
    BY <1>1, <1>3
  <2>2. AllReached' = AllReached
    BY <1>2, <2>1 DEF AllReached
  <2> QED
    BY <2>2 DEF HandoverStep
<1>4. CASE s \notin Reached(id) /\ s \in Reached(id)'
  <2>1. Reached(id)' = Reached(id) \cup {s}
    BY <1>1, <1>4
  <2>2. s \in Handover!Following(Reached(id))
    BY <1>4 DEF Handover!Following
  <2>3. Handover!Further(Reached(id), Reached(id)')
    BY <2>1, <2>2 DEF Handover!Further
  <2>4. AllReached[id] = Reached(id) /\ AllReached'[id] = Reached(id)'
    BY DEF AllReached
  <2>5. AllReached' = [AllReached EXCEPT ![id] = AllReached'[id]]
    BY <1>2, <2>4 DEF AllReached
  <2>6. Handover!Next
    BY <2>3, <2>4, <2>5 DEF Handover!Next, AllReached
  <2> QED
    BY <2>6 DEF HandoverStep
<1> QED
  BY <1>3, <1>4

LEMMA NoStage ==
  ASSUME Same(RegisterStages), Same(InstanceStages), Same({"queued"}), Same({"started"})
  PROVE  HandoverStep
<1>1. \A n \in AttemptIds, f \in Handover!Stages : f \in Reached(n)' <=> f \in Reached(n)
  BY StagesAre DEF Same
<1>2. \A n : Reached(n) \subseteq Handover!Stages /\ Reached(n)' \subseteq Handover!Stages
  BY StageOf, StageNext
<1>3. \A n \in AttemptIds : Reached(n)' = Reached(n)
  BY <1>1, <1>2
<1>4. AllReached' = AllReached
  BY <1>3 DEF AllReached
<1> QED
  BY <1>4 DEF HandoverStep

\* The row of one attempt is written over, and gives it one mark or none.
LEMMA OneMark ==
  ASSUME BoardTyped, NEW id \in AttemptIds, Registered(id), NEW new \in Attempt,
         SetAttempt(id[1], id[2], new), NEW s \in RegisterStages,
         \A f \in RegisterStages \ {s} : f \in Marks(new) <=> f \in Marks(Record(id)),
         s \in Marks(Record(id)) => s \in Marks(new),
         s \in Marks(new) \ Marks(Record(id)) =>
           /\ Handover!Before[s] \subseteq Reached(id)
           /\ s \in Handover!Preparations => "answered" \notin Marks(Record(id)),
         Same(InstanceStages), Same({"queued"}), Same({"started"})
  PROVE  HandoverStep
<1>0. id[1] \in Tasks /\ id[2] \in DOMAIN attempts[id[1]] /\ id = <<id[1], id[2]>>
  BY DEF AttemptIds, Registered
<1>1. /\ Registered(id)' /\ Record(id)' = new
      /\ \A n \in AttemptIds : n # id =>
           /\ Registered(n)' <=> Registered(n)
           /\ Registered(n) => Record(n)' = Record(n)
  BY <1>0, RecordWritten DEF Registered
<1>2. \A n \in AttemptIds, f \in RegisterStages :
        n # id \/ f # s => (f \in Reached(n)' <=> f \in Reached(n))
  BY <1>1, StageOf, StageNext
<1>3. \A n \in AttemptIds, f \in InstanceStages \cup {"queued", "started"} :
        f \in Reached(n)' <=> f \in Reached(n)
  BY DEF Same
<1>4. s \in Handover!Stages /\ "answered" \in RegisterStages
  BY StagesAre DEF RegisterStages
<1>5. /\ s \in Reached(id) <=> s \in Marks(Record(id))
      /\ s \in Reached(id)' <=> s \in Marks(new)
      /\ "answered" \in Reached(id) <=> "answered" \in Marks(Record(id))
  BY <1>1, <1>4, StageOf, StageNext
<1>6. \A n \in AttemptIds, f \in Handover!Stages :
        n # id \/ f # s => (f \in Reached(n)' <=> f \in Reached(n))
  BY <1>2, <1>3, StagesAre
<1> QED
  BY <1>4, <1>5, <1>6, OneStage

LEMMA NoMark ==
  ASSUME BoardTyped, NEW id \in AttemptIds, Registered(id), NEW new \in Attempt,
         SetAttempt(id[1], id[2], new),
         new.workflow = Record(id).workflow, new.dispatched = Record(id).dispatched,
         new.worker = Record(id).worker, new.result = Record(id).result,
         new.delivery = Record(id).delivery,
         Same(InstanceStages), Same({"queued"}), Same({"started"})
  PROVE  HandoverStep
<1>1. \A f : f \in Marks(new) <=> f \in Marks(Record(id))
  BY MarksAre
<1>2. "answered" \in RegisterStages
  BY DEF RegisterStages
<1> QED
  BY <1>1, <1>2, OneMark

\* A new reservation has no marks yet.
LEMMA ReserveReaches ==
  ASSUME BoardTyped, NEW t \in Tasks, NEW k \in Keys, Reserve(t, k)
  PROVE  Same(RegisterStages)
<1>1. attempts \in [Tasks -> Seq(Attempt)]
  BY DEF BoardTyped, TypeInv, TypeOK
<1> DEFINE s == attempts[t]  x == NewAttempt(k)
<1>2. \A f : f \notin Marks(x)
  BY MarksAre DEF NewAttempt, None
<1>3. s \in Seq(Attempt) /\ attempts' = [attempts EXCEPT ![t] = Append(s, x)]
  BY <1>1 DEF Reserve
<1> HIDE DEF s, x
<1>4. /\ DOMAIN s = 1..Len(s) /\ DOMAIN Append(s, x) = 1..(Len(s) + 1)
      /\ Append(s, x)[Len(s) + 1] = x
      /\ \A a \in 1..Len(s) : Append(s, x)[a] = s[a]
      /\ Len(s) \in Nat
  BY <1>3
<1> SUFFICES ASSUME NEW id \in AttemptIds, NEW f \in RegisterStages
             PROVE  f \in Reached(id)' <=> f \in Reached(id)
  BY DEF Same
<1>5. id[1] \in Tasks
  BY DEF AttemptIds
<1>6. CASE id[1] = t
  <2>1. attempts'[id[1]] = Append(s, x) /\ attempts[id[1]] = s
    BY <1>1, <1>3, <1>6 DEF s
  <2>2. id[2] \in DOMAIN Append(s, x) <=> id[2] \in DOMAIN s \/ id[2] = Len(s) + 1
    BY <1>4
  <2>3. id[2] \in DOMAIN s => Append(s, x)[id[2]] = s[id[2]]
    BY <1>4
  <2>4. Registered(id)' /\ f \in Marks(Record(id)') <=>
          Registered(id) /\ f \in Marks(Record(id))
    BY <1>2, <1>4, <2>1, <2>2, <2>3 DEF Registered, Record
  <2> QED
    BY <2>4, StageOf, StageNext
<1>7. CASE id[1] # t
  <2>1. attempts'[id[1]] = attempts[id[1]]
    BY <1>1, <1>3, <1>5, <1>7
  <2>2. (Registered(id)' <=> Registered(id)) /\ Record(id)' = Record(id)
    BY <2>1 DEF Registered, Record
  <2> QED
    BY <2>2, StageOf, StageNext
<1> QED
  BY <1>6, <1>7

\* A job that moves on stays in the queue.
LEMMA JobStaysQueued ==
  ASSUME NEW j \in Jobs, NEW to, job \in [Jobs -> Job], JobAt(j, to),
         to # "unused", job[j].pc # "unused"
  PROVE  Same({"queued"})
<1>1. /\ job'[j].pc = to /\ job'[j].owner = job[j].owner
      /\ \A n \in Jobs : n # j => job'[n] = job[n]
  BY DEF JobAt, Job
<1>2. \A id : Queued(id)' <=> Queued(id)
  BY <1>1 DEF Queued
<1> QED
  BY <1>2, StageOf, StageNext DEF Same

\* An instance that moves can bring only its own attempt further.
LEMMA InstanceReaches ==
  ASSUME InstancesOK, NEW i \in DOMAIN instances, NEW id, i \in InstancesOf(id),
         NEW to \in {"wait", "leaving", "end"}, MoveInstance(i, to),
         instances[i].at = "end" => to = "end"
  PROVE  /\ \A n : n # id => /\ HasLeft(n)' <=> HasLeft(n)
                             /\ Ended(n)' <=> Ended(n)
         /\ HasLeft(id)'
         /\ to # "end" => (Ended(id)' <=> Ended(id))
         /\ to = "end" => Ended(id)'
<1>1. /\ \A n : InstancesOf(n)' = InstancesOf(n)
      /\ instances'[i].at = to
      /\ \A n \in DOMAIN instances : n # i => instances'[n] = instances[n]
  <2>1. instances[i] \in Instance
    BY DEF InstancesOK
  <2> DEFINE new == [instances[i] EXCEPT !.at = to]
  <2>2. new.at = to /\ new.owner = instances[i].owner
    BY <2>1 DEF Instance
  <2>3. instances' = [instances EXCEPT ![i] = new]
    BY DEF MoveInstance
  <2> HIDE DEF new
  <2>4. /\ DOMAIN instances' = DOMAIN instances /\ instances'[i] = new
        /\ \A n \in DOMAIN instances : n # i => instances'[n] = instances[n]
    BY <2>3
  <2>5. \A n : InstancesOf(n)' = InstancesOf(n)
    BY <2>2, <2>4 DEF InstancesOf
  <2> QED
    BY <2>2, <2>4, <2>5
<1>2. i \in InstancesOf(id) /\ i \in DOMAIN instances /\ \A n : n # id => i \notin InstancesOf(n)
  BY DEF InstancesOf
<1>3. \A n : InstancesOf(n) \subseteq DOMAIN instances
  BY DEF InstancesOf
<1> QED
  BY <1>1, <1>2, <1>3 DEF HasLeft, Ended

-----------------------------------------------------------------------------
(* Every step of automatic execution is one of the promise, actor by actor. *)

LEMMA RecordIs ==
  ASSUME RegisterInv, NEW id \in AttemptIds, Registered(id)
  PROVE  /\ id[1] \in Tasks /\ id[2] \in DOMAIN attempts[id[1]]
         /\ id = <<id[1], id[2]>> /\ Record(id) = attempts[id[1]][id[2]]
         /\ Record(id) \in Attempt /\ AttemptOK(Record(id))
         /\ Record(id).state \in {"reserved", "claimed"} => ~Record(id).result
BY DEF AttemptIds, Registered, Record, RegisterInv, TypeInv, TypeOK, TaskFits, AttemptsFit,
       AttemptOK

LEMMA OperatorReaches ==
  ASSUME BoardTyped, RegisterInv, NEW t \in Tasks, NEW a \in DOMAIN attempts[t],
         OperatorStep(t, a), Same(InstanceStages), Same({"queued"}), Same({"started"})
  PROVE  HandoverStep
<1>0. PICK id : id = <<t, a>>
  OBVIOUS
<1>1. id \in AttemptIds /\ Registered(id) /\ id[1] = t /\ id[2] = a
  BY <1>0, NamesOfAttempts
<1>2. PICK rec \in Attempt : rec = attempts[t][a] /\ rec = Record(id)
  BY <1>1, RecordIs
<1>a. ASSUME NEW new \in Attempt, SetAttempt(t, a, new),
             new.workflow = rec.workflow, new.dispatched = rec.dispatched,
             new.worker = rec.worker, new.result = rec.result, new.delivery = rec.delivery
      PROVE  HandoverStep
  BY <1>1, <1>2, <1>a, NoMark
<1>3. CASE Cancel(t, a)
  <2> DEFINE new == [rec EXCEPT !.state = "cancel_requested", !.cancelAsked = TRUE]
  <2>1. new \in Attempt /\ SetAttempt(t, a, new)
    BY <1>2, <1>3, AttemptTypes DEF Cancel
  <2>2. /\ new.workflow = rec.workflow /\ new.dispatched = rec.dispatched
        /\ new.worker = rec.worker /\ new.result = rec.result /\ new.delivery = rec.delivery
    BY <1>2 DEF Attempt
  <2> QED
    BY <1>a, <2>1, <2>2
<1>4. ASSUME NEW res \in {"not_started", "stopped"}, ReconcileReleased(t, a, res)
      PROVE  HandoverStep
  <2> DEFINE new == [rec EXCEPT !.state = "closed", !.resolution = res,
                       !.outcome = IF rec.cancelAsked THEN "cancelled" ELSE res]
  <2>1. new \in Attempt /\ SetAttempt(t, a, new)
    BY <1>2, <1>4, AttemptTypes DEF ReconcileReleased
  <2>2. /\ new.workflow = rec.workflow /\ new.dispatched = rec.dispatched
        /\ new.worker = rec.worker /\ new.result = rec.result /\ new.delivery = rec.delivery
    BY <1>2 DEF Attempt
  <2> QED
    BY <1>a, <2>1, <2>2
<1>5. CASE ReconcileUnknown(t, a)
  <2> DEFINE new == [rec EXCEPT !.state = "reconciliation_required",
                                !.resolution = "unknown"]
  <2>1. new \in Attempt /\ SetAttempt(t, a, new)
    BY <1>2, <1>5, AttemptTypes DEF ReconcileUnknown
  <2>2. /\ new.workflow = rec.workflow /\ new.dispatched = rec.dispatched
        /\ new.worker = rec.worker /\ new.result = rec.result /\ new.delivery = rec.delivery
    BY <1>2 DEF Attempt
  <2> QED
    BY <1>a, <2>1, <2>2
<1> QED
  BY <1>3, <1>4, <1>5 DEF OperatorStep

\* A result answers the attempt, and only one that has none is accepted.
LEMMA ResultReaches ==
  ASSUME BoardTyped, RegisterInv, NEW t \in Tasks, NEW a \in DOMAIN attempts[t],
         ResultStep(t, a), Same(InstanceStages), Same({"queued"}), Same({"started"})
  PROVE  HandoverStep
<1>0. PICK id : id = <<t, a>>
  OBVIOUS
<1>1. id \in AttemptIds /\ Registered(id) /\ id[1] = t /\ id[2] = a
  BY <1>0, NamesOfAttempts
<1>2. PICK rec \in Attempt : rec = attempts[t][a] /\ rec = Record(id) /\ AttemptOK(rec)
  BY <1>1, RecordIs
<1>3. PICK old \in Attempt :
        /\ AcceptsResult(old) /\ SetAttempt(t, a, WithResult(old))
        /\ old.workflow = rec.workflow /\ old.dispatched = rec.dispatched
        /\ old.worker = rec.worker /\ old.state = rec.state
  <2>1. ASSUME NEW r \in Revisions, NEW o \in Reports, AcceptResult(t, a, r, o)
        PROVE  AcceptsResult(rec) /\ SetAttempt(t, a, WithResult(rec))
    BY <1>2, <2>1 DEF AcceptResult, StoreResult
  <2> DEFINE other == [rec EXCEPT !.resolution = "completed"]
  <2>2. ASSUME NEW r \in Revisions, NEW o \in Reports, ReconcileCompleted(t, a, r, o)
        PROVE  AcceptsResult(other) /\ SetAttempt(t, a, WithResult(other))
    BY <1>2, <2>2 DEF ReconcileCompleted, StoreResult
  <2>3. other \in Attempt
    BY <1>2, AttemptTypes
  <2>4. /\ other.workflow = rec.workflow /\ other.dispatched = rec.dispatched
        /\ other.worker = rec.worker /\ other.state = rec.state
    BY <1>2 DEF Attempt
  <2> HIDE DEF other
  <2> QED
    BY <1>2, <2>1, <2>2, <2>3, <2>4 DEF ResultStep
<1>4. rec.state # "result_received" /\ ~rec.result /\ rec.delivery = None
  BY <1>2, <1>3 DEF AcceptsResult, AttemptOK, Attempt
<1>5. PICK new \in Attempt :
        /\ SetAttempt(t, a, new)
        /\ new.workflow = rec.workflow /\ new.dispatched = rec.dispatched
        /\ new.worker = rec.worker /\ new.result /\ new.delivery # "delivered"
  <2>1. WithResult(old) \in Attempt
    BY AttemptTypes
  <2>2. /\ WithResult(old).workflow = old.workflow
        /\ WithResult(old).dispatched = old.dispatched
        /\ WithResult(old).worker = old.worker
        /\ WithResult(old).result /\ WithResult(old).delivery # "delivered"
    BY DEF WithResult, Attempt, None
  <2> QED
    BY <1>3, <2>1, <2>2
<1>6. \A f \in RegisterStages \ {"answered"} : f \in Marks(new) <=> f \in Marks(rec)
  BY <1>4, <1>5, MarksAre DEF None
<1>7. /\ "answered" \in Marks(new) /\ "answered" \in RegisterStages
      /\ Handover!Before["answered"] = {} /\ "answered" \notin Handover!Preparations
  BY <1>5, MarksAre DEF RegisterStages, Handover!Before, Handover!Preparations
<1> QED
  BY <1>1, <1>2, <1>5, <1>6, <1>7, OneMark

LEMMA PeopleReach ==
  ASSUME ExecInv, RegisterInv,
         \/ Operate
         \/ \E t \in Tasks : \E a \in DOMAIN attempts[t] :
              BringResult(t, a) \/ RepeatResult(t, a) \/ ScanStuck(t, a)
         \/ ScanPending
  PROVE  HandoverStep
<1>0. BoardTyped
  BY DEF ExecInv
<1>1. Same(InstanceStages) /\ Same({"queued"}) /\ Same({"started"})
  BY ResultIsBrought, NothingReached DEF Operate, RepeatResult, ScanStuck, ScanPending, execVars
<1>2. attempts' = attempts => HandoverStep
  BY <1>1, NothingReached, NoStage
<1>3. ASSUME NEW t \in Tasks, PlanStep(t) \/ ReviewStep(t)
      PROVE  HandoverStep
  BY <1>2, <1>3 DEF PlanStep, CreateTask, EditDependencies, SetStatus, DeleteTask,
                    ReviewStep, ReviewManualCheck, RequestChanges, Approve
<1>4. ProjectStep => HandoverStep
  BY <1>2 DEF ProjectStep, RecordTest, DecideBaseline, DecideStage, SetLimit
<1>5. ASSUME NEW t \in Tasks, NEW k \in Keys, Reserve(t, k)
      PROVE  HandoverStep
  BY <1>0, <1>1, <1>5, ReserveReaches, NoStage
<1>6. CASE Operate
  BY <1>0, <1>1, <1>3, <1>4, <1>5, <1>6, OperatorReaches DEF Operate
<1>7. ASSUME NEW t \in Tasks, NEW a \in DOMAIN attempts[t], BringResult(t, a)
      PROVE  HandoverStep
  BY <1>0, <1>1, <1>7, ResultIsBrought, ResultReaches
<1>8. ASSUME NEW t \in Tasks, NEW a \in DOMAIN attempts[t], ScanStuck(t, a)
      PROVE  HandoverStep
  BY <1>0, <1>1, <1>2, <1>8, OperatorReaches DEF ScanStuck, OperatorStep, vars
<1>9. ScanPending => HandoverStep
  BY <1>2 DEF ScanPending, vars
<1>10. ASSUME NEW t \in Tasks, NEW a \in DOMAIN attempts[t], RepeatResult(t, a)
       PROVE  HandoverStep
  BY <1>2, <1>10 DEF RepeatResult, vars
<1> QED
  BY <1>6, <1>7, <1>8, <1>9, <1>10

LEMMA BridgeReaches ==
  ASSUME ExecInv, RegisterInv, HandoverInv, NEW c \in Callers, BridgeStep(c)
  PROVE  HandoverStep
<1>0. PICK x \in Call : x = call[c]
  BY DEF ExecInv, ActorsInv, CallsOK
<1>1. PICK id : id = x.owner
  OBVIOUS
<1>2. /\ BoardTyped /\ InstancesOK /\ JobsOK
      /\ x.pc # "idle" => id \in AttemptIds /\ Registered(id)
      /\ Handed(x)
  BY <1>0, <1>1 DEF ExecInv, ActorsInv, CallsOK, HandoverInv
<1>3. Same({"started"})
  BY NothingReached DEF BridgeStep, CallReserve, CallReplay, LookForInstance, StartWorkflow,
     Link, CheckBeforeExecute, ExecuteWorkflow, ConfirmParked, Enqueue, Dispatch, AbortCall,
     OnlyCall
\* Linking marks the attempt as linked, or as dispatched once it is queued.
<1>a. ASSUME NEW sent \in BOOLEAN, LinkWorkflow(id[1], id[2], OwnRef, sent),
             x.pc # "idle", sent => Linked(id) /\ Queued(id),
             Same(InstanceStages), Same({"queued"})
      PROVE  HandoverStep
  <2>1. PICK rec \in Attempt : rec = Record(id) /\ rec = attempts[id[1]][id[2]]
    BY <1>2, <1>a, RecordIs
  <2>2. ~rec.result
    BY <1>2, <1>a, <2>1, RecordIs DEF LinkWorkflow
  <2>3. OwnRef \in Workflows /\ OwnRef # None
    BY ExecutionAssumption, ConstantsAssumption DEF OwnRef
  <2> DEFINE new == [rec EXCEPT !.workflow = OwnRef, !.dispatched = @ \/ sent]
  <2>4. new \in Attempt /\ SetAttempt(id[1], id[2], new)
    BY <1>a, <2>1, <2>3, AttemptTypes DEF LinkWorkflow
  <2>5. /\ new.workflow = OwnRef /\ new.dispatched = (rec.dispatched \/ sent)
        /\ new.worker = rec.worker /\ new.result = rec.result /\ new.delivery = rec.delivery
    BY <2>1 DEF Attempt
  <2> HIDE DEF new
  <2>6. "answered" \notin Marks(rec)
    BY <2>2, MarksAre
  <2>7. CASE ~sent
    <3>1. \A f \in RegisterStages \ {"linked"} : f \in Marks(new) <=> f \in Marks(rec)
      BY <2>1, <2>5, <2>7, MarksAre DEF Attempt
    <3>2. /\ "linked" \in Marks(new) /\ "linked" \in RegisterStages
          /\ Handover!Before["linked"] = {}
      BY <2>3, <2>5, MarksAre DEF RegisterStages, Handover!Before
    <3> QED
      BY <1>2, <1>3, <1>a, <2>1, <2>4, <2>6, <3>1, <3>2, OneMark
  <2>8. CASE sent
    <3>1. rec.workflow # None
      BY <1>a, <2>1, <2>8 DEF Linked
    <3>2. \A f \in RegisterStages \ {"dispatched"} : f \in Marks(new) <=> f \in Marks(rec)
      BY <2>3, <2>5, <3>1, MarksAre
    <3>3. /\ "dispatched" \in Marks(new) /\ "dispatched" \in RegisterStages
          /\ Handover!Before["dispatched"] = {"queued"}
      BY <2>5, <2>8, MarksAre DEF RegisterStages, Handover!Before
    <3>4. Handover!Before["dispatched"] \subseteq Reached(id)
      BY <1>a, <2>8, <3>3, StageOf
    <3> QED
      BY <1>2, <1>3, <1>a, <2>1, <2>4, <2>6, <3>2, <3>3, <3>4, OneMark
  <2> QED
    BY <2>7, <2>8
<1>4. ASSUME NEW t \in Tasks, NEW k \in BridgeKeys, CallReserve(c, t, k)
      PROVE  HandoverStep
  <2>1. Reserve(t, k) /\ k \in Keys /\ UNCHANGED <<job, instances>>
    BY <1>4, ExecutionAssumption DEF CallReserve
  <2> QED
    BY <1>2, <1>3, <2>1, ReserveReaches, NothingReached, NoStage
<1>5. ASSUME OnlyCall(c)
      PROVE  HandoverStep
  BY <1>3, <1>5, NothingReached, NoStage DEF OnlyCall, vars
<1>6. CASE StartWorkflow(c)
  <2> DEFINE y == [owner |-> id, at |-> "start"]
  <2>1. /\ instances' = Append(instances, y) /\ y.at = "start"
        /\ UNCHANGED <<attempts, job>>
    BY <1>0, <1>1, <1>6 DEF StartWorkflow, vars
  <2> HIDE DEF y
  <2>2. /\ DOMAIN instances' = 1..(Len(instances) + 1)
        /\ DOMAIN instances = 1..Len(instances) /\ Len(instances) \in Nat
        /\ instances'[Len(instances) + 1] = y
        /\ \A i \in 1..Len(instances) : instances'[i] = instances[i]
    BY <1>2, <2>1 DEF InstancesOK
  <2>3. \A n : (HasLeft(n)' <=> HasLeft(n)) /\ (Ended(n)' <=> Ended(n))
    BY <2>1, <2>2 DEF HasLeft, Ended, InstancesOf
  <2>4. Same(InstanceStages)
    BY <2>3, StageOf, StageNext DEF Same, InstanceStages
  <2> QED
    BY <1>3, <2>1, <2>4, NothingReached, NoStage
<1>7. CASE Link(c)
  <2>1. /\ LinkWorkflow(id[1], id[2], OwnRef, FALSE) /\ x.pc = "link"
        /\ UNCHANGED <<job, instances>>
    BY <1>0, <1>1, <1>7 DEF Link
  <2> QED
    BY <1>a, <2>1, NothingReached
<1>8. CASE ExecuteWorkflow(c)
  <2>1. x.pc = "execute" /\ UNCHANGED <<vars, job>> /\ UNCHANGED attempts
    BY <1>0, <1>8 DEF ExecuteWorkflow, vars
  <2>2. /\ x.instance \in InstancesOf(id) /\ x.instance \in DOMAIN instances
        /\ Linked(id) /\ id \in AttemptIds /\ Registered(id)
    BY <1>1, <1>2, <2>1 DEF Handed, InstancesOf
  <2>3. \/ instances[x.instance].at = "start" /\ MoveInstance(x.instance, "wait")
        \/ UNCHANGED instances
    BY <1>0, <1>8 DEF ExecuteWorkflow
  <2>4. CASE UNCHANGED instances
    BY <1>3, <2>1, <2>4, NothingReached, NoStage
  <2>5. CASE instances[x.instance].at = "start" /\ MoveInstance(x.instance, "wait")
    <3>1. /\ \A n : n # id => (HasLeft(n)' <=> HasLeft(n)) /\ (Ended(n)' <=> Ended(n))
          /\ HasLeft(id)' /\ (Ended(id)' <=> Ended(id))
      BY <1>2, <2>2, <2>5, InstanceReaches
    <3>2. /\ Same(RegisterStages) /\ Same({"queued"}) /\ Same({"started"})
      BY <1>3, <2>1, NothingReached
    <3>3. \A n \in AttemptIds, f \in InstanceStages :
            n # id \/ f # "parked" => (f \in Reached(n)' <=> f \in Reached(n))
      BY <3>1, StageOf, StageNext DEF InstanceStages
    <3>4. \A n \in AttemptIds, f \in Handover!Stages :
            n # id \/ f # "parked" => (f \in Reached(n)' <=> f \in Reached(n))
      BY <3>2, <3>3, StagesAre DEF Same
    <3>5. "linked" \in Reached(id) /\ "parked" \in Reached(id)'
      BY <2>2, <3>1, StageOf, StageNext, MarksAre DEF Linked, RegisterStages
    <3>6. /\ Handover!Before["parked"] = {"linked"} /\ "parked" \in Handover!Stages
          /\ "parked" \notin Handover!Preparations
      BY StagesAre DEF InstanceStages, Handover!Before, Handover!Preparations
    <3> QED
      BY <2>2, <3>4, <3>5, <3>6, OneStage
  <2> QED
    BY <2>3, <2>4, <2>5
<1>9. ASSUME NEW j \in Jobs, Enqueue(c, j)
      PROVE  HandoverStep
  <2> DEFINE y == [pc |-> "queued", owner |-> id]
  <2>1. /\ x.pc = "enqueue" /\ job' = [job EXCEPT ![j] = y]
        /\ y.pc = "queued" /\ y.owner = id /\ job[j].pc = "unused"
        /\ UNCHANGED <<attempts, instances>>
    BY <1>0, <1>1, <1>9 DEF Enqueue, vars
  <2> HIDE DEF y
  <2>2. job'[j] = y /\ \A n \in Jobs : n # j => job'[n] = job[n]
    BY <1>2, <2>1 DEF JobsOK
  <2>3. Queued(id)' /\ \A n : n # id => (Queued(n)' <=> Queued(n))
    BY <2>1, <2>2 DEF Queued
  <2>4. HasLeft(id) /\ id \in AttemptIds
    BY <1>1, <1>2, <2>1 DEF Handed
  <2>5. Same(RegisterStages) /\ Same(InstanceStages)
    BY <2>1, NothingReached
  <2>6. \A n \in AttemptIds, f \in Handover!Stages :
          n # id \/ f # "queued" => (f \in Reached(n)' <=> f \in Reached(n))
    BY <1>3, <2>3, <2>5, StagesAre, StageOf, StageNext DEF Same
  <2>7. "parked" \in Reached(id) /\ "queued" \in Reached(id)'
    BY <2>3, <2>4, StageOf, StageNext
  <2>8. /\ Handover!Before["queued"] = {"parked"} /\ "queued" \in Handover!Stages
        /\ "queued" \notin Handover!Preparations
    BY StagesAre DEF Handover!Before, Handover!Preparations
  <2> QED
    BY <2>4, <2>6, <2>7, <2>8, OneStage
<1>10. CASE Dispatch(c)
  <2>1. /\ LinkWorkflow(id[1], id[2], OwnRef, TRUE) /\ x.pc = "dispatch"
        /\ UNCHANGED <<job, instances>>
    BY <1>0, <1>1, <1>10 DEF Dispatch
  <2>2. Linked(id) /\ Queued(id)
    BY <1>1, <1>2, <2>1 DEF Handed
  <2> QED
    BY <1>a, <2>1, <2>2, NothingReached
<1> QED
  BY <1>4, <1>5, <1>6, <1>7, <1>8, <1>9, <1>10
     DEF BridgeStep, CallReplay, LookForInstance, CheckBeforeExecute, ConfirmParked, AbortCall

LEMMA JobReaches ==
  ASSUME ExecInv, RegisterInv, HandoverInv, NEW j \in Jobs, JobStep(j)
  PROVE  HandoverStep
<1>0. PICK id : id = job[j].owner
  OBVIOUS
<1>1. /\ job \in [Jobs -> Job] /\ BoardTyped
      /\ job[j].pc # "unused" => id \in AttemptIds /\ Registered(id)
  BY <1>0 DEF ExecInv, ActorsInv, JobsOK
<1>2. Same(InstanceStages)
  BY NothingReached DEF JobStep, JobProgress, ClaimJob, PackageFails, CheckJob, StartExecutor,
     ExecutorFails, ReadBack, ReconcileJob, AcceptJob, CrashJob, OnlyJob
<1>3. CASE PackageFails(j) \/ CheckJob(j) \/ ExecutorFails(j) \/ ReadBack(j) \/ CrashJob(j)
  <2>1. job[j].pc # "unused" /\ UNCHANGED <<attempts, starts>>
    BY <1>3 DEF PackageFails, CheckJob, ExecutorFails, ReadBack, CrashJob, OnlyJob, vars
  <2>2. PICK to \in {"queued", "ready", "failed", "accepting", "done"} : JobAt(j, to)
    BY <1>3 DEF PackageFails, CheckJob, ExecutorFails, ReadBack, CrashJob
  <2> QED
    BY <1>1, <1>2, <2>1, <2>2, JobStaysQueued, NothingReached, NoStage
<1>4. CASE ClaimJob(j)
  <2>1. job[j].pc = "queued" /\ UNCHANGED starts /\ id \in AttemptIds /\ Registered(id)
    BY <1>0, <1>1, <1>4 DEF ClaimJob
  <2>2. \/ Claim(id[1], id[2], j) /\ JobAt(j, "claimed")
        \/ UNCHANGED attempts /\ JobAt(j, "done")
    BY <1>0, <1>4 DEF ClaimJob, Unclaimed, vars
  <2>3. Same({"queued"}) /\ Same({"started"})
    BY <1>1, <2>1, <2>2, JobStaysQueued, NothingReached
  <2>4. CASE Claim(id[1], id[2], j)
    <3>1. PICK rec \in Attempt : rec = Record(id) /\ rec = attempts[id[1]][id[2]]
      BY <2>1, RecordIs
    <3>2. ~rec.result
      BY <2>1, <2>4, <3>1, RecordIs DEF Claim
    <3> DEFINE new == [rec EXCEPT !.state = "claimed", !.worker = j]
    <3>3. new \in Attempt /\ SetAttempt(id[1], id[2], new)
      BY <2>4, <3>1, AttemptTypes DEF Claim, Jobs
    <3>4. /\ new.workflow = rec.workflow /\ new.dispatched = rec.dispatched
          /\ new.worker = j /\ new.result = rec.result /\ new.delivery = rec.delivery
      BY <3>1 DEF Attempt
    <3> HIDE DEF new
    <3>5. j # None
      BY ConstantsAssumption DEF Jobs
    <3>6. \A f \in RegisterStages \ {"claimed"} : f \in Marks(new) <=> f \in Marks(rec)
      BY <3>4, MarksAre
    <3>7. /\ "claimed" \in Marks(new) /\ "claimed" \in RegisterStages
          /\ Handover!Before["claimed"] = {"queued"} /\ "answered" \notin Marks(rec)
      BY <3>2, <3>4, <3>5, MarksAre DEF RegisterStages, Handover!Before
    <3>8. Handover!Before["claimed"] \subseteq Reached(id)
      BY <1>0, <2>1, <3>7, StageOf DEF Queued
    <3> QED
      BY <1>1, <1>2, <2>1, <2>3, <3>1, <3>3, <3>6, <3>7, <3>8, OneMark
  <2> QED
    BY <1>2, <2>2, <2>3, <2>4, NothingReached, NoStage
<1>5. CASE StartExecutor(j)
  <2>1. /\ job[j].pc = "ready" /\ JobAt(j, "running") /\ UNCHANGED attempts
        /\ starts' = [starts EXCEPT ![id] = @ + 1]
        /\ id \in AttemptIds /\ Registered(id)
    BY <1>0, <1>1, <1>5 DEF StartExecutor, vars
  <2>2. starts \in [AttemptIds -> Nat]
    BY DEF ExecInv, ActorsInv, CountersOK
  <2>3. Same({"queued"}) /\ Same(RegisterStages)
    BY <1>1, <2>1, JobStaysQueued, NothingReached
  <2>4. starts'[id] > 0 /\ \A n \in AttemptIds : n # id => starts'[n] = starts[n]
    BY <2>1, <2>2
  <2>5. \A n \in AttemptIds, f \in Handover!Stages :
          n # id \/ f # "started" => (f \in Reached(n)' <=> f \in Reached(n))
    BY <1>2, <2>3, <2>4, StagesAre, StageOf, StageNext DEF Same
  <2>6. Record(id).worker = j /\ j # None
    BY <1>0, <2>1, ConstantsAssumption DEF ExecInv, StartInv, ClaimsHold, Jobs
  <2>7. "claimed" \in Reached(id) /\ "started" \in Reached(id)'
    BY <2>1, <2>4, <2>6, StageOf, StageNext, MarksAre DEF RegisterStages
  <2>8. /\ Handover!Before["started"] = {"claimed"} /\ "started" \in Handover!Stages
        /\ "started" \notin Handover!Preparations
    BY StagesAre DEF Handover!Before, Handover!Preparations
  <2> QED
    BY <2>1, <2>5, <2>7, <2>8, OneStage
<1>6. CASE ReconcileJob(j)
  <2>1. /\ job[j].pc = "failed" /\ JobAt(j, "done") /\ UNCHANGED starts
        /\ ReconcileReleased(id[1], id[2], "stopped") \/ UNCHANGED attempts
    BY <1>0, <1>6 DEF ReconcileJob, vars
  <2>2. id[1] \in Tasks /\ id[2] \in DOMAIN attempts[id[1]]
    BY <1>1, <2>1 DEF AttemptIds, Registered
  <2>3. Same({"queued"}) /\ Same({"started"})
    BY <1>1, <2>1, JobStaysQueued, NothingReached
  <2> QED
    BY <1>1, <1>2, <2>1, <2>2, <2>3, OperatorReaches, NothingReached, NoStage DEF OperatorStep
<1>7. CASE AcceptJob(j)
  <2>1. /\ job[j].pc = "accepting" /\ JobAt(j, "done") /\ UNCHANGED starts
        /\ ResultStep(id[1], id[2]) \/ UNCHANGED attempts
    BY <1>0, <1>7, ResultIsImported DEF AcceptJob, vars
  <2>2. id[1] \in Tasks /\ id[2] \in DOMAIN attempts[id[1]]
    BY <1>1, <2>1 DEF AttemptIds, Registered
  <2>3. Same({"queued"}) /\ Same({"started"})
    BY <1>1, <2>1, JobStaysQueued, NothingReached
  <2> QED
    BY <1>1, <1>2, <2>1, <2>2, <2>3, ResultReaches, NothingReached, NoStage
<1> QED
  BY <1>3, <1>4, <1>5, <1>6, <1>7 DEF JobStep, JobProgress

-----------------------------------------------------------------------------
(* A handler signals only for an attempt that has its result, and the      *)
(* instance it is about to move has parked.                                *)

Asked(x) ==
  /\ x.pc \in {"signal", "flush", "advance"} => "answered" \in Reached(x.owner)
  /\ x.pc \in {"flush", "advance"} => "parked" \in Reached(x.owner)

AskedInv == \A h \in Resumers : Asked(resume[h])

\* What the invariants say of the handler that moves.
LEMMA HandlerIs ==
  ASSUME ExecInv, HandoverInv, AskedInv, NEW h \in Resumers
  PROVE  /\ resume \in [Resumers -> Resume] /\ resume[h] \in Resume
         /\ Told(resume[h]) /\ Asked(resume[h])
         /\ resume[h].pc # "idle" =>
              resume[h].owner \in AttemptIds /\ Registered(resume[h].owner)
         /\ BoardTyped /\ InstancesOK
BY DEF ExecInv, ActorsInv, ResumesOK, HandoverInv, AskedInv

LEMMA ResumeReaches ==
  ASSUME ExecInv, RegisterInv, HandoverInv, AskedInv, NEW h \in Resumers, ResumeStep(h)
  PROVE  HandoverStep
<1>0. PICK x \in Resume : x = resume[h]
  BY HandlerIs
<1>1. PICK id : id = x.owner
  OBVIOUS
<1>2. /\ BoardTyped /\ InstancesOK /\ Told(x) /\ Asked(x)
      /\ x.pc # "idle" => id \in AttemptIds /\ Registered(id)
  BY <1>0, <1>1, HandlerIs
<1>3. Same({"queued"}) /\ Same({"started"})
  BY NothingReached DEF ResumeStep, ResumeProgress, TakeWake, CheckWake, CheckSignal,
     FlushSignal, FinishSignal, EndSignal, LookAtWorkflow, MarkWake, CrashResume, OnlyResume
<1>4. ASSUME UNCHANGED <<vars, instances>>
      PROVE  HandoverStep
  BY <1>3, <1>4, NothingReached, NoStage DEF vars
<1>5. CASE FlushSignal(h)
  <2>1. /\ x.pc = "flush" /\ UNCHANGED attempts
        /\ MoveInstance(x.target, IF instances[x.target].at = "end" THEN "end" ELSE "leaving")
    BY <1>0, <1>5 DEF FlushSignal, vars
  <2>2. /\ x.target \in InstancesOf(id) /\ x.target \in DOMAIN instances
        /\ HasLeft(id)
    BY <1>1, <1>2, <2>1, StageOf DEF Told, Asked, InstancesOf
  <2>3. /\ \A n : n # id => (HasLeft(n)' <=> HasLeft(n)) /\ (Ended(n)' <=> Ended(n))
        /\ HasLeft(id)' /\ (Ended(id)' <=> Ended(id))
    <3>1. CASE instances[x.target].at = "end"
      BY <1>2, <2>1, <2>2, <3>1, InstanceReaches DEF Ended
    <3>2. CASE instances[x.target].at # "end"
      BY <1>2, <2>1, <2>2, <3>2, InstanceReaches
    <3> QED
      BY <3>1, <3>2
  <2>4. \A n : (HasLeft(n)' <=> HasLeft(n)) /\ (Ended(n)' <=> Ended(n))
    BY <2>2, <2>3
  <2>5. Same(InstanceStages)
    BY <2>4, StageOf, StageNext DEF Same, InstanceStages
  <2> QED
    BY <1>3, <2>1, <2>5, NothingReached, NoStage
<1>6. CASE FinishSignal(h)
  <2>1. /\ x.pc = "advance" /\ UNCHANGED vars /\ UNCHANGED attempts
        /\ MoveInstance(x.target, "end") \/ UNCHANGED instances
    BY <1>0, <1>6 DEF FinishSignal, vars
  <2>2. /\ x.target \in InstancesOf(id) /\ x.target \in DOMAIN instances
        /\ id \in AttemptIds
        /\ "answered" \in Reached(id) /\ "parked" \in Reached(id)
    BY <1>1, <1>2, <2>1 DEF Told, Asked, InstancesOf
  <2>3. CASE MoveInstance(x.target, "end")
    <3>1. /\ \A n : n # id => (HasLeft(n)' <=> HasLeft(n)) /\ (Ended(n)' <=> Ended(n))
          /\ HasLeft(id)' /\ Ended(id)'
      BY <1>2, <2>2, <2>3, InstanceReaches
    <3>2. Same(RegisterStages)
      BY <2>1, NothingReached
    <3>3. "parked" \in Reached(id)' /\ "told" \in Reached(id)'
      BY <3>1, StageNext
    <3>4. \A n \in AttemptIds, f \in InstanceStages :
            n # id \/ f # "told" => (f \in Reached(n)' <=> f \in Reached(n))
      BY <2>2, <3>1, <3>3, StageOf, StageNext DEF InstanceStages
    <3>5. \A n \in AttemptIds, f \in Handover!Stages :
            n # id \/ f # "told" => (f \in Reached(n)' <=> f \in Reached(n))
      BY <1>3, <3>2, <3>4, StagesAre DEF Same
    <3>6. /\ Handover!Before["told"] = {"parked", "answered"} /\ "told" \in Handover!Stages
          /\ "told" \notin Handover!Preparations
      BY StagesAre DEF InstanceStages, Handover!Before, Handover!Preparations
    <3> QED
      BY <2>2, <3>3, <3>5, <3>6, OneStage
  <2> QED
    BY <1>4, <2>1, <2>3
<1>7. CASE MarkWake(h)
  <2>1. /\ x.pc = "mark" /\ UNCHANGED instances
        /\ MarkDelivered(id[1], id[2]) \/ UNCHANGED vars
    BY <1>0, <1>1, <1>7 DEF MarkWake
  <2>2. Ended(id) /\ id \in AttemptIds /\ Registered(id)
    BY <1>1, <1>2, <2>1 DEF Told
  <2>3. CASE MarkDelivered(id[1], id[2])
    <3>1. PICK rec \in Attempt : rec = Record(id) /\ rec = attempts[id[1]][id[2]]
      BY <2>2, RecordIs
    <3> DEFINE new == [rec EXCEPT !.delivery = "delivered"]
    <3>2. new \in Attempt /\ SetAttempt(id[1], id[2], new)
      BY <2>3, <3>1, AttemptTypes DEF MarkDelivered
    <3>3. /\ new.workflow = rec.workflow /\ new.dispatched = rec.dispatched
          /\ new.worker = rec.worker /\ new.result = rec.result /\ new.delivery = "delivered"
      BY <3>1 DEF Attempt
    <3> HIDE DEF new
    <3>4. \A f \in RegisterStages \ {"delivered"} : f \in Marks(new) <=> f \in Marks(rec)
      BY <3>3, MarksAre
    <3>5. /\ "delivered" \in Marks(new) /\ "delivered" \in RegisterStages
          /\ Handover!Before["delivered"] = {"told"}
          /\ "delivered" \notin Handover!Preparations
      BY <3>3, MarksAre DEF RegisterStages, Handover!Before, Handover!Preparations
    <3>6. Handover!Before["delivered"] \subseteq Reached(id)
      BY <2>2, <3>5, StageOf
    <3>7. Same(InstanceStages)
      BY <2>1, NothingReached
    <3> QED
      BY <1>2, <1>3, <2>2, <3>1, <3>2, <3>4, <3>5, <3>6, <3>7, OneMark
  <2> QED
    BY <1>4, <2>1, <2>3
<1>8. CASE \/ \E n \in AttemptIds : TakeWake(h, n)
           \/ CheckWake(h) \/ \E i \in DOMAIN instances : CheckSignal(h, i)
           \/ EndSignal(h) \/ LookAtWorkflow(h) \/ CrashResume(h)
  BY <1>4, <1>8 DEF TakeWake, CheckWake, CheckSignal, EndSignal, LookAtWorkflow, CrashResume,
     OnlyResume
<1> QED
  BY <1>5, <1>6, <1>7, <1>8 DEF ResumeStep, ResumeProgress

LEMMA EveryStepPromised ==
  ASSUME ExecInv, RegisterInv, HandoverInv, AskedInv, [ExecNext]_allVars
  PROVE  HandoverStep
<1>1. CASE UNCHANGED allVars
  BY <1>1, NothingReached, NoStage DEF allVars, vars, execVars
<1> QED
  BY <1>1, PeopleReach, BridgeReaches, JobReaches, ResumeReaches DEF ExecNext

\* So what is reached stays reached.
LEMMA StagesLast ==
  ASSUME HandoverStep, NEW id \in AttemptIds
  PROVE  Reached(id) \subseteq Reached(id)'
<1>1. CASE Handover!Next
  <2>1. PICK a \in AttemptIds :
          /\ Handover!Further(Reached(a), Reached(a)')
          /\ AllReached' = [AllReached EXCEPT ![a] = Reached(a)']
    BY <1>1 DEF Handover!Next, AllReached
  <2>2. Reached(a) \subseteq Reached(a)'
    BY <2>1 DEF Handover!Further
  <2>3. id # a => AllReached'[id] = AllReached[id]
    BY <2>1 DEF AllReached
  <2> QED
    BY <2>2, <2>3 DEF AllReached
<1>2. CASE AllReached' = AllReached
  <2>1. AllReached'[id] = AllReached[id]
    BY <1>2
  <2> QED
    BY <2>1 DEF AllReached
<1> QED
  BY <1>1, <1>2 DEF HandoverStep

LEMMA AskedStays ==
  ASSUME ExecInv, RegisterInv, HandoverInv, AskedInv, [ExecNext]_allVars
  PROVE  AskedInv'
<1>0. \A id \in AttemptIds : Reached(id) \subseteq Reached(id)'
  BY EveryStepPromised, StagesLast
<1>1. ASSUME NEW h \in Resumers, NEW x, x = resume[h], NEW y, y.owner = x.owner,
             y.pc \in {"signal", "flush", "advance"} =>
               x.pc \in {"signal", "flush", "advance"},
             y.pc \in {"flush", "advance"} => x.pc \in {"flush", "advance"}
      PROVE  Asked(y)'
  <2>1. x.pc \in {"signal", "flush", "advance"} => x.owner \in AttemptIds
    BY <1>1, HandlerIs
  <2>2. Asked(x)
    BY <1>1, HandlerIs
  <2> QED
    BY <1>0, <1>1, <2>1, <2>2 DEF Asked
<1>2. ASSUME UNCHANGED resume
      PROVE  AskedInv'
  <2> SUFFICES ASSUME NEW h \in Resumers
               PROVE  Asked(resume[h])'
    BY DEF AskedInv
  <2>1. PICK x : x = resume[h]
    OBVIOUS
  <2>2. Asked(x)'
    BY <1>1, <2>1
  <2> QED
    BY <1>2, <2>1, <2>2 DEF Asked
<1>3. ASSUME NEW h \in Resumers, NEW new, resume' = [resume EXCEPT ![h] = new],
             Asked(new)'
      PROVE  AskedInv'
  <2> SUFFICES ASSUME NEW n \in Resumers
               PROVE  Asked(resume[n])'
    BY DEF AskedInv
  <2>1. n = h => resume'[n] = new
    BY <1>3, HandlerIs
  <2>2. n # h => resume'[n] = resume[n]
    BY <1>3, HandlerIs
  <2>3. PICK x : x = resume[n]
    OBVIOUS
  <2>4. Asked(x)'
    BY <1>1, <2>3
  <2> QED
    BY <1>3, <2>1, <2>2, <2>3, <2>4 DEF Asked
<1>4. ASSUME NEW h \in Resumers, ResumeStep(h)
      PROVE  AskedInv'
  <2>0. PICK x \in Resume : x = resume[h]
    BY HandlerIs
  <2>1. PICK id : id = x.owner
    OBVIOUS
  <2>2. x.pc # "idle" => id \in AttemptIds /\ Registered(id)
    BY <2>0, <2>1, HandlerIs
  <2>a. ASSUME resume' = [resume EXCEPT ![h] = IdleResume]
        PROVE  AskedInv'
    <3>1. Asked(IdleResume)'
      BY DEF Asked, IdleResume
    <3> QED
      BY <1>3, <2>a, <3>1
  <2>b. ASSUME NEW new, resume' = [resume EXCEPT ![h] = new], new.owner = id,
               new.pc \in {"check", "look", "mark"}
                 \/ (new.pc = "signal" /\ x.pc \in {"signal", "advance"})
                 \/ (new.pc = "advance" /\ x.pc = "flush")
        PROVE  AskedInv'
    <3>1. Asked(new)'
      BY <1>1, <2>0, <2>1, <2>b
    <3> QED
      BY <1>3, <2>b, <3>1
  <2>3. ASSUME NEW n \in AttemptIds, TakeWake(h, n)
        PROVE  AskedInv'
    <3> DEFINE new == [IdleResume EXCEPT !.pc = "check", !.owner = n, !.tries = 1]
    <3>1. resume' = [resume EXCEPT ![h] = new] /\ new.pc = "check"
      BY <2>3 DEF TakeWake, IdleResume
    <3> HIDE DEF new
    <3>2. Asked(new)'
      BY <3>1 DEF Asked
    <3> QED
      BY <1>3, <3>1, <3>2
  <2>4. CASE CheckWake(h)
    <3>1. PICK F : F = {i \in InstancesOf(id) : Parked(i)}
      OBVIOUS
    <3> DEFINE new == [x EXCEPT !.pc = "signal", !.found = F]
    <3>2. /\ new.pc = "signal" /\ new.owner = id /\ x.pc = "check"
          /\ \/ resume' = [resume EXCEPT ![h] = new] /\ ResumeReady(id)
             \/ resume' = [resume EXCEPT ![h] = IdleResume]
      BY <2>0, <2>1, <2>4, <3>1, HandlerIs DEF CheckWake, Resume
    <3> HIDE DEF new
    <3>3. ASSUME ResumeReady(id)
          PROVE  Asked(new)'
      <4>1. Record(id).delivery = "pending" /\ AttemptOK(Record(id))
        BY <2>2, <3>2, <3>3, RecordIs DEF ResumeReady
      <4>2. Record(id).result
        BY <4>1 DEF AttemptOK, None
      <4>3. "answered" \in Reached(id)
        BY <2>2, <3>2, <4>2, StageOf, MarksAre DEF RegisterStages
      <4>4. "answered" \in Reached(id)'
        BY <1>0, <2>2, <3>2, <4>3
      <4> QED
        BY <3>2, <4>4 DEF Asked
    <3> QED
      BY <1>3, <2>a, <3>2, <3>3
  <2>5. ASSUME NEW i \in DOMAIN instances, CheckSignal(h, i)
        PROVE  AskedInv'
    <3> DEFINE go == [x EXCEPT !.pc = "flush", !.target = i]
               no == [x EXCEPT !.found = x.found \ {i}]
    <3>1. /\ go.pc = "flush" /\ go.owner = id /\ no.pc = "signal" /\ no.owner = id
          /\ x.pc = "signal" /\ i \in x.found
          /\ \/ resume' = [resume EXCEPT ![h] = go] /\ Parked(i)
             \/ resume' = [resume EXCEPT ![h] = no]
      BY <2>0, <2>1, <2>5 DEF CheckSignal, Resume
    <3> HIDE DEF go, no
    <3>2. Told(x) /\ Asked(x)
      BY <2>0, HandlerIs
    <3>3. ASSUME Parked(i)
          PROVE  Asked(go)'
      <4>1. HasLeft(id)
        BY <2>1, <3>1, <3>2, <3>3 DEF Told, Parked, HasLeft
      <4>2. "parked" \in Reached(id) /\ "answered" \in Reached(id)
        BY <2>1, <3>1, <3>2, <4>1, StageOf DEF Asked
      <4>3. "parked" \in Reached(id)' /\ "answered" \in Reached(id)'
        BY <1>0, <2>2, <3>1, <4>2
      <4> QED
        BY <3>1, <4>3 DEF Asked
    <3> QED
      BY <1>3, <2>b, <3>1, <3>3
  <2>6. CASE FlushSignal(h)
    <3> DEFINE new == [x EXCEPT !.pc = "advance"]
    <3>1. /\ new.pc = "advance" /\ new.owner = id /\ x.pc = "flush"
          /\ resume' = [resume EXCEPT ![h] = new]
      BY <2>0, <2>1, <2>6 DEF FlushSignal, Resume
    <3> HIDE DEF new
    <3> QED
      BY <2>b, <3>1
  <2>7. CASE FinishSignal(h)
    <3>1. PICK hit \in BOOLEAN : SignalDone(h, hit)
      BY <2>7, Zenon DEF FinishSignal
    <3> DEFINE new == [x EXCEPT !.pc = "signal", !.found = x.found \ {x.target},
                                !.target = 0, !.hit = x.hit \/ hit]
    <3>2. new.pc = "signal" /\ new.owner = id /\ x.pc = "advance"
      BY <2>0, <2>1, <2>7 DEF FinishSignal, Resume
    <3>3. resume' = [resume EXCEPT ![h] = new]
      BY <2>0, <3>1, Zenon DEF SignalDone
    <3> HIDE DEF new
    <3> QED
      BY <2>b, <3>2, <3>3
  <2>8. CASE EndSignal(h)
    <3>1. \/ resume' = [resume EXCEPT ![h] = [x EXCEPT !.pc = "mark"]]
          \/ resume' = [resume EXCEPT ![h] = [x EXCEPT !.pc = "look"]]
          \/ resume' = [resume EXCEPT ![h] = [x EXCEPT !.pc = "check", !.tries = x.tries + 1]]
      BY <2>0, <2>8 DEF EndSignal
    <3>2. x.pc = "signal"
      BY <2>0, <2>8 DEF EndSignal
    <3>3. CASE resume' = [resume EXCEPT ![h] = [x EXCEPT !.pc = "mark"]]
      <4> DEFINE new == [x EXCEPT !.pc = "mark"]
      <4>1. new.pc = "mark" /\ new.owner = id /\ resume' = [resume EXCEPT ![h] = new]
        BY <2>1, <3>3 DEF Resume
      <4> HIDE DEF new
      <4> QED
        BY <2>b, <3>2, <4>1
    <3>4. CASE resume' = [resume EXCEPT ![h] = [x EXCEPT !.pc = "look"]]
      <4> DEFINE new == [x EXCEPT !.pc = "look"]
      <4>1. new.pc = "look" /\ new.owner = id /\ resume' = [resume EXCEPT ![h] = new]
        BY <2>1, <3>4 DEF Resume
      <4> HIDE DEF new
      <4> QED
        BY <2>b, <3>2, <4>1
    <3>5. CASE resume' = [resume EXCEPT ![h] = [x EXCEPT !.pc = "check", !.tries = x.tries + 1]]
      <4> DEFINE new == [x EXCEPT !.pc = "check", !.tries = x.tries + 1]
      <4>1. new.pc = "check" /\ new.owner = id /\ resume' = [resume EXCEPT ![h] = new]
        BY <2>1, <3>5 DEF Resume
      <4> HIDE DEF new
      <4> QED
        BY <2>b, <3>2, <4>1
    <3> QED
      BY <3>1, <3>3, <3>4, <3>5
  <2>9. CASE LookAtWorkflow(h)
    <3> DEFINE new == [x EXCEPT !.pc = "mark"]
    <3>1. /\ new.pc = "mark" /\ new.owner = id
          /\ \/ resume' = [resume EXCEPT ![h] = new]
             \/ resume' = [resume EXCEPT ![h] = IdleResume]
      BY <2>0, <2>1, <2>9 DEF LookAtWorkflow, Resume
    <3> HIDE DEF new
    <3> QED
      BY <2>a, <2>b, <3>1
  <2>10. CASE MarkWake(h) \/ CrashResume(h)
    BY <2>a, <2>10 DEF MarkWake, CrashResume
  <2> QED
    BY <1>4, <2>3, <2>4, <2>5, <2>6, <2>7, <2>8, <2>9, <2>10 DEF ResumeStep, ResumeProgress
<1>5. ASSUME NEW c \in Callers, BridgeStep(c)
      PROVE  UNCHANGED resume
  BY <1>5 DEF BridgeStep, CallReserve, CallReplay, LookForInstance, StartWorkflow, Link,
     CheckBeforeExecute, ExecuteWorkflow, ConfirmParked, Enqueue, Dispatch, AbortCall, OnlyCall
<1>6. ASSUME NEW j \in Jobs, JobStep(j)
      PROVE  UNCHANGED resume
  BY <1>6 DEF JobStep, JobProgress, ClaimJob, PackageFails, CheckJob, StartExecutor,
     ExecutorFails, ReadBack, ReconcileJob, AcceptJob, CrashJob, OnlyJob
<1>7. CASE \/ Operate
           \/ \E t \in Tasks : \E a \in DOMAIN attempts[t] :
                BringResult(t, a) \/ RepeatResult(t, a) \/ ScanStuck(t, a)
           \/ ScanPending \/ UNCHANGED allVars
  BY <1>2, <1>7, ResultIsBrought DEF Operate, RepeatResult, ScanStuck, ScanPending, execVars,
     allVars
<1> QED
  BY <1>2, <1>4, <1>5, <1>6, <1>7 DEF ExecNext

LEMMA AskedAlways == ExecSpec => [](RegisterInv /\ AskedInv)
<1>1. ExecInit => AskedInv
  BY DEF ExecInit, AskedInv, Asked, IdleResume
<1>2. ExecInv /\ RegisterInv /\ HandoverInv /\ AskedInv /\ [ExecNext]_allVars => AskedInv'
  BY AskedStays
<1>3. BoardInv => RegisterInv
  BY DEF BoardInv
<1> QED
  BY <1>1, <1>2, <1>3, ExecutionUsesBoard, BoardAlways, ExecInvHolds, HandoverAlways, PTL
     DEF ExecSpec

\* For any number of requests, jobs, handlers, workflows and crashes, every
\* attempt goes through its handover in the promised order: each stage after
\* those it needs, once and for good, and no preparations after the result.
THEOREM ExecutionKeepsHandover == ExecSpec => KeepsHandover
<1>1. ExecInit => Handover!Init
  <2> SUFFICES ASSUME ExecInit
               PROVE  AllReached = [id \in AttemptIds |-> {}]
    BY DEF Handover!Init, AllReached
  <2>1. \A id \in AttemptIds :
          /\ ~Registered(id) /\ ~Queued(id) /\ starts[id] = 0
          /\ ~HasLeft(id) /\ ~Ended(id)
    BY DEF ExecInit, Init, Registered, AttemptIds, Queued, HasLeft, Ended, InstancesOf
  <2>2. \A id \in AttemptIds : Reached(id) = {}
    BY <2>1, ReachedAre
  <2> QED
    BY <2>2 DEF AllReached
<1>2. ExecInv /\ RegisterInv /\ HandoverInv /\ AskedInv /\ [ExecNext]_allVars =>
        [Handover!Next]_[id \in AttemptIds |-> Reached(id)]
  BY EveryStepPromised DEF HandoverStep, AllReached
<1> QED
  BY <1>1, <1>2, ExecInvHolds, HandoverAlways, AskedAlways, PTL
     DEF ExecSpec, KeepsHandover, Handover!Spec

\* Every stage an attempt has reached rests on the stages before it.
StagesRest ==
  \A id \in AttemptIds : \A s \in Reached(id) : Handover!Before[s] \subseteq Reached(id)

LEMMA StagesStayRested ==
  ASSUME StagesRest, HandoverStep
  PROVE  StagesRest'
<1>1. \A id \in AttemptIds : AllReached[id] = Reached(id) /\ AllReached'[id] = Reached(id)'
  BY DEF AllReached
<1>2. CASE UNCHANGED AllReached
  <2>1. \A id \in AttemptIds : Reached(id)' = Reached(id)
    BY <1>1, <1>2
  <2> QED
    BY <2>1 DEF StagesRest
<1>3. CASE Handover!Next
  <2>1. PICK a \in AttemptIds :
          /\ Handover!Further(AllReached[a], AllReached'[a])
          /\ AllReached' = [AllReached EXCEPT ![a] = AllReached'[a]]
    BY <1>3 DEF Handover!Next, AllReached
  <2>2. PICK s \in Handover!Stages :
          Handover!Before[s] \subseteq Reached(a) /\ Reached(a)' = Reached(a) \cup {s}
    BY <1>1, <2>1 DEF Handover!Further, Handover!Following
  <2>3. \A id \in AttemptIds : id # a => Reached(id)' = Reached(id)
    BY <1>1, <2>1 DEF AllReached
  <2> QED
    BY <2>2, <2>3 DEF StagesRest
<1> QED
  BY <1>2, <1>3 DEF HandoverStep

\* An attempt the executor was started for was claimed by a worker, had a job
\* in the queue and a workflow that waits for its result or went on with it.
StartIsPrepared ==
  \A id \in AttemptIds : starts[id] > 0 =>
    /\ Registered(id) /\ Record(id).worker # None
    /\ Queued(id) /\ HasLeft(id) /\ Record(id).workflow # None

\* A delivery that is ticked off has its result, and a workflow of its own
\* that has gone on.
TickIsEarned ==
  \A id \in AttemptIds : Registered(id) /\ Record(id).delivery = "delivered" =>
    Record(id).result /\ Ended(id) /\ Record(id).workflow # None

LEMMA RestedAre ==
  ASSUME StagesRest
  PROVE  StartIsPrepared /\ TickIsEarned
<1>1. /\ Handover!Before["started"] = {"claimed"} /\ Handover!Before["claimed"] = {"queued"}
      /\ Handover!Before["queued"] = {"parked"} /\ Handover!Before["parked"] = {"linked"}
      /\ Handover!Before["delivered"] = {"told"}
      /\ Handover!Before["told"] = {"parked", "answered"}
  BY DEF Handover!Before
<1>2. ASSUME NEW id \in AttemptIds, "started" \in Reached(id)
      PROVE  {"claimed", "queued", "parked", "linked"} \subseteq Reached(id)
  BY <1>1, <1>2 DEF StagesRest
<1>3. ASSUME NEW id \in AttemptIds, "delivered" \in Reached(id)
      PROVE  {"told", "answered", "parked", "linked"} \subseteq Reached(id)
  BY <1>1, <1>3 DEF StagesRest
<1> QED
  BY <1>2, <1>3, StageOf, MarksAre DEF StartIsPrepared, TickIsEarned, RegisterStages

\* The executor is never started on an attempt whose handover is unfinished,
\* and no delivery is ticked off that nobody waited for, whichever requests
\* and handlers were repeated or died half way.
THEOREM HandoverIsComplete == ExecSpec => [](StartIsPrepared /\ TickIsEarned)
<1>1. ExecInit => StagesRest
  <2> SUFFICES ASSUME ExecInit
               PROVE  \A id \in AttemptIds : Reached(id) = {}
    BY DEF StagesRest
  <2>1. \A id \in AttemptIds :
          /\ ~Registered(id) /\ ~Queued(id) /\ starts[id] = 0
          /\ ~HasLeft(id) /\ ~Ended(id)
    BY DEF ExecInit, Init, Registered, AttemptIds, Queued, HasLeft, Ended, InstancesOf
  <2> QED
    BY <2>1, ReachedAre
<1>2. ExecInv /\ RegisterInv /\ HandoverInv /\ AskedInv /\ StagesRest /\ [ExecNext]_allVars =>
        StagesRest'
  BY EveryStepPromised, StagesStayRested
<1>3. StagesRest => StartIsPrepared /\ TickIsEarned
  BY RestedAre
<1> QED
  BY <1>1, <1>2, <1>3, ExecInvHolds, HandoverAlways, AskedAlways, PTL DEF ExecSpec
=============================================================================
