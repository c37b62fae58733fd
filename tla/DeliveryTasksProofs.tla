------------------------- MODULE DeliveryTasksProofs -------------------------
(***************************************************************************)
(* Theorems about the task board, for every set of tasks, keys, workers    *)
(* and revisions and every bound.                                          *)
(***************************************************************************)
EXTENDS DeliveryTasks, TLAPS

-----------------------------------------------------------------------------
(* The register as a sequence.                                             *)

\* Replacing one attempt leaves a register: the attempts keep their places.
LEMMA ReplaceInRegister ==
  ASSUME NEW S, NEW s \in Seq(S), NEW a \in DOMAIN s, NEW x \in S
  PROVE  /\ [s EXCEPT ![a] = x] \in Seq(S)
         /\ DOMAIN [s EXCEPT ![a] = x] = DOMAIN s
         /\ Len([s EXCEPT ![a] = x]) = Len(s)
         /\ a \in Nat
<1> DEFINE r == [s EXCEPT ![a] = x]
<1>1. s \in [1..Len(s) -> S] /\ Len(s) \in Nat
  OBVIOUS
<1>2. r \in [1..Len(s) -> S]
  BY <1>1
<1>3. r \in Seq(S) /\ Len(r) = Len(s)
  BY <1>1, <1>2
<1> QED
  BY <1>1, <1>2, <1>3

-----------------------------------------------------------------------------
(* The columns keep their domains.  Whatever happens to a live task, it has *)
(* a baseline; checks reported for it then name one.                       *)

HasBaseline == \A t \in Tasks : Live(t) => baseline[t] \in Baselines

TypeInv == TypeOK /\ HasBaseline

\* A move writes known statuses and reasons and revives no task.
LEMMA MoveTypes ==
  ASSUME TypeOK, NEW t \in Tasks, NEW to \in LiveStatuses, NEW why \in Reasons,
         NEW held, NEW freed, Live(t),
         \A u \in held \cup freed : u \in Tasks => Live(u),
         Move(t, to, why, held, freed)
  PROVE  /\ status' \in [Tasks -> Statuses]
         /\ reason' \in [Tasks -> Reasons]
         /\ \A u \in Tasks : Live(u)' => Live(u)
BY DEF Move, TypeOK, Statuses, LiveStatuses, Reasons, Live

\* Propagation touches only tasks that wait or were made to wait.
LEMMA PropagationIsLive ==
  ASSUME NEW t, NEW to, NEW targets, NEW d
  PROVE  \A u \in HeldBy(t, to, d) \cup FreedBy(t, targets, to, d) \cup Frees(t, d) : Live(u)
BY DEF HeldBy, FreedBy, Blocks, Frees, Live, LiveStatuses, Propagating

\* Writing a valid attempt over a valid one.
LEMMA SetAttemptType ==
  ASSUME TypeOK, NEW t \in Tasks, NEW a \in DOMAIN attempts[t], NEW rec \in Attempt,
         SetAttempt(t, a, rec)
  PROVE  attempts' \in [Tasks -> Seq(Attempt)]
<1>1. attempts[t] \in Seq(Attempt)
  BY DEF TypeOK
<1>2. [attempts[t] EXCEPT ![a] = rec] \in Seq(Attempt)
  BY <1>1, ReplaceInRegister
<1> QED
  BY <1>2 DEF SetAttempt, TypeOK

\* The attempts the commands write are attempts.
LEMMA AttemptTypes ==
  ASSUME NEW rec \in Attempt
  PROVE  /\ \A w \in Workers : [rec EXCEPT !.state = "claimed", !.worker = w] \in Attempt
         /\ \A f \in Workflows, sent \in BOOLEAN :
              [rec EXCEPT !.workflow = f, !.dispatched = @ \/ sent] \in Attempt
         /\ [rec EXCEPT !.delivery = "delivered"] \in Attempt
         /\ [rec EXCEPT !.state = "cancel_requested", !.cancelAsked = TRUE] \in Attempt
         /\ \A res \in {"not_started", "stopped"} :
              [rec EXCEPT !.state = "closed", !.resolution = res,
                 !.outcome = IF rec.cancelAsked THEN "cancelled" ELSE res] \in Attempt
         /\ [rec EXCEPT !.state = "reconciliation_required",
                        !.resolution = "unknown"] \in Attempt
         /\ [rec EXCEPT !.resolution = "completed"] \in Attempt
         /\ WithResult(rec) \in Attempt
<1> USE DEF Attempt, AttemptStates, ActiveStates, Resolutions, Outcomes
<1>1. \A w \in Workers : [rec EXCEPT !.state = "claimed", !.worker = w] \in Attempt
  OBVIOUS
<1>2. \A f \in Workflows, sent \in BOOLEAN :
        [rec EXCEPT !.workflow = f, !.dispatched = @ \/ sent] \in Attempt
  OBVIOUS
<1>3. [rec EXCEPT !.delivery = "delivered"] \in Attempt
  OBVIOUS
<1>4. [rec EXCEPT !.state = "cancel_requested", !.cancelAsked = TRUE] \in Attempt
  OBVIOUS
<1>5. \A res \in {"not_started", "stopped"} :
        [rec EXCEPT !.state = "closed", !.resolution = res,
           !.outcome = IF rec.cancelAsked THEN "cancelled" ELSE res] \in Attempt
  <2>1. \A res \in Resolutions \cup {None}, out \in Outcomes \cup {None} :
          [rec EXCEPT !.state = "closed", !.resolution = res, !.outcome = out]
            \in Attempt
    OBVIOUS
  <2> TAKE res \in {"not_started", "stopped"}
  <2> DEFINE out == IF rec.cancelAsked THEN "cancelled" ELSE res
  <2>2. res \in Resolutions \cup {None} /\ out \in Outcomes \cup {None}
    OBVIOUS
  <2> HIDE DEF Attempt, AttemptStates, Resolutions, Outcomes, out
  <2>3. [rec EXCEPT !.state = "closed", !.resolution = res, !.outcome = out]
          \in Attempt
    BY <2>1, <2>2
  <2> QED
    BY <2>3 DEF out
<1>6. [rec EXCEPT !.state = "reconciliation_required",
                  !.resolution = "unknown"] \in Attempt
  OBVIOUS
<1>7. [rec EXCEPT !.resolution = "completed"] \in Attempt
  OBVIOUS
<1>8. WithResult(rec) \in Attempt
  BY DEF WithResult
<1> QED
  BY ONLY <1>1, <1>2, <1>3, <1>4, <1>5, <1>6, <1>7, <1>8

LEMMA ChecksReported ==
  ASSUME NEW t \in Tasks, NEW r \in Revisions, NEW o \in Reports,
         baseline[t] \in Baselines
  PROVE  ReportedChecks(t, r, o) \subseteq Check
<1> DEFINE c == [subject |-> t, baseline |-> baseline[t], revision |-> r,
                 passed |-> o = "passed"]
<1>1. (o = "passed") \in BOOLEAN
  OBVIOUS
<1>2. c \in Check
  BY <1>1, Zenon DEF Check
<1>3. ReportedChecks(t, r, o) \subseteq {c}
  BY Zenon DEF ReportedChecks
<1> QED
  BY <1>2, <1>3

\* What storing a result leaves in the columns it writes.
LEMMA StoreResultTypes ==
  ASSUME TypeInv, NEW t \in Tasks, NEW a \in DOMAIN attempts[t],
         NEW rec \in Attempt, NEW r \in Revisions, NEW o \in Reports,
         Live(t), StoreResult(t, a, rec, r, o)
  PROVE  /\ attempts' \in [Tasks -> Seq(Attempt)]
         /\ results' \in [Tasks -> Seq(Result)]
         /\ checks' \subseteq Check
         /\ UNCHANGED <<rounds, manual>>
<1>1. SetAttempt(t, a, WithResult(rec)) /\ WithResult(rec) \in Attempt
  BY AttemptTypes DEF StoreResult
<1>2. attempts' \in [Tasks -> Seq(Attempt)]
  BY <1>1, SetAttemptType DEF TypeInv
<1>3. attempts[t] \in Seq(Attempt) /\ results[t] \in Seq(Result)
  BY DEF TypeInv, TypeOK
<1>4. [attempt |-> a, revision |-> r] \in Result
  BY <1>3 DEF Result
<1>5. results' \in [Tasks -> Seq(Result)]
  BY <1>3, <1>4 DEF StoreResult, TypeInv, TypeOK
<1>6. checks' \subseteq Check
  BY ChecksReported DEF StoreResult, TypeInv, TypeOK, HasBaseline
<1> QED
  BY <1>2, <1>5, <1>6 DEF StoreResult

\* Steps on the board itself.
LEMMA TaskStepTypes ==
  ASSUME TypeInv, NEW t \in Tasks, TaskStep(t)
  PROVE  TypeInv'
<1> USE DEF TypeInv, HasBaseline
<1>1. ASSUME NEW b \in Baselines, NEW D \in SUBSET Tasks, CreateTask(t, b, D)
      PROVE  TypeInv'
  BY <1>1 DEF CreateTask, TypeOK, Live, Statuses, LiveStatuses, evidenceVars, projectVars
<1>2. ASSUME NEW D \in SUBSET Tasks, EditDependencies(t, D)
      PROVE  TypeInv'
  BY <1>2 DEF EditDependencies, TypeOK, Live, evidenceVars, projectVars
<1>3. ASSUME NEW D \in SUBSET Tasks, NEW to \in UserSettable, SetStatus(t, D, to)
      PROVE  TypeInv'
  <2> DEFINE d == [deps EXCEPT ![t] = D]
             why == IF reason[t] \in SystemOwned THEN reason[t] ELSE None
             held == HeldBy(t, to, d)
             freed == FreedBy(t, {"draft", "ready"}, to, d)
  <2>1. /\ Live(t) /\ deps' = d
        /\ Move(t, to, why, held, freed)
        /\ UNCHANGED <<baseline, attempts, evidenceVars, projectVars>>
    BY <1>3 DEF SetStatus
  <2>2. to \in LiveStatuses /\ why \in Reasons
    BY DEF UserSettable, LiveStatuses, TypeOK, Reasons
  <2>3. \A u \in held \cup freed : Live(u)
    BY PropagationIsLive
  <2>4. /\ status' \in [Tasks -> Statuses]
        /\ reason' \in [Tasks -> Reasons]
        /\ \A u \in Tasks : Live(u)' => Live(u)
    BY <2>1, <2>2, <2>3, MoveTypes
  <2> QED
    BY <2>1, <2>4 DEF TypeOK, evidenceVars, projectVars
<1>4. ASSUME DeleteTask(t)
      PROVE  TypeInv'
  BY <1>4 DEF DeleteTask, TypeOK, Live, Statuses, LiveStatuses, evidenceVars, projectVars
<1>5. ASSUME NEW k \in Keys, Reserve(t, k)
      PROVE  TypeInv'
  <2>1. NewAttempt(k) \in Attempt
    BY DEF NewAttempt, Attempt, AttemptStates, ActiveStates
  <2>2. attempts[t] \in Seq(Attempt)
    BY DEF TypeOK
  <2>3. Append(attempts[t], NewAttempt(k)) \in Seq(Attempt)
    BY <2>1, <2>2
  <2>4. attempts' \in [Tasks -> Seq(Attempt)]
    BY <1>5, <2>3 DEF Reserve, TypeOK
  <2> QED
    BY <1>5, <2>4 DEF Reserve, TypeOK, Live, Statuses, LiveStatuses, Reasons,
                      evidenceVars, projectVars
<1> QED
  BY <1>1, <1>2, <1>3, <1>4, <1>5 DEF TaskStep, PlanStep

\* Steps on the register of a task.
LEMMA AttemptStepTypes ==
  ASSUME TypeInv, NEW t \in Tasks, NEW a \in DOMAIN attempts[t], AttemptStep(t, a)
  PROVE  TypeInv'
<1> DEFINE rec == attempts[t][a]
<1>0. rec \in Attempt
  BY DEF TypeInv, TypeOK
<1> HIDE DEF rec
<1>a. ASSUME NEW new \in Attempt, SetAttempt(t, a, new),
             UNCHANGED <<boardVars, evidenceVars, projectVars>>
      PROVE  TypeInv'
  <2>1. attempts' \in [Tasks -> Seq(Attempt)]
    BY <1>a, SetAttemptType DEF TypeInv
  <2> QED
    BY <1>a, <2>1 DEF TypeInv, TypeOK, HasBaseline, Live, boardVars, evidenceVars, projectVars
<1>1. ASSUME NEW w \in Workers, Claim(t, a, w)
      PROVE  TypeInv'
  BY <1>0, <1>1, <1>a, AttemptTypes DEF Claim, rec
<1>2. ASSUME NEW f \in Workflows, NEW sent \in BOOLEAN, LinkWorkflow(t, a, f, sent)
      PROVE  TypeInv'
  BY <1>0, <1>2, <1>a, AttemptTypes DEF LinkWorkflow, rec
<1>3. ASSUME MarkDelivered(t, a)
      PROVE  TypeInv'
  BY <1>0, <1>3, <1>a, AttemptTypes DEF MarkDelivered, rec
<1>4. ASSUME Cancel(t, a)
      PROVE  TypeInv'
  BY <1>0, <1>4, <1>a, AttemptTypes DEF Cancel, rec
<1>m. ASSUME NEW new \in Attempt, SetAttempt(t, a, new), Live(t),
             NEW to \in LiveStatuses, NEW why \in Reasons, NEW targets,
             Move(t, to, why, HeldBy(t, to, deps), FreedBy(t, targets, to, deps)),
             UNCHANGED <<deps, baseline, evidenceVars, projectVars>>
      PROVE  TypeInv'
  <2>1. attempts' \in [Tasks -> Seq(Attempt)]
    BY <1>m, SetAttemptType DEF TypeInv
  <2>2. /\ status' \in [Tasks -> Statuses]
        /\ reason' \in [Tasks -> Reasons]
        /\ \A u \in Tasks : Live(u)' => Live(u)
    BY <1>m, PropagationIsLive, MoveTypes DEF TypeInv
  <2> QED
    BY <1>m, <2>1, <2>2 DEF TypeInv, TypeOK, HasBaseline, evidenceVars, projectVars
<1>5. ASSUME NEW res \in {"not_started", "stopped"}, ReconcileReleased(t, a, res)
      PROVE  TypeInv'
  <2> DEFINE to  == ReleaseTarget(t, a)
             why == IF ~CorrectionRound(t, a) /\ BlockedAncestors(t, deps) # {}
                      THEN "dependency_blocked" ELSE None
             new == [rec EXCEPT !.state = "closed", !.resolution = res,
                       !.outcome = IF rec.cancelAsked THEN "cancelled" ELSE res]
  <2>1. new \in Attempt
    BY <1>0, AttemptTypes
  <2>2. to \in LiveStatuses /\ why \in Reasons
    BY DEF ReleaseTarget, LiveStatuses, Reasons
  <2>3. /\ SetAttempt(t, a, new) /\ Live(t)
        /\ Move(t, to, why, HeldBy(t, to, deps),
                FreedBy(t, LiveStatuses \ {"blocked"}, to, deps))
        /\ UNCHANGED <<deps, baseline, evidenceVars, projectVars>>
    BY <1>5 DEF ReconcileReleased, rec
  <2> HIDE DEF to, why, new
  <2> QED
    BY <1>m, <2>1, <2>2, <2>3
<1>6. ASSUME ReconcileUnknown(t, a)
      PROVE  TypeInv'
  <2> DEFINE new == [rec EXCEPT !.state = "reconciliation_required",
                                !.resolution = "unknown"]
  <2>1. new \in Attempt
    BY <1>0, AttemptTypes
  <2>2. /\ SetAttempt(t, a, new) /\ Live(t)
        /\ Move(t, "blocked", "reconciliation_required",
                HeldBy(t, "blocked", deps), FreedBy(t, {}, "blocked", deps))
        /\ UNCHANGED <<deps, baseline, evidenceVars, projectVars>>
    BY <1>6 DEF ReconcileUnknown, FreedBy, rec
  <2>3. "blocked" \in LiveStatuses /\ "reconciliation_required" \in Reasons
    BY DEF LiveStatuses, Reasons
  <2> HIDE DEF new
  <2> QED
    BY <1>m, <2>1, <2>2, <2>3
<1>7. ASSUME NEW r \in Revisions, NEW o \in Reports, NEW old \in Attempt, Live(t),
             StoreResult(t, a, old, r, o), NEW targets,
             Move(t, "awaiting_review", None, {},
                  FreedBy(t, targets, "awaiting_review", deps)),
             UNCHANGED <<deps, baseline, projectVars>>
      PROVE  TypeInv'
  <2>1. /\ attempts' \in [Tasks -> Seq(Attempt)]
        /\ results' \in [Tasks -> Seq(Result)]
        /\ checks' \subseteq Check
        /\ UNCHANGED <<rounds, manual>>
    BY <1>7, StoreResultTypes
  <2>2. "awaiting_review" \in LiveStatuses /\ None \in Reasons
    BY DEF LiveStatuses, Reasons
  <2>3. /\ status' \in [Tasks -> Statuses]
        /\ reason' \in [Tasks -> Reasons]
        /\ \A u \in Tasks : Live(u)' => Live(u)
    BY <1>7, <2>2, PropagationIsLive, MoveTypes DEF TypeInv
  <2> QED
    BY <1>7, <2>1, <2>3 DEF TypeInv, TypeOK, HasBaseline, projectVars
<1>8. ASSUME NEW r \in Revisions, NEW o \in Reports, AcceptResult(t, a, r, o)
      PROVE  TypeInv'
  <2>1. /\ Live(t) /\ StoreResult(t, a, rec, r, o)
        /\ Move(t, "awaiting_review", None, {},
                FreedBy(t, {}, "awaiting_review", deps))
        /\ UNCHANGED <<deps, baseline, projectVars>>
    BY <1>8 DEF AcceptResult, FreedBy, rec
  <2> QED
    BY <1>0, <1>7, <2>1
<1>9. ASSUME NEW r \in Revisions, NEW o \in Reports, ReconcileCompleted(t, a, r, o)
      PROVE  TypeInv'
  <2> DEFINE old == [rec EXCEPT !.resolution = "completed"]
  <2>1. old \in Attempt
    BY <1>0, AttemptTypes
  <2>2. /\ Live(t) /\ StoreResult(t, a, old, r, o)
        /\ Move(t, "awaiting_review", None, {},
                FreedBy(t, LiveStatuses \ {"blocked"}, "awaiting_review", deps))
        /\ UNCHANGED <<deps, baseline, projectVars>>
    BY <1>9 DEF ReconcileCompleted, rec
  <2> HIDE DEF old
  <2> QED
    BY <1>7, <2>1, <2>2
<1>10. CASE InternalStep(t, a)
  BY <1>1, <1>2, <1>3, <1>10 DEF InternalStep
<1>11. CASE OperatorStep(t, a)
  BY <1>4, <1>5, <1>6, <1>11 DEF OperatorStep
<1>12. CASE ResultStep(t, a)
  BY <1>8, <1>9, <1>12 DEF ResultStep
<1> QED
  BY <1>10, <1>11, <1>12 DEF AttemptStep

\* Steps of a reviewer and of the project.
LEMMA ReviewStepTypes ==
  ASSUME TypeInv, NEW t \in Tasks, ReviewStep(t)
  PROVE  TypeInv'
<1>1. ASSUME NEW v \in {"approved", "changes_requested"}, ReviewManualCheck(t, v)
      PROVE  TypeInv'
  BY <1>1 DEF ReviewManualCheck, TypeInv, TypeOK, HasBaseline, Live, ManualVerdicts,
              boardVars, projectVars
<1>2. ASSUME RequestChanges(t)
      PROVE  TypeInv'
  <2> DEFINE to  == IF Exhausted(t) THEN "blocked" ELSE "changes_requested"
             why == IF Exhausted(t) THEN "correction_limit_reached" ELSE None
  <2>1. /\ status[t] = "awaiting_review" /\ rounds' = [rounds EXCEPT ![t] = @ + 1]
        /\ Move(t, to, why, HeldBy(t, to, deps), {})
        /\ UNCHANGED <<deps, baseline, attempts, results, checks, manual, projectVars>>
    BY <1>2 DEF RequestChanges, Reviewable
  <2>2. to \in LiveStatuses /\ why \in Reasons /\ Live(t)
    BY <2>1 DEF LiveStatuses, Reasons, Live
  <2> HIDE DEF to, why
  <2>3. /\ status' \in [Tasks -> Statuses]
        /\ reason' \in [Tasks -> Reasons]
        /\ \A u \in Tasks : Live(u)' => Live(u)
    BY <2>1, <2>2, PropagationIsLive, MoveTypes DEF TypeInv
  <2>4. rounds' \in [Tasks -> Nat]
    BY <2>1 DEF TypeInv, TypeOK
  <2> QED
    BY <2>1, <2>3, <2>4 DEF TypeInv, TypeOK, HasBaseline, Live, projectVars
<1>3. ASSUME Approve(t)
      PROVE  TypeInv'
  <2>1. "verified" \in LiveStatuses /\ None \in Reasons /\ Live(t)
    BY <1>3 DEF LiveStatuses, Reasons, Live, Approve, Reviewable
  <2>2. /\ status' \in [Tasks -> Statuses]
        /\ reason' \in [Tasks -> Reasons]
        /\ \A u \in Tasks : Live(u)' => Live(u)
    BY <1>3, <2>1, PropagationIsLive, MoveTypes DEF Approve, TypeInv
  <2> QED
    BY <1>3, <2>2 DEF Approve, TypeInv, TypeOK, HasBaseline, evidenceVars, projectVars
<1> QED
  BY <1>1, <1>2, <1>3 DEF ReviewStep

LEMMA ProjectStepTypes ==
  ASSUME TypeInv, ProjectStep
  PROVE  TypeInv'
<1> USE DEF TypeInv, TypeOK, HasBaseline, Live, boardVars, evidenceVars, projectVars
<1>1. ASSUME NEW c \in Check, RecordTest(c)
      PROVE  TypeInv'
  BY <1>1 DEF RecordTest
<1>2. ASSUME NEW b \in Baselines, NEW approved \in BOOLEAN, DecideBaseline(b, approved)
      PROVE  TypeInv'
  BY <1>2 DEF DecideBaseline
<1>3. ASSUME DecideStage
      PROVE  TypeInv'
  BY <1>3 DEF DecideStage
<1>4. ASSUME NEW n \in Limits, SetLimit(n)
      PROVE  TypeInv'
  BY <1>4 DEF SetLimit
<1> QED
  BY <1>1, <1>2, <1>3, <1>4 DEF ProjectStep

LEMMA TypesAtStart == Init => TypeInv
BY DEF Init, TypeInv, TypeOK, HasBaseline, Live, Statuses, LiveStatuses, Reasons,
       ManualVerdicts

LEMMA TypesStay == TypeInv /\ [Next]_vars => TypeInv'
<1> SUFFICES ASSUME TypeInv, [Next]_vars
             PROVE  TypeInv'
  OBVIOUS
<1>1. CASE UNCHANGED vars
  BY <1>1 DEF vars, TypeInv, TypeOK, HasBaseline, Live
<1>2. CASE Next
  BY <1>2, TaskStepTypes, AttemptStepTypes, ReviewStepTypes, ProjectStepTypes DEF Next
<1> QED
  BY <1>1, <1>2

LEMMA TypesAlways == Spec => []TypeInv
BY TypesAtStart, TypesStay, PTL DEF Spec

\* Every column of the board holds a value of its domain in every reachable
\* state, whatever sequence of commands the tasks went through.
THEOREM BoardTypes == Spec => []TypeOK
<1>1. TypeInv => TypeOK
  BY DEF TypeInv
<1> QED
  BY <1>1, TypesAlways, PTL
-----------------------------------------------------------------------------
(* Work is built on finished work.  Reserve looks at the direct            *)
(* dependencies of one task at one moment, so the property is not inductive *)
(* as it stands: what makes it last is that nothing takes a task out of     *)
(* "verified" but a deletion no dependent allows, that the dependencies of  *)
(* a task freeze with its first attempt, and that a verified task had one,  *)
(* which carries the fact from the direct dependencies to all the others.   *)

StartedOnDone ==
  \A t \in Tasks : Live(t) /\ attempts[t] # <<>> =>
    \A x \in deps[t] : status[x] = "verified"

DoneWasStarted == \A t \in Tasks : status[t] = "verified" => attempts[t] # <<>>

ResultsFromAttempts == \A t \in Tasks : results[t] # <<>> => attempts[t] # <<>>

NothingBeforeCreation == \A t \in Tasks : status[t] = "absent" => attempts[t] = <<>>

PrereqInv == /\ TypeInv
             /\ StartedOnDone
             /\ DoneWasStarted
             /\ ResultsFromAttempts
             /\ NothingBeforeCreation

\* The tasks a verified task hangs on are verified, so everything reachable
\* from a started task is.
LEMMA DoneAllTheWay == PrereqInv => PrerequisitesVerified
<1> SUFFICES ASSUME PrereqInv, NEW t \in Tasks, Live(t), attempts[t] # <<>>,
                    NEW a \in AncestorsOf(t, deps)
             PROVE  status[a] = "verified"
  BY DEF PrerequisitesVerified
<1> DEFINE S == {x \in Tasks : status[x] = "verified"}
<1>1. deps[t] \subseteq S
  BY DEF PrereqInv, StartedOnDone, TypeInv, TypeOK
<1>2. \A x \in S : deps[x] \subseteq S
  BY DEF PrereqInv, StartedOnDone, DoneWasStarted, TypeInv, TypeOK, Live, LiveStatuses
<1>3. a \in S
  <2>1. S \in SUBSET Tasks
    OBVIOUS
  <2> QED
    BY <1>1, <1>2, <2>1 DEF AncestorsOf, Reachable
<1> QED
  BY <1>3

\* A step of this kind keeps the invariant: it takes no task out of
\* "verified", creates or starts none, and leaves the dependencies of the
\* started ones.
LEMMA QuietStep ==
  ASSUME PrereqInv, TypeInv',
         \A u \in Tasks :
           /\ status[u] = "verified" => status'[u] = "verified"
           /\ status'[u] = "verified" => attempts[u] # <<>>
           /\ status'[u] = "absent" => status[u] = "absent"
           /\ attempts[u] # <<>> => deps'[u] = deps[u] /\ (Live(u)' => Live(u))
           /\ attempts'[u] # <<>> <=> attempts[u] # <<>>
           /\ results'[u] # <<>> => attempts[u] # <<>>
  PROVE  PrereqInv'
<1>1. StartedOnDone'
  BY DEF PrereqInv, StartedOnDone, TypeInv, TypeOK
<1>2. DoneWasStarted' /\ ResultsFromAttempts' /\ NothingBeforeCreation'
  BY DEF PrereqInv, DoneWasStarted, ResultsFromAttempts, NothingBeforeCreation
<1> QED
  BY <1>1, <1>2 DEF PrereqInv

\* The table lets nothing leave "verified", and propagation spares it.
LEMMA VerifiedIsFinal ==
  ASSUME NEW to, NEW why
  PROVE  CanMove("verified", to, why) => to = "verified"
BY DEF CanMove, Transitions

LEMMA MoveKeepsVerified ==
  ASSUME TypeOK, NEW t \in Tasks, NEW to \in LiveStatuses, NEW why, NEW why2,
         NEW targets, CanMove(status[t], to, why2),
         Move(t, to, why, HeldBy(t, to, deps'), FreedBy(t, targets, to, deps'))
  PROVE  \A u \in Tasks :
           /\ status[u] = "verified" => status'[u] = "verified"
           /\ status'[u] = "verified" => status[u] = "verified" \/ (u = t /\ to = "verified")
           /\ status'[u] = "absent" => status[u] = "absent"
           /\ Live(u)' /\ u # t => Live(u)
<1>1. status[t] = "verified" => to = "verified"
  BY VerifiedIsFinal
<1>2. \A u \in HeldBy(t, to, deps') \cup FreedBy(t, targets, to, deps') :
         status[u] # "verified" /\ Live(u)
  BY DEF HeldBy, FreedBy, Blocks, Frees, Propagating, Live, LiveStatuses
<1> QED
  BY <1>1, <1>2 DEF Move, LiveStatuses, Live, TypeOK

LEMMA SetAttemptKeepsStarted ==
  ASSUME TypeOK, NEW t \in Tasks, NEW a \in DOMAIN attempts[t], NEW rec,
         SetAttempt(t, a, rec)
  PROVE  /\ attempts[t] # <<>>
         /\ \A u \in Tasks : attempts'[u] # <<>> <=> attempts[u] # <<>>
<1>1. attempts[t] \in Seq(Attempt) /\ attempts[t] # <<>>
  BY DEF TypeOK
<1>2. [attempts[t] EXCEPT ![a] = rec] # <<>>
  <2>1. DOMAIN [attempts[t] EXCEPT ![a] = rec] = DOMAIN attempts[t]
    OBVIOUS
  <2>2. DOMAIN attempts[t] # DOMAIN <<>>
    BY <1>1
  <2> QED
    BY <2>1, <2>2
<1> QED
  BY <1>1, <1>2 DEF SetAttempt, TypeOK

LEMMA TaskStepPrereq ==
  ASSUME PrereqInv, TypeInv', NEW t \in Tasks, TaskStep(t)
  PROVE  PrereqInv'
<1>0. TypeOK
  BY DEF PrereqInv, TypeInv
<1>1. ASSUME NEW b \in Baselines, NEW D \in SUBSET Tasks, CreateTask(t, b, D)
      PROVE  PrereqInv'
  <2>1. attempts[t] = <<>>
    BY <1>1 DEF CreateTask, PrereqInv, NothingBeforeCreation
  <2> QED
    BY <1>0, <1>1, <2>1, QuietStep
       DEF CreateTask, TypeOK, Live, LiveStatuses, PrereqInv, DoneWasStarted,
           ResultsFromAttempts, evidenceVars
<1>2. ASSUME NEW D \in SUBSET Tasks, EditDependencies(t, D)
      PROVE  PrereqInv'
  BY <1>0, <1>2, QuietStep
     DEF EditDependencies, ScopeEditable, TypeOK, Live, PrereqInv, DoneWasStarted,
         ResultsFromAttempts, evidenceVars
<1>3. ASSUME NEW D \in SUBSET Tasks, NEW to \in UserSettable, SetStatus(t, D, to)
      PROVE  PrereqInv'
  <2> DEFINE why == IF reason[t] \in SystemOwned THEN reason[t] ELSE None
  <2>1. /\ Live(t) /\ deps' = [deps EXCEPT ![t] = D]
        /\ D # deps[t] => attempts[t] = <<>>
        /\ CanMove(status[t], to, reason[t])
        /\ Move(t, to, why, HeldBy(t, to, deps'), FreedBy(t, {"draft", "ready"}, to, deps'))
        /\ UNCHANGED <<attempts, results>>
    BY <1>3 DEF SetStatus, ScopeEditable, evidenceVars
  <2>2. to \in LiveStatuses /\ to # "verified"
    BY DEF UserSettable, LiveStatuses
  <2> HIDE DEF why
  <2>3. \A u \in Tasks :
          /\ status[u] = "verified" <=> status'[u] = "verified"
          /\ status'[u] = "absent" => status[u] = "absent"
          /\ Live(u)' => Live(u)
    BY <1>0, <2>1, <2>2, MoveKeepsVerified
  <2> QED
    BY <1>0, <2>1, <2>3, QuietStep DEF PrereqInv, DoneWasStarted, ResultsFromAttempts, TypeOK
<1>4. ASSUME DeleteTask(t)
      PROVE  PrereqInv'
  <2>1. \A u \in Tasks : Live(u) => t \notin deps[u]
    BY <1>4 DEF DeleteTask, Dependents
  <2>2. \A u \in Tasks : u # t => status'[u] = status[u]
    BY <1>0, <1>4 DEF DeleteTask, TypeOK
  <2>3. status'[t] = "archived" /\ UNCHANGED <<deps, attempts, results>>
    BY <1>0, <1>4 DEF DeleteTask, TypeOK, evidenceVars
  <2>4. \A u \in Tasks : Live(u)' => Live(u)
    BY <1>4, <2>2, <2>3 DEF DeleteTask, Live
  <2>5. StartedOnDone'
    BY <1>0, <2>1, <2>2, <2>3, <2>4 DEF StartedOnDone, PrereqInv, TypeOK, Live, LiveStatuses
  <2> QED
    BY <2>2, <2>3, <2>5 DEF PrereqInv, DoneWasStarted, ResultsFromAttempts, NothingBeforeCreation
<1>5. ASSUME NEW k \in Keys, Reserve(t, k)
      PROVE  PrereqInv'
  <2>1. /\ \A x \in deps[t] : status[x] = "verified"
        /\ status[t] \in {"ready", "changes_requested"}
        /\ status' = [status EXCEPT ![t] = "executing"]
        /\ attempts' = [attempts EXCEPT ![t] = Append(@, NewAttempt(k))]
        /\ UNCHANGED <<deps, results>>
    BY <1>5 DEF Reserve, evidenceVars
  <2>2. attempts'[t] # <<>>
    <3>1. attempts[t] \in Seq(Attempt)
      BY <1>0 DEF TypeOK
    <3>2. Append(attempts[t], NewAttempt(k)) # <<>>
      BY <3>1
    <3> QED
      BY <1>0, <2>1, <3>2 DEF TypeOK
  <2>3. \A u \in Tasks : u # t => attempts'[u] = attempts[u] /\ status'[u] = status[u]
    BY <1>0, <2>1 DEF TypeOK
  <2>4. \A x \in Tasks : status[x] = "verified" <=> status'[x] = "verified"
    BY <1>0, <2>1 DEF TypeOK
  <2>5. StartedOnDone'
    BY <1>0, <2>1, <2>3, <2>4 DEF PrereqInv, StartedOnDone, TypeOK, Live
  <2>6. DoneWasStarted' /\ ResultsFromAttempts' /\ NothingBeforeCreation'
    BY <1>0, <2>1, <2>2, <2>3, <2>4
       DEF PrereqInv, DoneWasStarted, ResultsFromAttempts, NothingBeforeCreation, TypeOK
  <2> QED
    BY <2>5, <2>6 DEF PrereqInv
<1> QED
  BY <1>1, <1>2, <1>3, <1>4, <1>5 DEF TaskStep, PlanStep

LEMMA AttemptStepPrereq ==
  ASSUME PrereqInv, TypeInv', NEW t \in Tasks, NEW a \in DOMAIN attempts[t],
         AttemptStep(t, a)
  PROVE  PrereqInv'
<1>0. TypeOK
  BY DEF PrereqInv, TypeInv
<1>a. ASSUME NEW rec, SetAttempt(t, a, rec), UNCHANGED <<status, deps, results>>
      PROVE  PrereqInv'
  BY <1>0, <1>a, SetAttemptKeepsStarted, QuietStep
     DEF PrereqInv, DoneWasStarted, ResultsFromAttempts, Live
<1>1. ASSUME NEW w \in Workers, Claim(t, a, w)
      PROVE  PrereqInv'
  BY <1>1, <1>a DEF Claim, boardVars, evidenceVars
<1>2. ASSUME NEW f \in Workflows, NEW sent \in BOOLEAN, LinkWorkflow(t, a, f, sent)
      PROVE  PrereqInv'
  BY <1>2, <1>a DEF LinkWorkflow, boardVars, evidenceVars
<1>3. ASSUME MarkDelivered(t, a)
      PROVE  PrereqInv'
  BY <1>3, <1>a DEF MarkDelivered, boardVars, evidenceVars
<1>4. ASSUME Cancel(t, a)
      PROVE  PrereqInv'
  BY <1>4, <1>a DEF Cancel, boardVars, evidenceVars
<1>m. ASSUME NEW rec, SetAttempt(t, a, rec), Live(t),
             NEW to \in LiveStatuses \ {"verified"}, NEW why, NEW why2, NEW targets,
             CanMove(status[t], to, why2),
             Move(t, to, why, HeldBy(t, to, deps), FreedBy(t, targets, to, deps)),
             UNCHANGED deps,
             \A u \in Tasks : u # t => results'[u] = results[u]
      PROVE  PrereqInv'
  <2>1. /\ attempts[t] # <<>>
        /\ \A u \in Tasks : attempts'[u] # <<>> <=> attempts[u] # <<>>
    BY <1>0, <1>m, SetAttemptKeepsStarted
  <2>2. \A u \in Tasks :
          /\ status[u] = "verified" <=> status'[u] = "verified"
          /\ status'[u] = "absent" => status[u] = "absent"
          /\ Live(u)' => Live(u)
    BY <1>0, <1>m, MoveKeepsVerified
  <2> QED
    BY <1>m, <2>1, <2>2, QuietStep DEF PrereqInv, DoneWasStarted, ResultsFromAttempts
<1>5. ASSUME NEW res \in {"not_started", "stopped"}, ReconcileReleased(t, a, res)
      PROVE  PrereqInv'
  <2> DEFINE to  == ReleaseTarget(t, a)
             why == IF ~CorrectionRound(t, a) /\ BlockedAncestors(t, deps) # {}
                      THEN "dependency_blocked" ELSE None
             new == [attempts[t][a] EXCEPT !.state = "closed", !.resolution = res,
                       !.outcome = IF attempts[t][a].cancelAsked THEN "cancelled" ELSE res]
  <2>1. to \in LiveStatuses \ {"verified"}
    BY DEF ReleaseTarget, LiveStatuses
  <2>2. /\ SetAttempt(t, a, new) /\ Live(t) /\ CanMove(status[t], to, None)
        /\ Move(t, to, why, HeldBy(t, to, deps),
                FreedBy(t, LiveStatuses \ {"blocked"}, to, deps))
        /\ UNCHANGED <<deps, results>>
    BY <1>5 DEF ReconcileReleased, evidenceVars
  <2> HIDE DEF to, why, new
  <2> QED
    BY <1>m, <2>1, <2>2
<1>6. ASSUME ReconcileUnknown(t, a)
      PROVE  PrereqInv'
  <2> DEFINE new == [attempts[t][a] EXCEPT !.state = "reconciliation_required",
                                           !.resolution = "unknown"]
  <2>1. /\ SetAttempt(t, a, new) /\ Live(t) /\ CanMove(status[t], "blocked", None)
        /\ Move(t, "blocked", "reconciliation_required",
                HeldBy(t, "blocked", deps), FreedBy(t, {}, "blocked", deps))
        /\ UNCHANGED <<deps, results>>
    BY <1>6 DEF ReconcileUnknown, FreedBy, evidenceVars
  <2>2. "blocked" \in LiveStatuses \ {"verified"}
    BY DEF LiveStatuses
  <2> HIDE DEF new
  <2> QED
    BY <1>m, <2>1, <2>2
<1>7. ASSUME NEW r \in Revisions, NEW o \in Reports, NEW old, Live(t),
             StoreResult(t, a, old, r, o), NEW targets,
             Move(t, "awaiting_review", None, {},
                  FreedBy(t, targets, "awaiting_review", deps)),
             UNCHANGED deps
      PROVE  PrereqInv'
  <2>1. /\ SetAttempt(t, a, WithResult(old))
        /\ CanMove(status[t], "awaiting_review", reason[t])
        /\ \A u \in Tasks : u # t => results'[u] = results[u]
    BY <1>0, <1>7 DEF StoreResult, TypeOK
  <2>2. "awaiting_review" \in LiveStatuses \ {"verified"}
    BY DEF LiveStatuses
  <2>3. HeldBy(t, "awaiting_review", deps) = {}
    BY DEF HeldBy
  <2> QED
    BY <1>7, <1>m, <2>1, <2>2, <2>3
<1>8. ASSUME NEW r \in Revisions, NEW o \in Reports, AcceptResult(t, a, r, o)
      PROVE  PrereqInv'
  <2>1. Move(t, "awaiting_review", None, {}, FreedBy(t, {}, "awaiting_review", deps))
    BY <1>8 DEF AcceptResult, FreedBy
  <2> QED
    BY <1>7, <1>8, <2>1 DEF AcceptResult
<1>9. ASSUME NEW r \in Revisions, NEW o \in Reports, ReconcileCompleted(t, a, r, o)
      PROVE  PrereqInv'
  <2> DEFINE old == [attempts[t][a] EXCEPT !.resolution = "completed"]
  <2>1. /\ Live(t) /\ StoreResult(t, a, old, r, o)
        /\ Move(t, "awaiting_review", None, {},
                FreedBy(t, LiveStatuses \ {"blocked"}, "awaiting_review", deps))
        /\ UNCHANGED deps
    BY <1>9 DEF ReconcileCompleted
  <2> HIDE DEF old
  <2> QED
    BY <1>7, <2>1
<1>10. CASE InternalStep(t, a)
  BY <1>1, <1>2, <1>3, <1>10 DEF InternalStep
<1>11. CASE OperatorStep(t, a)
  BY <1>4, <1>5, <1>6, <1>11 DEF OperatorStep
<1>12. CASE ResultStep(t, a)
  BY <1>8, <1>9, <1>12 DEF ResultStep
<1> QED
  BY <1>10, <1>11, <1>12 DEF AttemptStep

LEMMA ReviewStepPrereq ==
  ASSUME PrereqInv, TypeInv', NEW t \in Tasks, ReviewStep(t)
  PROVE  PrereqInv'
<1>0. TypeOK
  BY DEF PrereqInv, TypeInv
<1> USE DEF PrereqInv, DoneWasStarted, ResultsFromAttempts
<1>1. ASSUME NEW v \in {"approved", "changes_requested"}, ReviewManualCheck(t, v)
      PROVE  PrereqInv'
  BY <1>1, QuietStep DEF ReviewManualCheck, boardVars, Live
<1>2. ASSUME RequestChanges(t)
      PROVE  PrereqInv'
  <2> DEFINE to  == IF Exhausted(t) THEN "blocked" ELSE "changes_requested"
             why == IF Exhausted(t) THEN "correction_limit_reached" ELSE None
  <2>1. /\ status[t] = "awaiting_review" /\ CanMove(status[t], to, reason[t])
        /\ Move(t, to, why, HeldBy(t, to, deps), FreedBy(t, {}, to, deps))
        /\ UNCHANGED <<deps, attempts, results>>
    BY <1>2 DEF RequestChanges, Reviewable, FreedBy
  <2>2. to \in LiveStatuses \ {"verified"} /\ Live(t)
    BY <2>1 DEF LiveStatuses, Live
  <2> HIDE DEF to, why
  <2>3. \A u \in Tasks :
          /\ status[u] = "verified" <=> status'[u] = "verified"
          /\ status'[u] = "absent" => status[u] = "absent"
          /\ Live(u)' => Live(u)
    BY <1>0, <2>1, <2>2, MoveKeepsVerified
  <2> QED
    BY <2>1, <2>3, QuietStep
<1>3. ASSUME Approve(t)
      PROVE  PrereqInv'
  <2>1. /\ status[t] = "awaiting_review" /\ attempts[t] # <<>> /\ Live(t)
        /\ UNCHANGED <<deps, attempts, results>>
    BY <1>3 DEF Approve, Reviewable, evidenceVars, Live, LiveStatuses
  <2>2. \A u \in Tasks :
          /\ status[u] = "verified" => status'[u] = "verified"
          /\ status'[u] = "verified" => status[u] = "verified" \/ u = t
          /\ status'[u] = "absent" => status[u] = "absent"
          /\ Live(u)' => Live(u)
    BY <1>0, <1>3, <2>1 DEF Approve, Move, Frees, TypeOK, Live, LiveStatuses
  <2> QED
    BY <2>1, <2>2, QuietStep
<1> QED
  BY <1>1, <1>2, <1>3 DEF ReviewStep

LEMMA ProjectStepPrereq ==
  ASSUME PrereqInv, TypeInv', ProjectStep
  PROVE  PrereqInv'
<1>1. UNCHANGED <<status, deps, attempts, results>>
  BY DEF ProjectStep, RecordTest, DecideBaseline, DecideStage, SetLimit, boardVars, evidenceVars
<1> QED
  BY <1>1, QuietStep DEF PrereqInv, DoneWasStarted, ResultsFromAttempts, Live

LEMMA PrereqAtStart == Init => PrereqInv
BY TypesAtStart
   DEF Init, PrereqInv, StartedOnDone, DoneWasStarted, ResultsFromAttempts,
       NothingBeforeCreation

LEMMA PrereqStays == PrereqInv /\ [Next]_vars => PrereqInv'
<1> SUFFICES ASSUME PrereqInv, [Next]_vars
             PROVE  PrereqInv'
  OBVIOUS
<1>1. TypeInv'
  BY TypesStay DEF PrereqInv
<1>2. CASE UNCHANGED vars
  BY <1>1, <1>2, QuietStep DEF vars, PrereqInv, DoneWasStarted, ResultsFromAttempts, Live
<1>3. CASE Next
  BY <1>1, <1>3, TaskStepPrereq, AttemptStepPrereq, ReviewStepPrereq, ProjectStepPrereq
     DEF Next
<1> QED
  BY <1>2, <1>3

\* Whatever a task was ever started on is finished and stays finished: in
\* every reachable state, all the tasks a started task depends on, directly
\* or not, are verified.  Rests on the reservation gate, the freezing of
\* dependencies, the lifecycle table and the rule for deletions.
THEOREM StartedOnVerifiedWork == Spec => []PrerequisitesVerified
<1>1. Spec => []PrereqInv
  BY PrereqAtStart, PrereqStays, PTL DEF Spec
<1> QED
  BY <1>1, DoneAllTheWay, PTL
=============================================================================
