---------------------------- MODULE DeliveryTasks ----------------------------
(***************************************************************************)
(* The task board of one Delivery OS project: the task lifecycle, the      *)
(* dependency graph, the register of execution attempts, the acceptance of *)
(* results and their review.                                               *)
(*                                                                         *)
(* Every command of the code runs in one database transaction under a row  *)
(* lock of the task (and, when it looks at other tasks, of the project and *)
(* of all its tasks), so a command is one action here.  A command that     *)
(* answers with an error, or replays an earlier one, changes nothing and   *)
(* is a stuttering step.                                                   *)
(*                                                                         *)
(* An operator named Fault... is a plausible mistake in the operator that  *)
(* follows it.  Nothing uses it: it is there to show, put in the place of  *)
(* that operator, which property would notice the mistake.                 *)
(***************************************************************************)
EXTENDS Naturals, Sequences, FiniteSets

CONSTANTS
  Tasks,        \* the task rows of the project
  Baselines,    \* the baseline versions of the project, positive numbers
  Revisions,    \* the source revisions a result or a test can name
  Keys,         \* the idempotency keys requests can carry
  Workers,      \* the references workers claim an attempt with
  Workflows,    \* the workflow instances an attempt can be linked to
  ManualTasks,  \* the tasks whose criterion has a manual check
  Reports,      \* what manifests say of the required test; None: nothing
  TestSubjects, \* the tasks test evidence is recorded for; None: the project
  HasFlow,      \* whether a flow template, with its stage gate, gets pinned
  Limits,       \* the values project.limits.maxCorrectionRounds can take
  MaxAttempts   \* MAX_EXECUTION_ATTEMPTS: attempts recorded per task

None == "none"          \* a null column
NoBaseline == 0         \* project.activeBaselineId = null

ASSUME ConstantsAssumption ==
  /\ Baselines \subseteq Nat \ {NoBaseline}
  /\ Limits \subseteq Nat
  /\ MaxAttempts \in Nat
  /\ ManualTasks \subseteq Tasks
  /\ Reports \subseteq {None, "passed", "failed"}
  /\ TestSubjects \subseteq Tasks \cup {None}
  /\ HasFlow \in BOOLEAN
  /\ None \notin Revisions \cup Workers \cup Workflows

VARIABLES
  status,    \* task.status; "absent" before creation, "archived" once deleted
  reason,    \* task.statusReason
  deps,      \* task.dependsOnTaskIds
  baseline,  \* task.baselineId
  attempts,  \* task.executionAttempts, the register
  results,   \* the result_manifest evidence rows of the task, oldest first
  rounds,    \* how many changes_requested reviews the task has
  checks,    \* the test outcomes reported by manifests and test evidence
  manual,    \* the newest verdict of the manual check, per revision
  active,    \* project.activeBaselineId
  flowOpen,  \* whether the stage gate lets work start; open without a flow
  limit      \* project.limits.maxCorrectionRounds

vars == <<status, reason, deps, baseline, attempts, results, rounds, checks,
          manual, active, flowOpen, limit>>

boardVars    == <<status, reason, deps, baseline>>
evidenceVars == <<results, rounds, checks, manual>>
projectVars  == <<active, flowOpen, limit>>

-----------------------------------------------------------------------------
(* The values of the columns.                                              *)

LiveStatuses == {"draft", "ready", "executing", "awaiting_review",
                 "changes_requested", "verified", "blocked", "cancelled"}
Statuses == LiveStatuses \cup {"absent", "archived"}
Reasons  == {None, "reconciliation_required", "dependency_blocked",
             "correction_limit_reached"}

ActiveStates  == {"reserved", "claimed", "cancel_requested"}
AttemptStates == ActiveStates \cup
                   {"result_received", "reconciliation_required", "closed"}
Resolutions   == {"not_started", "stopped", "completed", "unknown"}
Outcomes      == {"result_accepted", "cancelled", "not_started", "stopped"}

Attempt == [key        : Keys,
            state      : AttemptStates,
            worker     : Workers \cup {None},
            workflow   : Workflows \cup {None},
            dispatched : BOOLEAN,
            cancelAsked: BOOLEAN,
            resolution : Resolutions \cup {None},
            result     : BOOLEAN,
            delivery   : {None, "pending", "delivered"},
            outcome    : Outcomes \cup {None}]

Result == [attempt : Nat, revision : Revisions]

Check == [subject  : Tasks \cup {None},   \* None: a project-level test
          baseline : Baselines,
          revision : Revisions,
          passed   : BOOLEAN]

ManualVerdicts == {"missing", "approved", "changes_requested"}

-----------------------------------------------------------------------------
(* The dependency graph.                                                   *)

\* The tasks reachable from t over one or more dependency edges.
Reachable(t, d) ==
  {a \in Tasks : \A S \in SUBSET Tasks :
     (d[t] \subseteq S /\ \A x \in S : d[x] \subseteq S) => a \in S}

AncestorsOf(t, d)   == Reachable(t, d) \ {t}
DescendantsOf(t, d) == {x \in Tasks \ {t} : t \in Reachable(x, d)}

Live(t) == status[t] \in LiveStatuses

\* Fault: only a task that depends on itself is refused.
FaultNoCycleSearch(t, b, D) ==
  \A x \in D : x # t /\ Live(x) /\ baseline[x] = b

\* Dependencies name other live tasks of the project on the same baseline
\* and never close a cycle.
DependenciesAllowed(t, b, D) ==
  /\ \A x \in D : x # t /\ Live(x) /\ baseline[x] = b
  /\ \A x \in D : t \notin Reachable(x, [deps EXCEPT ![t] = D])

BlockedAncestors(t, d) == {a \in AncestorsOf(t, d) : status[a] = "blocked"}

-----------------------------------------------------------------------------
(* The lifecycle table and its gates.                                      *)

Transitions ==
  [draft             |-> {"ready", "blocked", "cancelled"},
   ready             |-> {"draft", "executing", "blocked", "cancelled"},
   executing         |-> {"awaiting_review", "ready", "changes_requested",
                          "blocked"},
   awaiting_review   |-> {"changes_requested", "verified", "blocked",
                          "cancelled"},
   changes_requested |-> {"executing", "blocked", "cancelled"},
   blocked           |-> {"draft", "ready", "awaiting_review",
                          "changes_requested", "cancelled"},
   verified          |-> {},
   cancelled         |-> {}]

UserSettable == {"draft", "ready", "blocked", "cancelled"}
ReconciliationLocked == {"ready", "executing", "changes_requested"}
Propagating  == {"draft", "ready"}

\* Fault: the escalation is not kept when a user moves the task.
FaultSystemOwned == {"reconciliation_required"}

SystemOwned  == {"reconciliation_required", "correction_limit_reached"}

\* canTransition without the gates that need more than the task itself.
\* `why' is the status reason the gate is asked with.
CanMove(from, to, why) ==
  \/ from = to
  \/ /\ to \in Transitions[from]
     /\ why = "reconciliation_required" => to \notin ReconciliationLocked
     /\ why = "correction_limit_reached" => to = "cancelled"

\* Baseline approved and active, and the stage gate of the flow passed.
ReadyGate(t) == baseline[t] = active /\ flowOpen

-----------------------------------------------------------------------------
(* Block propagation.                                                      *)

\* A task that is blocked for a reason of its own.
RootBlocked(u) == status[u] = "blocked" /\ reason[u] # "dependency_blocked"

\* Fault: every descendant waits, whatever became of it.
FaultBlockFinished(t, d) == DescendantsOf(t, d)
\* Fault: only the direct dependents wait.
FaultBlockDirect(t, d) == {u \in Tasks : t \in d[u] /\ status[u] \in Propagating}

\* The descendants of t that start to wait when t becomes blocked.
Blocks(t, d) == {u \in DescendantsOf(t, d) : status[u] \in Propagating}

\* Fault: a second blocked ancestor is forgotten.
FaultFreeAll(t, d) ==
  {u \in DescendantsOf(t, d) :
     status[u] = "blocked" /\ reason[u] = "dependency_blocked"}

\* The descendants of t that are freed when t is blocked no longer.
Frees(t, d) ==
  {u \in DescendantsOf(t, d) :
     /\ status[u] = "blocked"
     /\ reason[u] = "dependency_blocked"
     /\ \A a \in AncestorsOf(u, d) \ {t} : ~RootBlocked(a)}

\* t moves to `to', the tasks of `held' are blocked with it and the tasks
\* of `freed' return to draft.
Move(t, to, why, held, freed) ==
  /\ status' = [u \in Tasks |-> IF u = t THEN to
                                ELSE IF u \in held THEN "blocked"
                                ELSE IF u \in freed THEN "draft"
                                ELSE status[u]]
  /\ reason' = [u \in Tasks |-> IF u = t THEN why
                                ELSE IF u \in held THEN "dependency_blocked"
                                ELSE IF u \in freed THEN None
                                ELSE reason[u]]

HeldBy(t, to, d) ==
  IF to = "blocked" /\ status[t] # "blocked" THEN Blocks(t, d) ELSE {}
FreedBy(t, targets, to, d) ==
  IF status[t] = "blocked" /\ to \in targets THEN Frees(t, d) ELSE {}

-----------------------------------------------------------------------------
(* The attempt register.                                                   *)

ActiveAttempts(t) ==
  {a \in DOMAIN attempts[t] : attempts[t][a].state \in ActiveStates}
UnknownAttempts(t) ==
  {a \in DOMAIN attempts[t] : attempts[t][a].state = "reconciliation_required"}
OpenAttempts(t) == ActiveAttempts(t) \cup UnknownAttempts(t)

\* Fault: an attempt of unknown fate does not hold the task.
FaultSettled(t) == ActiveAttempts(t) = {} /\ status[t] # "executing"

\* checkProjectArchivable for one task: nothing runs and nothing is unknown.
Settled(t) ==
  /\ OpenAttempts(t) = {}
  /\ reason[t] # "reconciliation_required"
  /\ status[t] # "executing"

SetAttempt(t, a, rec) == attempts' = [attempts EXCEPT ![t][a] = rec]

NewAttempt(k) ==
  [key |-> k, state |-> "reserved", worker |-> None, workflow |-> None,
   dispatched |-> FALSE, cancelAsked |-> FALSE, resolution |-> None,
   result |-> FALSE, delivery |-> None, outcome |-> None]

\* Fault: a delivery state the register does not know.
FaultDeliveryFailed(rec) ==
  [rec EXCEPT !.state = "result_received", !.result = TRUE,
              !.delivery = "failed", !.outcome = "result_accepted"]
\* Fault: a result is owed even when no workflow waits for it.
FaultAlwaysOwed(rec) ==
  [rec EXCEPT !.state = "result_received", !.result = TRUE,
              !.delivery = "pending", !.outcome = "result_accepted"]

\* recordAttemptResult followed by closeAttempt.
WithResult(rec) ==
  [rec EXCEPT !.state    = "result_received",
              !.result   = TRUE,
              !.delivery = IF rec.workflow = None THEN None ELSE "pending",
              !.outcome  = "result_accepted"]

\* Fault: a cancellation does not shut out the result.
FaultAcceptCancelled(rec) ==
  rec.state \in ActiveStates \/ rec.resolution = "completed"
\* Fault: an attempt that has its result takes another.
FaultAcceptTwice(rec) ==
  rec.state \in {"reserved", "claimed", "result_received"}

\* checkAttemptAcceptsResult
AcceptsResult(rec) ==
  \/ rec.state \in {"reserved", "claimed"}
  \/ /\ rec.state \in {"cancel_requested", "reconciliation_required"}
     /\ rec.resolution = "completed"

-----------------------------------------------------------------------------
(* Proof of the acceptance criterion of a task on a revision.              *)

CountedChecks(t, r) ==
  {c \in checks : /\ c.subject \in {t, None}
                  /\ c.baseline = baseline[t]
                  /\ c.revision = r}

\* A failed check is never outranked; the manual check must be approved.
Proven(t, r) ==
  /\ \E c \in CountedChecks(t, r) : c.passed
  /\ \A c \in CountedChecks(t, r) : c.passed
  /\ t \in ManualTasks => manual[t][r] = "approved"

\* Fault: the first result is reviewed again.
FaultFirstResult(t) == results[t][1]

LatestResult(t) == results[t][Len(results[t])]

-----------------------------------------------------------------------------
Init ==
  /\ status   = [t \in Tasks |-> "absent"]
  /\ reason   = [t \in Tasks |-> None]
  /\ deps     = [t \in Tasks |-> {}]
  /\ baseline = [t \in Tasks |-> NoBaseline]
  /\ attempts = [t \in Tasks |-> <<>>]
  /\ results  = [t \in Tasks |-> <<>>]
  /\ rounds   = [t \in Tasks |-> 0]
  /\ checks   = {}
  /\ manual   = [t \in Tasks |-> [r \in Revisions |-> "missing"]]
  /\ active   = NoBaseline
  /\ flowOpen = TRUE
  /\ limit \in Limits

(* tasks.create *)
CreateTask(t, b, D) ==
  /\ status[t] = "absent"
  /\ DependenciesAllowed(t, b, D)
  /\ status'   = [status EXCEPT ![t] = "draft"]
  /\ deps'     = [deps EXCEPT ![t] = D]
  /\ baseline' = [baseline EXCEPT ![t] = b]
  /\ UNCHANGED <<reason, attempts, evidenceVars, projectVars>>

(* tasks.update, when it replaces the dependencies and leaves the status. *)
\* Fault: a task that was attempted can be edited.
FaultScopeEditable(t) == status[t] \in {"draft", "blocked"}

ScopeEditable(t) == status[t] \in {"draft", "blocked"} /\ attempts[t] = <<>>

EditDependencies(t, D) ==
  /\ Live(t) /\ ScopeEditable(t)
  /\ DependenciesAllowed(t, baseline[t], D)
  /\ deps' = [deps EXCEPT ![t] = D]
  /\ UNCHANGED <<status, reason, baseline, attempts, evidenceVars, projectVars>>

\* Fault: a task with an accepted result can be reopened.
FaultReopen(t, to, d) ==
  to = "draft" /\ status[t] = "blocked" => BlockedAncestors(t, d) = {}

ReopenAllowed(t, to, d) ==
  to \in {"draft", "ready"} =>
    /\ \A a \in DOMAIN attempts[t] : ~attempts[t][a].result
    /\ to = "draft" /\ status[t] = "blocked" => BlockedAncestors(t, d) = {}

(* tasks.update, when it changes the status; the same call may replace the *)
(* dependencies (D differs from deps[t]).                                  *)
SetStatus(t, D, to) ==
  LET d == [deps EXCEPT ![t] = D] IN
  /\ Live(t) /\ to # status[t]
  /\ D # deps[t] => /\ ScopeEditable(t)
                    /\ DependenciesAllowed(t, baseline[t], D)
  /\ Settled(t)
  /\ to \in UserSettable /\ CanMove(status[t], to, reason[t])
  /\ to = "ready" => ReadyGate(t) /\ BlockedAncestors(t, d) = {}
  /\ ReopenAllowed(t, to, d)
  /\ deps' = d
  /\ Move(t, to,
          IF reason[t] \in SystemOwned THEN reason[t] ELSE None,
          HeldBy(t, to, d), FreedBy(t, {"draft", "ready"}, to, d))
  /\ UNCHANGED <<baseline, attempts, evidenceVars, projectVars>>

\* Fault: dependents whose work has begun do not count.
FaultDependents(t) ==
  {u \in Tasks : Live(u) /\ t \in deps[u] /\ status[u] \in Propagating}

Dependents(t) == {u \in Tasks : Live(u) /\ t \in deps[u]}

(* tasks.delete: the row is archived. *)
DeleteTask(t) ==
  /\ Live(t) /\ Settled(t)
  /\ Dependents(t) = {}
  /\ status' = [status EXCEPT ![t] = "archived"]
  /\ UNCHANGED <<reason, deps, baseline, attempts, evidenceVars, projectVars>>

-----------------------------------------------------------------------------
(* attempts.reserve.  A key the register already holds is a replay or a    *)
(* conflict and changes nothing.                                           *)
Reserve(t, k) ==
  /\ status[t] \in {"ready", "changes_requested"}
  /\ \A a \in DOMAIN attempts[t] : attempts[t][a].key # k
  /\ OpenAttempts(t) = {}
  /\ Len(attempts[t]) < MaxAttempts
  /\ \A x \in deps[t] : status[x] = "verified"
  /\ ReadyGate(t)
  /\ CanMove(status[t], "executing", reason[t])
  /\ rounds[t] <= limit
  /\ attempts' = [attempts EXCEPT ![t] = Append(@, NewAttempt(k))]
  /\ status' = [status EXCEPT ![t] = "executing"]
  /\ reason' = [reason EXCEPT ![t] = None]
  /\ UNCHANGED <<deps, baseline, evidenceVars, projectVars>>

(* attempts.claim; the same worker claiming again changes nothing. *)
Claim(t, a, w) ==
  /\ Live(t) /\ attempts[t][a].state = "reserved"
  /\ SetAttempt(t, a, [attempts[t][a] EXCEPT !.state = "claimed", !.worker = w])
  /\ UNCHANGED <<boardVars, evidenceVars, projectVars>>

(* attempts.link_workflow: the reference is written once, the dispatch time *)
(* is kept.                                                                 *)
LinkWorkflow(t, a, f, sent) ==
  /\ Live(t) /\ attempts[t][a].state \in {"reserved", "claimed"}
  /\ attempts[t][a].workflow \in {None, f}
  /\ SetAttempt(t, a, [attempts[t][a] EXCEPT !.workflow = f,
                                             !.dispatched = @ \/ sent])
  /\ UNCHANGED <<boardVars, evidenceVars, projectVars>>

(* attempts.mark_delivery with outcome delivered; with outcome failed only *)
(* the error text and a counter change.                                    *)
MarkDelivered(t, a) ==
  /\ Live(t) /\ attempts[t][a].delivery = "pending"
  /\ SetAttempt(t, a, [attempts[t][a] EXCEPT !.delivery = "delivered"])
  /\ UNCHANGED <<boardVars, evidenceVars, projectVars>>

(* attempts.cancel records the wish; the task keeps its status. *)
Cancel(t, a) ==
  /\ Live(t) /\ attempts[t][a].state \in ActiveStates \ {"cancel_requested"}
  /\ SetAttempt(t, a, [attempts[t][a] EXCEPT !.state = "cancel_requested",
                                             !.cancelAsked = TRUE])
  /\ UNCHANGED <<boardVars, evidenceVars, projectVars>>

-----------------------------------------------------------------------------
(* The part results.accept and a reconciliation as completed share: the    *)
(* result of attempt a, here the record rec, is stored with the revision r *)
(* and the outcome its manifest reports for the required test.             *)
ReportedChecks(t, r, outcome) ==
  IF outcome = None THEN {}
  ELSE {[subject |-> t, baseline |-> baseline[t], revision |-> r,
         passed |-> outcome = "passed"]}

StoreResult(t, a, rec, r, outcome) ==
  /\ AcceptsResult(rec)
  /\ CanMove(status[t], "awaiting_review", reason[t])
  /\ SetAttempt(t, a, WithResult(rec))
  /\ results' = [results EXCEPT ![t] =
                   Append(@, [attempt |-> a, revision |-> r])]
  /\ checks' = checks \cup ReportedChecks(t, r, outcome)
  /\ UNCHANGED <<rounds, manual>>

(* results.accept *)
AcceptResult(t, a, r, outcome) ==
  /\ Live(t)
  /\ StoreResult(t, a, attempts[t][a], r, outcome)
  /\ Move(t, "awaiting_review", None, {}, {})
  /\ UNCHANGED <<deps, baseline, projectVars>>

Reconcilable(rec) == rec.state \in ActiveStates \cup {"reconciliation_required"}

\* Another attempt of the task already has a result.
CorrectionRound(t, a) ==
  \E b \in DOMAIN attempts[t] : b # a /\ attempts[t][b].result

\* Fault: the gate of the baseline and the flow is not asked again.
FaultReleaseTarget(t, a) ==
  IF CorrectionRound(t, a) THEN "changes_requested"
  ELSE IF BlockedAncestors(t, deps) = {} THEN "ready" ELSE "blocked"

ReleaseTarget(t, a) ==
  IF CorrectionRound(t, a) THEN "changes_requested"
  ELSE IF ReadyGate(t) /\ BlockedAncestors(t, deps) = {} THEN "ready"
  ELSE "blocked"

(* attempts.reconcile: nothing runs any more; the task is released. *)
ReconcileReleased(t, a, res) ==
  LET rec == attempts[t][a]
      to  == ReleaseTarget(t, a)
      why == IF ~CorrectionRound(t, a) /\ BlockedAncestors(t, deps) # {}
               THEN "dependency_blocked" ELSE None
  IN /\ Live(t) /\ Reconcilable(rec)
     /\ CanMove(status[t], to, None)
     /\ SetAttempt(t, a,
          [rec EXCEPT !.state = "closed", !.resolution = res,
                      !.outcome = IF rec.cancelAsked THEN "cancelled" ELSE res])
     /\ Move(t, to, why, HeldBy(t, to, deps),
             FreedBy(t, LiveStatuses \ {"blocked"}, to, deps))
     /\ UNCHANGED <<deps, baseline, evidenceVars, projectVars>>

(* attempts.reconcile: the run was lost; the task waits for an operator. *)
ReconcileUnknown(t, a) ==
  /\ Live(t) /\ Reconcilable(attempts[t][a])
  /\ CanMove(status[t], "blocked", None)
  /\ SetAttempt(t, a, [attempts[t][a] EXCEPT !.state = "reconciliation_required",
                                             !.resolution = "unknown"])
  /\ Move(t, "blocked", "reconciliation_required",
          HeldBy(t, "blocked", deps), {})
  /\ UNCHANGED <<deps, baseline, evidenceVars, projectVars>>

(* attempts.reconcile: the run had finished; its manifest is accepted. *)
ReconcileCompleted(t, a, r, outcome) ==
  /\ Live(t) /\ Reconcilable(attempts[t][a])
  /\ StoreResult(t, a, [attempts[t][a] EXCEPT !.resolution = "completed"],
                 r, outcome)
  /\ Move(t, "awaiting_review", None, {},
          FreedBy(t, LiveStatuses \ {"blocked"}, "awaiting_review", deps))
  /\ UNCHANGED <<deps, baseline, projectVars>>

-----------------------------------------------------------------------------
(* evidence.record, kind test: for a task, or for the whole project. *)
RecordTest(c) ==
  /\ c.subject \in TestSubjects
  /\ c.subject # None => Live(c.subject) /\ c.baseline = baseline[c.subject]
  /\ checks' = checks \cup {c}
  /\ UNCHANGED <<boardVars, attempts, results, rounds, manual, projectVars>>

Reviewable(t) == status[t] = "awaiting_review" /\ results[t] # <<>>

(* evidence.record, kind review with a manualCheckId: moves nothing. *)
ReviewManualCheck(t, v) ==
  /\ Reviewable(t) /\ t \in ManualTasks
  /\ manual' = [manual EXCEPT ![t][LatestResult(t).revision] = v]
  /\ UNCHANGED <<boardVars, attempts, results, rounds, checks, projectVars>>

\* Fault: one round too many.
FaultExhausted(t) == rounds[t] > limit

\* isCorrectionBudgetExhausted, asked before the new request is counted
Exhausted(t) == rounds[t] >= limit

(* evidence.record, kind review, verdict changes_requested. *)
RequestChanges(t) ==
  LET to  == IF Exhausted(t) THEN "blocked" ELSE "changes_requested"
      why == IF Exhausted(t) THEN "correction_limit_reached" ELSE None
  IN /\ Reviewable(t)
     /\ CanMove(status[t], to, reason[t])
     /\ rounds' = [rounds EXCEPT ![t] = @ + 1]
     /\ Move(t, to, why, HeldBy(t, to, deps), {})
     /\ UNCHANGED <<deps, baseline, attempts, results, checks, manual,
                    projectVars>>

(* evidence.record, kind review, verdict approved. *)
Approve(t) ==
  /\ Reviewable(t)
  /\ CanMove(status[t], "verified", reason[t])
  /\ Proven(t, LatestResult(t).revision)
  /\ Move(t, "verified", None, {}, Frees(t, deps))
  /\ UNCHANGED <<deps, baseline, attempts, evidenceVars, projectVars>>

-----------------------------------------------------------------------------
(* The project around the board.                                           *)

(* decisions.record on baseline b, after which b is approved or not; a     *)
(* newer active baseline is kept.                                          *)
DecideBaseline(b, approved) ==
  /\ active' = IF approved /\ active <= b THEN b
               ELSE IF active = b THEN NoBaseline ELSE active
  /\ UNCHANGED <<boardVars, attempts, evidenceVars, flowOpen, limit>>

(* Pinning a flow closes its stage gate; stage decisions and new stage     *)
(* artifacts open and close it.                                            *)
DecideStage ==
  /\ HasFlow
  /\ flowOpen' = ~flowOpen
  /\ UNCHANGED <<boardVars, attempts, evidenceVars, active, limit>>

(* projects.update of limits.maxCorrectionRounds *)
SetLimit(n) ==
  /\ limit' = n
  /\ UNCHANGED <<boardVars, attempts, evidenceVars, active, flowOpen>>

-----------------------------------------------------------------------------
\* Planning: the commands of tasks.ts.
PlanStep(t) ==
  \/ \E b \in Baselines, D \in SUBSET Tasks : CreateTask(t, b, D)
  \/ \E D \in SUBSET Tasks : EditDependencies(t, D)
  \/ \E D \in SUBSET Tasks, to \in UserSettable : SetStatus(t, D, to)
  \/ DeleteTask(t)

TaskStep(t) == PlanStep(t) \/ \E k \in Keys : Reserve(t, k)

\* The internal commands, reserved for the executor in the same process.
InternalStep(t, a) ==
  \/ \E w \in Workers : Claim(t, a, w)
  \/ \E f \in Workflows, sent \in BOOLEAN : LinkWorkflow(t, a, f, sent)
  \/ MarkDelivered(t, a)

\* What operators do to an attempt, short of bringing its result.
OperatorStep(t, a) ==
  \/ Cancel(t, a)
  \/ \E res \in {"not_started", "stopped"} : ReconcileReleased(t, a, res)
  \/ ReconcileUnknown(t, a)

ResultStep(t, a) ==
  \E r \in Revisions, o \in Reports :
    AcceptResult(t, a, r, o) \/ ReconcileCompleted(t, a, r, o)

AttemptStep(t, a) ==
  InternalStep(t, a) \/ OperatorStep(t, a) \/ ResultStep(t, a)

ReviewStep(t) ==
  \/ \E v \in {"approved", "changes_requested"} : ReviewManualCheck(t, v)
  \/ RequestChanges(t)
  \/ Approve(t)

ProjectStep ==
  \/ \E c \in Check : RecordTest(c)
  \/ \E b \in Baselines, approved \in BOOLEAN : DecideBaseline(b, approved)
  \/ DecideStage
  \/ \E n \in Limits : SetLimit(n)

Next ==
  \/ \E t \in Tasks : TaskStep(t) \/ ReviewStep(t)
  \/ \E t \in Tasks : \E a \in DOMAIN attempts[t] : AttemptStep(t, a)
  \/ ProjectStep

Spec == Init /\ [][Next]_vars
-----------------------------------------------------------------------------
(***************************************************************************)
(* Properties.                                                             *)
(***************************************************************************)

\* Every column holds a value of its domain.
TypeOK ==
  /\ status   \in [Tasks -> Statuses]
  /\ reason   \in [Tasks -> Reasons]
  /\ deps     \in [Tasks -> SUBSET Tasks]
  /\ baseline \in [Tasks -> Baselines \cup {NoBaseline}]
  /\ attempts \in [Tasks -> Seq(Attempt)]
  /\ results  \in [Tasks -> Seq(Result)]
  /\ rounds   \in [Tasks -> Nat]
  /\ checks   \subseteq Check
  /\ manual   \in [Tasks -> [Revisions -> ManualVerdicts]]
  /\ active   \in Baselines \cup {NoBaseline}
  /\ flowOpen \in BOOLEAN
  /\ limit    \in Limits

\* The status of a task and its register tell the same story: only the
\* newest attempt can be open, the task executes exactly while that attempt
\* is active, and waits for reconciliation exactly while its fate is unknown.
\* About the commands of attempts.ts, reconcile.ts and tasks.ts, which write
\* the two columns separately.
RegisterMatchesStatus ==
  \A t \in Tasks :
    /\ \A a \in OpenAttempts(t) : a = Len(attempts[t])
    /\ status[t] = "executing" <=> ActiveAttempts(t) # {}
    /\ reason[t] = "reconciliation_required" <=> UnknownAttempts(t) # {}
    /\ reason[t] = "reconciliation_required" => status[t] = "blocked"

\* Whatever a task was ever started on is finished: once a task has an
\* attempt, all the tasks it depends on, directly or not, are verified for as
\* long as the task exists.  Reservation looks at the direct dependencies
\* only; the rest hangs on the rules for editing and deleting tasks.
PrerequisitesVerified ==
  \A t \in Tasks : Live(t) /\ attempts[t] # <<>> =>
    \A a \in AncestorsOf(t, deps) : status[a] = "verified"

\* The live tasks form an acyclic graph over live tasks of one baseline.
GraphIsSound ==
  \A t \in Tasks : Live(t) =>
    /\ t \notin Reachable(t, deps)
    /\ \A x \in deps[t] : Live(x) /\ baseline[x] = baseline[t]

\* Each correction round answers exactly one result: no second result is
\* accepted before the first is reviewed, and a task is under review, or
\* verified, with exactly one result nobody asked to change.
OneResultPerRound ==
  \A t \in Tasks :
    /\ Len(results[t]) \in {rounds[t], rounds[t] + 1}
    /\ status[t] \in {"awaiting_review", "verified"} =>
         Len(results[t]) = rounds[t] + 1
    /\ status[t] \in {"executing", "changes_requested"} =>
         Len(results[t]) = rounds[t]
    /\ status[t] \in {"draft", "ready"} => results[t] = <<>>

\* The evidence rows of a task and its register agree on which attempts
\* brought a result, and in which order.
ResultsMatchRegister ==
  \A t \in Tasks :
    /\ {results[t][i].attempt : i \in DOMAIN results[t]} =
         {a \in DOMAIN attempts[t] : attempts[t][a].result}
    /\ \A i, j \in DOMAIN results[t] :
         i < j => results[t][i].attempt < results[t][j].attempt

\* A result that arrives after a cancellation was asked for, or after the run
\* was declared lost, counts only when an operator confirmed that the run had
\* completed; and an attempt closed without a result never gets one.
NoLateResult ==
  \A t \in Tasks : \A a \in DOMAIN attempts[t] :
    LET rec == attempts[t][a] IN
    rec.result => /\ rec.state = "result_received"
                  /\ rec.outcome = "result_accepted"
                  /\ rec.cancelAsked => rec.resolution = "completed"
                  /\ rec.resolution \in {None, "completed"}

\* A result is owed to the workflow that waits for it exactly when the
\* attempt was linked to one.
DeliveryOwed ==
  \A t \in Tasks : \A a \in DOMAIN attempts[t] :
    LET rec == attempts[t][a] IN
    rec.delivery # None <=> rec.result /\ rec.workflow # None

\* What is finished stays finished: no propagation, late result,
\* reconciliation or review moves a verified or cancelled task, or touches
\* its results; it can only be archived.
DoneIsForever ==
  [][\A t \in Tasks : status[t] \in {"verified", "cancelled", "archived"} =>
       /\ status'[t] \in {status[t], "archived"}
       /\ reason'[t] = reason[t] /\ deps'[t] = deps[t]
       /\ results'[t] = results[t] /\ rounds'[t] = rounds[t]
       /\ OpenAttempts(t)' = {}]_vars

\* When a task becomes blocked, by a user, a lost run, a closed gate or an
\* exhausted budget, no task that depends on it, directly or not, is left
\* waiting to start.
BlockReachesAll ==
  [][\A t \in Tasks : status[t] # "blocked" /\ status'[t] = "blocked" =>
       \A u \in Tasks : t \in AncestorsOf(u, deps') =>
         status'[u] \notin {"draft", "ready"}]_vars

\* A task goes from blocked to draft only when none of its ancestors is
\* blocked for a reason of its own any more, however many blocks met on it.
FreedIsFree ==
  [][\A u \in Tasks : status[u] = "blocked" /\ status'[u] = "draft" =>
       \A x \in AncestorsOf(u, deps') : ~RootBlocked(x)']_vars

\* A task becomes ready, or starts, only through the gate as it stands at
\* that moment, not as it stood when the task was last looked at: its baseline
\* is the active one, the stage gate is open and no ancestor is blocked.
EntersWorkThroughGate ==
  [][\A t \in Tasks :
       /\ status[t] # "ready" /\ status'[t] = "ready" =>
            ReadyGate(t) /\ BlockedAncestors(t, deps') = {}
       /\ status[t] # "executing" /\ status'[t] = "executing" =>
            ReadyGate(t)]_vars

\* A task is verified on its newest result: at that moment some test passed
\* on that result's revision and baseline, none failed on it, and its manual
\* check was approved on it.  Tests and verdicts of earlier results do not
\* carry over.
VerifiedOnNewestResult ==
  [][\A t \in Tasks : status[t] # "verified" /\ status'[t] = "verified" =>
       LET r == results[t][Len(results[t])].revision
           onResult == {c \in checks : /\ c.subject \in {t, None}
                                       /\ c.baseline = baseline[t]
                                       /\ c.revision = r}
       IN /\ \E c \in onResult : c.passed
          /\ \A c \in onResult : c.passed
          /\ t \in ManualTasks => manual[t][r] = "approved"]_vars

\* A task that ran out of correction rounds is in human hands: nothing but a
\* cancellation or an archival moves it, and the reason stays on record.
EscalationIsFinal ==
  [][\A t \in Tasks : reason[t] = "correction_limit_reached" =>
       /\ reason'[t] = reason[t]
       /\ status'[t] \in {"blocked", "cancelled", "archived"}
       /\ attempts'[t] = attempts[t] \/ Len(attempts'[t]) = Len(attempts[t])]_vars

\* A review sends a task back for correction only when the budget then still
\* lets an attempt start: the budget is counted before the request when the
\* request is made and after it when the attempt is reserved.
ReturnedWorkCanRestart ==
  [][\A t \in Tasks :
       status[t] = "awaiting_review" /\ status'[t] = "changes_requested" =>
         rounds'[t] <= limit]_vars

-----------------------------------------------------------------------------
(* The board keeps the promise of TaskPromise.                             *)

\* How far the promise sees task t.
Phase(t) ==
  IF status[t] = "absent" THEN "absent"
  ELSE IF status[t] \in {"cancelled", "archived"} THEN "dropped"
  ELSE IF status[t] = "verified" THEN "done"
  ELSE IF OpenAttempts(t) # {} THEN "running"
  ELSE IF Len(results[t]) > rounds[t] THEN "submitted"
  ELSE IF attempts[t] = <<>> THEN "planned"
  ELSE "returned"

Promise == INSTANCE TaskPromise
             WITH phase <- [t \in Tasks |-> Phase(t)], needs <- deps

\* Every step of the board is a step of the promise or leaves it unchanged.
KeepsPromise == Promise!Spec
=============================================================================
