----------------------- MODULE DeliveryRegisterProofs -----------------------
(***************************************************************************)
(* What the columns of one task tell about each other, for every instance: *)
(* the status and the register of attempts, the register and the result    *)
(* rows, the results and the correction rounds.                            *)
(***************************************************************************)
EXTENDS DeliveryTasksProofs

-----------------------------------------------------------------------------
(* The invariant, task by task.                                            *)

\* The status and the register, as RegisterMatchesStatus has it.
RegisterFits(t) ==
  /\ \A a \in OpenAttempts(t) : a = Len(attempts[t])
  /\ status[t] = "executing" <=> ActiveAttempts(t) # {}
  /\ reason[t] = "reconciliation_required" <=> UnknownAttempts(t) # {}
  /\ reason[t] = "reconciliation_required" => status[t] = "blocked"

\* One attempt: a result closes it, nothing is owed without one, and an
\* attempt nobody asked to cancel or lost has no resolution.
AttemptOK(rec) ==
  /\ rec.result => /\ rec.state = "result_received"
                   /\ rec.outcome = "result_accepted"
                   /\ rec.cancelAsked => rec.resolution = "completed"
                   /\ rec.resolution \in {None, "completed"}
  /\ rec.delivery # None <=> rec.result /\ rec.workflow # None
  /\ rec.state \in {"reserved", "claimed"} =>
       rec.cancelAsked = FALSE /\ rec.resolution = None

AttemptsFit(t) == \A a \in DOMAIN attempts[t] : AttemptOK(attempts[t][a])

\* The register and the result rows, as ResultsMatchRegister has it.
ResultsFit(t) ==
  /\ {results[t][i].attempt : i \in DOMAIN results[t]} =
       {a \in DOMAIN attempts[t] : attempts[t][a].result}
  /\ \A i, j \in DOMAIN results[t] :
       i < j => results[t][i].attempt < results[t][j].attempt

\* The results and the rounds: a task whose run is lost owes a result, and a
\* task that waits for others never had one.
RoundsFit(t) ==
  /\ Len(results[t]) \in {rounds[t], rounds[t] + 1}
  /\ status[t] \in {"awaiting_review", "verified"} =>
       Len(results[t]) = rounds[t] + 1
  /\ status[t] \in {"executing", "changes_requested"} =>
       Len(results[t]) = rounds[t]
  /\ reason[t] = "reconciliation_required" => Len(results[t]) = rounds[t]
  /\ status[t] \in {"draft", "ready", "absent"} => results[t] = <<>>
  /\ reason[t] = "dependency_blocked" => results[t] = <<>>

TaskFits(t) == RegisterFits(t) /\ AttemptsFit(t) /\ ResultsFit(t) /\ RoundsFit(t)

RegisterInv == TypeInv /\ \A t \in Tasks : TaskFits(t)

-----------------------------------------------------------------------------
(* What a step leaves alone.                                               *)

\* The tasks a move drags along wait for another task before and after it.
Dragged(u) ==
  \/ status'[u] = status[u] /\ reason'[u] = reason[u]
  \/ /\ status[u] \in Propagating
     /\ status'[u] = "blocked" /\ reason'[u] = "dependency_blocked"
  \/ /\ status[u] = "blocked" /\ reason[u] = "dependency_blocked"
     /\ status'[u] = "draft" /\ reason'[u] = None

LEMMA MoveDrags ==
  ASSUME TypeOK, NEW t \in Tasks, NEW to, NEW why, NEW d, NEW targets,
         \/ Move(t, to, why, HeldBy(t, to, d), FreedBy(t, targets, to, d))
         \/ Move(t, to, why, {}, FreedBy(t, targets, to, d))
         \/ Move(t, to, why, HeldBy(t, to, d), {})
         \/ Move(t, to, why, {}, Frees(t, d))
         \/ Move(t, to, why, {}, {})
  PROVE  /\ status'[t] = to /\ reason'[t] = why
         /\ \A u \in Tasks \ {t} : Dragged(u)
<1>1. PICK held, freed :
        /\ Move(t, to, why, held, freed)
        /\ held \subseteq {u \in Tasks : status[u] \in Propagating}
        /\ freed \subseteq {u \in Tasks : status[u] = "blocked"
                                          /\ reason[u] = "dependency_blocked"}
  BY DEF HeldBy, FreedBy, Blocks, Frees, DescendantsOf
<1> QED
  BY <1>1 DEF Move, Dragged, TypeOK

\* A task with the register, the results and the rounds it had still fits.
LEMMA DraggedFits ==
  ASSUME TypeOK, NEW u \in Tasks, TaskFits(u), Dragged(u),
         attempts'[u] = attempts[u], results'[u] = results[u], rounds'[u] = rounds[u]
  PROVE  TaskFits(u)'
<1> USE DEF TaskFits, Dragged, Propagating, None
<1>1. RegisterFits(u)'
  BY DEF RegisterFits, OpenAttempts, ActiveAttempts, UnknownAttempts
<1>2. AttemptsFit(u)' /\ ResultsFit(u)'
  BY DEF AttemptsFit, ResultsFit
<1>3. RoundsFit(u)'
  BY DEF RoundsFit
<1> QED
  BY <1>1, <1>2, <1>3

\* Writing one attempt changes nothing else in any register.
LEMMA OneAttemptWritten ==
  ASSUME TypeOK, NEW t \in Tasks, NEW a \in DOMAIN attempts[t], NEW rec \in Attempt,
         SetAttempt(t, a, rec)
  PROVE  /\ DOMAIN attempts'[t] = DOMAIN attempts[t]
         /\ Len(attempts'[t]) = Len(attempts[t])
         /\ attempts'[t][a] = rec
         /\ \A b \in DOMAIN attempts[t] \ {a} : attempts'[t][b] = attempts[t][b]
         /\ \A u \in Tasks \ {t} : attempts'[u] = attempts[u]
<1>1. attempts[t] \in Seq(Attempt)
  BY DEF TypeOK
<1>2. attempts' = [attempts EXCEPT ![t] = [attempts[t] EXCEPT ![a] = rec]]
  BY DEF SetAttempt, TypeOK
<1>3. attempts'[t] = [attempts[t] EXCEPT ![a] = rec]
  BY <1>2 DEF TypeOK
<1>4. \A u \in Tasks \ {t} : attempts'[u] = attempts[u]
  BY <1>2 DEF TypeOK
<1> QED
  BY <1>1, <1>3, <1>4, ReplaceInRegister

\* If every task fits where the step leaves it alone, one is left to look at.
LEMMA OneTaskLooked ==
  ASSUME RegisterInv, TypeInv', NEW t \in Tasks, TaskFits(t)',
         \A u \in Tasks \ {t} :
           /\ Dragged(u) /\ attempts'[u] = attempts[u]
           /\ results'[u] = results[u] /\ rounds'[u] = rounds[u]
  PROVE  RegisterInv'
<1>1. ASSUME NEW u \in Tasks PROVE TaskFits(u)'
  BY DraggedFits DEF RegisterInv, TypeInv
<1> QED
  BY <1>1 DEF RegisterInv

-----------------------------------------------------------------------------
(* Planning and reserving.                                                 *)

\* A task without an open attempt gets a status that is not "executing", and
\* no lost run.
LEMMA SettledFits ==
  ASSUME TypeOK, NEW t \in Tasks, TaskFits(t), OpenAttempts(t) = {},
         attempts'[t] = attempts[t], results'[t] = results[t],
         status'[t] # "executing", reason'[t] # "reconciliation_required",
         RoundsFit(t)'
  PROVE  TaskFits(t)'
<1>1. RegisterFits(t)'
  BY DEF TaskFits, RegisterFits, OpenAttempts, ActiveAttempts, UnknownAttempts
<1>2. AttemptsFit(t)' /\ ResultsFit(t)'
  BY DEF TaskFits, AttemptsFit, ResultsFit
<1> QED
  BY <1>1, <1>2 DEF TaskFits

\* What reopening asks of the attempts is that there is no result row.
LEMMA NoResultRow ==
  ASSUME TypeOK, NEW t \in Tasks, ResultsFit(t),
         \A a \in DOMAIN attempts[t] : ~attempts[t][a].result
  PROVE  results[t] = <<>>
<1>1. results[t] \in Seq(Result)
  BY DEF TypeOK
<1>2. DOMAIN results[t] = {}
  BY DEF ResultsFit
<1>3. Len(results[t]) \in Nat /\ DOMAIN results[t] = 1 .. Len(results[t])
  BY <1>1
<1>4. Len(results[t]) # 0 => 1 \in 1 .. Len(results[t])
  BY <1>3
<1>5. Len(results[t]) = 0
  BY <1>2, <1>3, <1>4
<1> QED
  BY <1>1, <1>5

LEMMA TaskStepRegister ==
  ASSUME RegisterInv, TypeInv', NEW t \in Tasks, TaskStep(t)
  PROVE  RegisterInv'
<1>0. TypeOK /\ TaskFits(t)
  BY DEF RegisterInv, TypeInv
<1>1. ASSUME NEW b \in Baselines, NEW D \in SUBSET Tasks, CreateTask(t, b, D)
      PROVE  RegisterInv'
  <2>1. /\ status[t] = "absent" /\ status' = [status EXCEPT ![t] = "draft"]
        /\ UNCHANGED <<reason, attempts, results, rounds>>
    BY <1>1 DEF CreateTask, evidenceVars
  <2>2. OpenAttempts(t) = {} /\ reason[t] # "reconciliation_required"
    BY <1>0, <2>1 DEF TaskFits, RegisterFits, OpenAttempts
  <2>3. RoundsFit(t)'
    BY <1>0, <2>1, <2>2 DEF TaskFits, RoundsFit, TypeOK
  <2>4. TaskFits(t)'
    BY <1>0, <2>1, <2>2, <2>3, SettledFits DEF TypeOK
  <2> QED
    BY <1>0, <2>1, <2>4, OneTaskLooked DEF Dragged, TypeOK
<1>2. ASSUME NEW D \in SUBSET Tasks, EditDependencies(t, D)
      PROVE  RegisterInv'
  <2>1. UNCHANGED <<status, reason, attempts, results, rounds>>
    BY <1>2 DEF EditDependencies, evidenceVars
  <2>2. \A u \in Tasks : Dragged(u)
    BY <2>1 DEF Dragged
  <2> QED
    BY <1>0, <2>1, <2>2, DraggedFits, OneTaskLooked
<1>3. ASSUME NEW D \in SUBSET Tasks, NEW to \in UserSettable, SetStatus(t, D, to)
      PROVE  RegisterInv'
  <2> DEFINE why == IF reason[t] \in SystemOwned THEN reason[t] ELSE None
             d == [deps EXCEPT ![t] = D]
  <2>1. /\ to # status[t] /\ Settled(t)
        /\ CanMove(status[t], to, reason[t]) /\ ReopenAllowed(t, to, d)
        /\ Move(t, to, why, HeldBy(t, to, d), FreedBy(t, {"draft", "ready"}, to, d))
        /\ UNCHANGED <<attempts, results, rounds>>
    BY <1>3 DEF SetStatus, evidenceVars
  <2> HIDE DEF why, d
  <2>2. status'[t] = to /\ reason'[t] = why /\ \A u \in Tasks \ {t} : Dragged(u)
    BY <1>0, <2>1, MoveDrags
  <2>3. /\ OpenAttempts(t) = {} /\ reason[t] # "reconciliation_required"
        /\ why \in {None, "correction_limit_reached"}
    BY <1>0, <2>1 DEF Settled, why, SystemOwned
  <2>4. to \in {"draft", "ready"} => results[t] = <<>>
    BY <1>0, <2>1, NoResultRow DEF ReopenAllowed, TaskFits
  <2>5. RoundsFit(t)'
    BY <1>0, <2>1, <2>2, <2>3, <2>4 DEF TaskFits, RoundsFit, UserSettable, None
  <2>6. TaskFits(t)'
    BY <1>0, <2>1, <2>2, <2>3, <2>5, SettledFits DEF UserSettable, None
  <2> QED
    BY <1>0, <2>1, <2>2, <2>6, OneTaskLooked
<1>4. ASSUME DeleteTask(t)
      PROVE  RegisterInv'
  <2>1. /\ Settled(t) /\ status' = [status EXCEPT ![t] = "archived"]
        /\ UNCHANGED <<reason, attempts, results, rounds>>
    BY <1>4 DEF DeleteTask, evidenceVars
  <2>2. OpenAttempts(t) = {} /\ reason[t] # "reconciliation_required"
    BY <2>1 DEF Settled
  <2>3. RoundsFit(t)'
    BY <1>0, <2>1, <2>2 DEF TaskFits, RoundsFit, TypeOK
  <2>4. TaskFits(t)'
    BY <1>0, <2>1, <2>2, <2>3, SettledFits DEF TypeOK
  <2> QED
    BY <1>0, <2>1, <2>4, OneTaskLooked DEF Dragged, TypeOK
<1>5. ASSUME NEW k \in Keys, Reserve(t, k)
      PROVE  RegisterInv'
  <2> DEFINE n == Len(attempts[t]) + 1
  <2>1. /\ status[t] \in {"ready", "changes_requested"} /\ OpenAttempts(t) = {}
        /\ attempts' = [attempts EXCEPT ![t] = Append(@, NewAttempt(k))]
        /\ status' = [status EXCEPT ![t] = "executing"]
        /\ reason' = [reason EXCEPT ![t] = None]
        /\ UNCHANGED <<results, rounds>>
    BY <1>5 DEF Reserve, evidenceVars
  <2>2. attempts[t] \in Seq(Attempt) /\ attempts'[t] = Append(attempts[t], NewAttempt(k))
    BY <1>0, <2>1 DEF TypeOK
  <2>3. /\ DOMAIN attempts'[t] = DOMAIN attempts[t] \cup {n} /\ n \notin DOMAIN attempts[t]
        /\ Len(attempts'[t]) = n /\ attempts'[t][n] = NewAttempt(k)
        /\ \A a \in DOMAIN attempts[t] : attempts'[t][a] = attempts[t][a]
    BY <2>2
  <2> HIDE DEF n
  <2>4. NewAttempt(k).state = "reserved" /\ AttemptOK(NewAttempt(k)) /\ ~NewAttempt(k).result
    BY DEF NewAttempt, AttemptOK
  <2>5. status'[t] = "executing" /\ reason'[t] = None
    BY <1>0, <2>1 DEF TypeOK
  <2>6. RegisterFits(t)'
    <3>1. ActiveAttempts(t)' = {n} /\ UnknownAttempts(t)' = {}
      BY <2>1, <2>3, <2>4 DEF OpenAttempts, ActiveAttempts, UnknownAttempts, ActiveStates
    <3> QED
      BY <2>3, <2>5, <3>1 DEF RegisterFits, OpenAttempts, None
  <2>7. AttemptsFit(t)'
    BY <1>0, <2>3, <2>4 DEF TaskFits, AttemptsFit
  <2>8. ResultsFit(t)'
    BY <1>0, <2>1, <2>3, <2>4 DEF TaskFits, ResultsFit
  <2>9. RoundsFit(t)'
    <3>1. Len(results[t]) = rounds[t]
      <4>1. results[t] = <<>> => Len(results[t]) = 0
        OBVIOUS
      <4> QED
        BY <1>0, <2>1, <4>1 DEF TaskFits, RoundsFit, TypeOK
    <3> QED
      BY <1>0, <2>1, <2>5, <3>1 DEF TaskFits, RoundsFit, TypeOK, None
  <2> QED
    BY <1>0, <2>1, <2>6, <2>7, <2>8, <2>9, OneTaskLooked DEF TaskFits, Dragged, TypeOK
<1> QED
  BY <1>1, <1>2, <1>3, <1>4, <1>5 DEF TaskStep, PlanStep

-----------------------------------------------------------------------------
(* Steps on the register.                                                  *)

\* An attempt is rewritten in place: it stays as open as it was, and its
\* result is untouched.
LEMMA RewrittenFits ==
  ASSUME TypeOK, NEW t \in Tasks, TaskFits(t), NEW a \in DOMAIN attempts[t],
         NEW rec \in Attempt, SetAttempt(t, a, rec), AttemptOK(rec),
         rec.result = attempts[t][a].result,
         \/ rec.state = attempts[t][a].state
         \/ rec.state \in ActiveStates /\ attempts[t][a].state \in ActiveStates,
         UNCHANGED <<status, reason, results, rounds>>
  PROVE  TaskFits(t)'
<1>1. /\ DOMAIN attempts'[t] = DOMAIN attempts[t]
      /\ Len(attempts'[t]) = Len(attempts[t])
      /\ attempts'[t][a] = rec
      /\ \A b \in DOMAIN attempts[t] \ {a} : attempts'[t][b] = attempts[t][b]
  BY OneAttemptWritten
<1>2. /\ ActiveAttempts(t)' = ActiveAttempts(t)
      /\ UnknownAttempts(t)' = UnknownAttempts(t)
  BY <1>1 DEF ActiveAttempts, UnknownAttempts, ActiveStates
<1>3. RegisterFits(t)'
  BY <1>1, <1>2 DEF TaskFits, RegisterFits, OpenAttempts
<1>4. AttemptsFit(t)'
  BY <1>1 DEF TaskFits, AttemptsFit
<1>5. ResultsFit(t)'
  <2>1. {b \in DOMAIN attempts'[t] : attempts'[t][b].result}
          = {b \in DOMAIN attempts[t] : attempts[t][b].result}
    BY <1>1
  <2> QED
    BY <2>1 DEF TaskFits, ResultsFit
<1>6. RoundsFit(t)'
  BY DEF TaskFits, RoundsFit
<1> QED
  BY <1>3, <1>4, <1>5, <1>6 DEF TaskFits

\* The only open attempt of a task is settled one way or the other.
LEMMA OnlyOpenOne ==
  ASSUME TypeOK, NEW t \in Tasks, RegisterFits(t), NEW a \in DOMAIN attempts[t],
         a \in OpenAttempts(t), NEW rec \in Attempt, SetAttempt(t, a, rec)
  PROVE  /\ ActiveAttempts(t)' = IF rec.state \in ActiveStates THEN {a} ELSE {}
         /\ UnknownAttempts(t)' = IF rec.state = "reconciliation_required" THEN {a} ELSE {}
         /\ a = Len(attempts'[t])
<1>1. /\ DOMAIN attempts'[t] = DOMAIN attempts[t]
      /\ Len(attempts'[t]) = Len(attempts[t])
      /\ attempts'[t][a] = rec
      /\ \A b \in DOMAIN attempts[t] \ {a} : attempts'[t][b] = attempts[t][b]
  BY OneAttemptWritten
<1>2. a = Len(attempts[t]) /\ \A b \in DOMAIN attempts[t] \ {a} : b \notin OpenAttempts(t)
  BY DEF RegisterFits
<1> QED
  BY <1>1, <1>2 DEF OpenAttempts, ActiveAttempts, UnknownAttempts

\* An open attempt has no result, and the task waits for exactly that one.
LEMMA OpenOwesResult ==
  ASSUME TypeOK, NEW t \in Tasks, TaskFits(t), NEW a \in OpenAttempts(t)
  PROVE  /\ attempts[t][a] \in Attempt /\ AttemptOK(attempts[t][a])
         /\ attempts[t][a].result = FALSE /\ attempts[t][a].delivery = None
         /\ Len(results[t]) = rounds[t]
         /\ status[t] \in {"executing", "blocked"}
<1>1. a \in DOMAIN attempts[t] /\ attempts[t] \in Seq(Attempt)
  BY DEF OpenAttempts, ActiveAttempts, UnknownAttempts, TypeOK
<1>2. attempts[t][a] \in Attempt /\ AttemptOK(attempts[t][a])
  BY <1>1 DEF TaskFits, AttemptsFit
<1>3. attempts[t][a].state # "result_received" /\ attempts[t][a].result \in BOOLEAN
  BY <1>2 DEF OpenAttempts, ActiveAttempts, UnknownAttempts, ActiveStates, Attempt
<1>4. attempts[t][a].result = FALSE
  BY <1>2, <1>3 DEF AttemptOK
<1>5. attempts[t][a].delivery = None
  BY <1>2, <1>4 DEF AttemptOK
<1>6. status[t] = "executing" \/ reason[t] = "reconciliation_required"
  BY DEF OpenAttempts, TaskFits, RegisterFits
<1> QED
  BY <1>2, <1>4, <1>5, <1>6 DEF TaskFits, RoundsFit, RegisterFits

\* What the commands write into an open attempt is in order.
LEMMA WrittenInOrder ==
  ASSUME NEW rec \in Attempt, AttemptOK(rec), rec.result = FALSE, rec.delivery = None,
         None \notin Workers \cup Workflows
  PROVE  /\ rec.state = "reserved" =>
              \A w \in Workers : AttemptOK([rec EXCEPT !.state = "claimed", !.worker = w])
         /\ \A f \in Workflows, sent \in BOOLEAN :
              AttemptOK([rec EXCEPT !.workflow = f, !.dispatched = @ \/ sent])
         /\ AttemptOK([rec EXCEPT !.state = "cancel_requested", !.cancelAsked = TRUE])
         /\ \A res \in {"not_started", "stopped"} :
              AttemptOK([rec EXCEPT !.state = "closed", !.resolution = res,
                          !.outcome = IF rec.cancelAsked THEN "cancelled" ELSE res])
         /\ AttemptOK([rec EXCEPT !.state = "reconciliation_required",
                                  !.resolution = "unknown"])
         /\ AcceptsResult(rec) => AttemptOK(WithResult(rec)) /\ WithResult(rec).result = TRUE
         /\ AttemptOK(WithResult([rec EXCEPT !.resolution = "completed"]))
         /\ WithResult([rec EXCEPT !.resolution = "completed"]).result = TRUE
<1> USE DEF Attempt, AttemptOK, None
<1>1. rec.state = "reserved" =>
        \A w \in Workers : AttemptOK([rec EXCEPT !.state = "claimed", !.worker = w])
  OBVIOUS
<1>2. \A f \in Workflows, sent \in BOOLEAN :
        AttemptOK([rec EXCEPT !.workflow = f, !.dispatched = @ \/ sent])
  OBVIOUS
<1>3. AttemptOK([rec EXCEPT !.state = "cancel_requested", !.cancelAsked = TRUE])
  OBVIOUS
<1>4. \A res \in {"not_started", "stopped"} :
        AttemptOK([rec EXCEPT !.state = "closed", !.resolution = res,
                    !.outcome = IF rec.cancelAsked THEN "cancelled" ELSE res])
  OBVIOUS
<1>5. AttemptOK([rec EXCEPT !.state = "reconciliation_required", !.resolution = "unknown"])
  OBVIOUS
<1>6. AcceptsResult(rec) => AttemptOK(WithResult(rec)) /\ WithResult(rec).result = TRUE
  BY DEF AcceptsResult, WithResult
<1>7. /\ AttemptOK(WithResult([rec EXCEPT !.resolution = "completed"]))
      /\ WithResult([rec EXCEPT !.resolution = "completed"]).result = TRUE
  BY DEF WithResult
<1> QED
  BY ONLY <1>1, <1>2, <1>3, <1>4, <1>5, <1>6, <1>7

\* The run of an open attempt is over without a result: what the task then
\* becomes fits, if it asks for no result where there is none.
LEMMA ClosedFits ==
  ASSUME TypeOK, NEW t \in Tasks, TaskFits(t), NEW a \in OpenAttempts(t),
         NEW rec \in Attempt, SetAttempt(t, a, rec), AttemptOK(rec), rec.result = FALSE,
         UNCHANGED <<results, rounds>>,
         \/ /\ rec.state = "closed"
            /\ status'[t] \in {"changes_requested", "ready", "blocked"}
            /\ reason'[t] \in {None, "dependency_blocked"}
            /\ status'[t] = "ready" \/ reason'[t] = "dependency_blocked"
                 => results[t] = <<>>
         \/ /\ rec.state = "reconciliation_required"
            /\ status'[t] = "blocked" /\ reason'[t] = "reconciliation_required"
  PROVE  TaskFits(t)'
<1>0. a \in DOMAIN attempts[t]
  BY DEF OpenAttempts, ActiveAttempts, UnknownAttempts
<1>1. /\ DOMAIN attempts'[t] = DOMAIN attempts[t]
      /\ attempts'[t][a] = rec
      /\ \A b \in DOMAIN attempts[t] \ {a} : attempts'[t][b] = attempts[t][b]
  BY <1>0, OneAttemptWritten
<1>2. /\ ActiveAttempts(t)' = {}
      /\ UnknownAttempts(t)' = IF rec.state = "closed" THEN {} ELSE {a}
      /\ a = Len(attempts'[t])
  BY <1>0, OnlyOpenOne DEF TaskFits, ActiveStates
<1>3. attempts[t][a].result = FALSE /\ Len(results[t]) = rounds[t]
  BY OpenOwesResult
<1>4. RegisterFits(t)'
  BY <1>2 DEF RegisterFits, OpenAttempts, None
<1>5. AttemptsFit(t)'
  BY <1>1 DEF TaskFits, AttemptsFit
<1>6. ResultsFit(t)'
  <2>1. {b \in DOMAIN attempts'[t] : attempts'[t][b].result}
          = {b \in DOMAIN attempts[t] : attempts[t][b].result}
    BY <1>1, <1>3
  <2> QED
    BY <2>1 DEF TaskFits, ResultsFit
<1>7. RoundsFit(t)'
  BY <1>3 DEF TaskFits, RoundsFit, None, TypeOK
<1> QED
  BY <1>4, <1>5, <1>6, <1>7 DEF TaskFits

\* The result of an open attempt is stored: its row comes after all others,
\* because the attempt is the newest.
LEMMA StoredFits ==
  ASSUME TypeOK, NEW t \in Tasks, TaskFits(t), NEW a \in OpenAttempts(t),
         NEW rec \in Attempt, SetAttempt(t, a, rec), AttemptOK(rec), rec.result = TRUE,
         NEW r \in Revisions,
         results' = [results EXCEPT ![t] = Append(@, [attempt |-> a, revision |-> r])],
         UNCHANGED rounds, status'[t] = "awaiting_review", reason'[t] = None
  PROVE  TaskFits(t)'
<1>0. a \in DOMAIN attempts[t]
  BY DEF OpenAttempts, ActiveAttempts, UnknownAttempts
<1>1. /\ DOMAIN attempts'[t] = DOMAIN attempts[t]
      /\ attempts'[t][a] = rec
      /\ \A b \in DOMAIN attempts[t] \ {a} : attempts'[t][b] = attempts[t][b]
  BY <1>0, OneAttemptWritten
<1>2. rec.state = "result_received"
  BY DEF AttemptOK
<1>3. ActiveAttempts(t)' = {} /\ UnknownAttempts(t)' = {}
  BY <1>0, <1>2, OnlyOpenOne DEF TaskFits, ActiveStates
<1>4. attempts[t][a].result = FALSE /\ Len(results[t]) = rounds[t]
  BY OpenOwesResult
<1>5. RegisterFits(t)'
  BY <1>3 DEF RegisterFits, OpenAttempts, None
<1>6. AttemptsFit(t)'
  BY <1>1 DEF TaskFits, AttemptsFit
<1> DEFINE n == Len(results[t]) + 1
           row == [attempt |-> a, revision |-> r]
<1>7. results[t] \in Seq(Result) /\ results'[t] = Append(results[t], row)
  BY DEF TypeOK
<1>8. /\ DOMAIN results'[t] = DOMAIN results[t] \cup {n} /\ n \notin DOMAIN results[t]
      /\ Len(results'[t]) = n /\ results'[t][n].attempt = a
      /\ \A i \in DOMAIN results[t] : results'[t][i] = results[t][i]
      /\ \A i \in DOMAIN results[t] : i < n /\ i \in Nat
  BY <1>7
<1> HIDE DEF n, row
<1>9. ResultsFit(t)'
  <2>1. {results[t][i].attempt : i \in DOMAIN results[t]} =
          {b \in DOMAIN attempts[t] : attempts[t][b].result}
    BY DEF TaskFits, ResultsFit
  <2>2. {results'[t][i].attempt : i \in DOMAIN results'[t]} =
          {results[t][i].attempt : i \in DOMAIN results[t]} \cup {a}
    BY <1>8
  <2>3. {b \in DOMAIN attempts'[t] : attempts'[t][b].result} =
          {b \in DOMAIN attempts[t] : attempts[t][b].result} \cup {a}
    BY <1>0, <1>1
  <2>4. \A b \in DOMAIN attempts[t] : b # a => b < a
    <3>1. a = Len(attempts[t]) /\ attempts[t] \in Seq(Attempt)
      BY DEF TaskFits, RegisterFits, TypeOK
    <3> QED
      BY <3>1
  <2>5. \A i \in DOMAIN results[t] : results[t][i].attempt < a
    BY <1>4, <2>1, <2>4
  <2>6. ASSUME NEW i \in DOMAIN results'[t], NEW j \in DOMAIN results'[t], i < j
        PROVE  results'[t][i].attempt < results'[t][j].attempt
    <3>1. i \in DOMAIN results[t]
      <4>1. n \in Nat
        BY <1>7 DEF n
      <4> QED
        BY <1>8, <2>6, <4>1
    <3>2. CASE j = n
      BY <1>8, <2>5, <3>1, <3>2
    <3>3. CASE j \in DOMAIN results[t]
      BY <1>8, <2>6, <3>1, <3>3 DEF TaskFits, ResultsFit
    <3> QED
      BY <1>8, <3>2, <3>3
  <2> QED
    BY <2>1, <2>2, <2>3, <2>6 DEF ResultsFit
<1>10. RoundsFit(t)'
  <2>1. Len(results'[t]) = rounds'[t] + 1
    BY <1>4, <1>8 DEF n
  <2> QED
    BY <2>1 DEF RoundsFit, None
<1> QED
  BY <1>5, <1>6, <1>9, <1>10 DEF TaskFits

LEMMA AttemptStepRegister ==
  ASSUME RegisterInv, TypeInv', NEW t \in Tasks, NEW a \in DOMAIN attempts[t],
         AttemptStep(t, a)
  PROVE  RegisterInv'
<1> DEFINE rec == attempts[t][a]
<1>0. TypeOK /\ TaskFits(t) /\ rec \in Attempt /\ AttemptOK(rec)
  BY DEF RegisterInv, TypeInv, TypeOK, TaskFits, AttemptsFit
<1>o. rec.state \in ActiveStates \cup {"reconciliation_required"} =>
        /\ a \in OpenAttempts(t)
        /\ rec.result = FALSE /\ rec.delivery = None
        /\ status[t] \in {"executing", "blocked"}
  <2>1. rec.state \in ActiveStates \cup {"reconciliation_required"} => a \in OpenAttempts(t)
    BY DEF OpenAttempts, ActiveAttempts, UnknownAttempts
  <2> QED
    BY <1>0, <2>1, OpenOwesResult
<1>w. None \notin Workers \cup Workflows
  BY ConstantsAssumption
<1> HIDE DEF rec
<1>r. ASSUME NEW new \in Attempt, SetAttempt(t, a, new), AttemptOK(new),
             new.result = rec.result,
             \/ new.state = rec.state
             \/ new.state \in ActiveStates /\ rec.state \in ActiveStates,
             UNCHANGED <<boardVars, evidenceVars>>
      PROVE  RegisterInv'
  <2>1. UNCHANGED <<status, reason, results, rounds>>
    BY <1>r DEF boardVars, evidenceVars
  <2>2. TaskFits(t)'
    BY <1>0, <1>r, <2>1, RewrittenFits DEF rec
  <2>3. \A u \in Tasks \ {t} : attempts'[u] = attempts[u]
    BY <1>0, <1>r, OneAttemptWritten
  <2> QED
    BY <2>1, <2>2, <2>3, OneTaskLooked DEF Dragged
<1>1. ASSUME NEW w \in Workers, Claim(t, a, w)
      PROVE  RegisterInv'
  <2> DEFINE new == [rec EXCEPT !.state = "claimed", !.worker = w]
  <2>1. rec.state = "reserved" /\ SetAttempt(t, a, new) /\ UNCHANGED <<boardVars, evidenceVars>>
    BY <1>1 DEF Claim, rec
  <2>2. new \in Attempt /\ AttemptOK(new)
    BY <1>0, <1>o, <1>w, <2>1, AttemptTypes, WrittenInOrder DEF ActiveStates
  <2>3. new.result = rec.result /\ new.state \in ActiveStates /\ rec.state \in ActiveStates
    BY <1>0, <2>1 DEF Attempt, ActiveStates
  <2> QED
    BY <1>r, <2>1, <2>2, <2>3
<1>2. ASSUME NEW f \in Workflows, NEW sent \in BOOLEAN, LinkWorkflow(t, a, f, sent)
      PROVE  RegisterInv'
  <2> DEFINE new == [rec EXCEPT !.workflow = f, !.dispatched = @ \/ sent]
  <2>1. /\ rec.state \in {"reserved", "claimed"} /\ SetAttempt(t, a, new)
        /\ UNCHANGED <<boardVars, evidenceVars>>
    BY <1>2 DEF LinkWorkflow, rec
  <2>2. new \in Attempt /\ AttemptOK(new)
    BY <1>0, <1>o, <1>w, <2>1, AttemptTypes, WrittenInOrder DEF ActiveStates
  <2>3. new.result = rec.result /\ new.state = rec.state
    BY <1>0 DEF Attempt
  <2> QED
    BY <1>r, <2>1, <2>2, <2>3
<1>3. ASSUME MarkDelivered(t, a)
      PROVE  RegisterInv'
  <2> DEFINE new == [rec EXCEPT !.delivery = "delivered"]
  <2>1. /\ rec.delivery = "pending" /\ SetAttempt(t, a, new)
        /\ UNCHANGED <<boardVars, evidenceVars>>
    BY <1>3 DEF MarkDelivered, rec
  <2>2. new \in Attempt
    BY <1>0, AttemptTypes
  <2>3. AttemptOK(new) /\ new.result = rec.result /\ new.state = rec.state
    BY <1>0, <2>1 DEF Attempt, AttemptOK, None
  <2> QED
    BY <1>r, <2>1, <2>2, <2>3
<1>4. ASSUME Cancel(t, a)
      PROVE  RegisterInv'
  <2> DEFINE new == [rec EXCEPT !.state = "cancel_requested", !.cancelAsked = TRUE]
  <2>1. /\ rec.state \in ActiveStates /\ SetAttempt(t, a, new)
        /\ UNCHANGED <<boardVars, evidenceVars>>
    BY <1>4 DEF Cancel, rec
  <2>2. new \in Attempt /\ AttemptOK(new)
    BY <1>0, <1>o, <1>w, <2>1, AttemptTypes, WrittenInOrder
  <2>3. new.result = rec.result /\ new.state \in ActiveStates
    BY <1>0 DEF Attempt, ActiveStates
  <2> QED
    BY <1>r, <2>1, <2>2, <2>3
<1>5. ASSUME NEW res \in {"not_started", "stopped"}, ReconcileReleased(t, a, res)
      PROVE  RegisterInv'
  <2> DEFINE to  == ReleaseTarget(t, a)
             why == IF ~CorrectionRound(t, a) /\ BlockedAncestors(t, deps) # {}
                      THEN "dependency_blocked" ELSE None
             new == [rec EXCEPT !.state = "closed", !.resolution = res,
                       !.outcome = IF rec.cancelAsked THEN "cancelled" ELSE res]
  <2>1. /\ Reconcilable(rec) /\ SetAttempt(t, a, new)
        /\ Move(t, to, why, HeldBy(t, to, deps),
                FreedBy(t, LiveStatuses \ {"blocked"}, to, deps))
        /\ UNCHANGED <<results, rounds>>
    BY <1>5 DEF ReconcileReleased, evidenceVars, rec
  <2>2. a \in OpenAttempts(t) /\ rec.result = FALSE /\ rec.delivery = None
    BY <1>o, <2>1 DEF Reconcilable
  <2>3. new \in Attempt /\ AttemptOK(new)
    BY <1>0, <1>w, <2>2, AttemptTypes, WrittenInOrder
  <2>4. new.result = FALSE /\ new.state = "closed"
    BY <1>0, <2>2 DEF Attempt
  <2>5. ~CorrectionRound(t, a) => results[t] = <<>>
    BY <1>0, <2>2, NoResultRow DEF CorrectionRound, TaskFits, rec
  <2>6. /\ to \in {"changes_requested", "ready", "blocked"}
        /\ why \in {None, "dependency_blocked"}
        /\ to = "ready" \/ why = "dependency_blocked" => results[t] = <<>>
    BY <2>5 DEF ReleaseTarget, None
  <2> HIDE DEF to, why, new
  <2>7. status'[t] = to /\ reason'[t] = why /\ \A u \in Tasks \ {t} : Dragged(u)
    BY <1>0, <2>1, MoveDrags
  <2>8. TaskFits(t)'
    BY <1>0, <2>1, <2>2, <2>3, <2>4, <2>6, <2>7, ClosedFits
  <2>9. \A u \in Tasks \ {t} : attempts'[u] = attempts[u]
    BY <1>0, <2>1, <2>3, OneAttemptWritten
  <2> QED
    BY <2>1, <2>7, <2>8, <2>9, OneTaskLooked
<1>6. ASSUME ReconcileUnknown(t, a)
      PROVE  RegisterInv'
  <2> DEFINE new == [rec EXCEPT !.state = "reconciliation_required",
                                !.resolution = "unknown"]
  <2>1. /\ Reconcilable(rec) /\ SetAttempt(t, a, new)
        /\ Move(t, "blocked", "reconciliation_required", HeldBy(t, "blocked", deps), {})
        /\ UNCHANGED <<results, rounds>>
    BY <1>6 DEF ReconcileUnknown, evidenceVars, rec
  <2>2. a \in OpenAttempts(t) /\ rec.result = FALSE /\ rec.delivery = None
    BY <1>o, <2>1 DEF Reconcilable
  <2>3. new \in Attempt /\ AttemptOK(new)
    BY <1>0, <1>w, <2>2, AttemptTypes, WrittenInOrder
  <2>4. new.result = FALSE /\ new.state = "reconciliation_required"
    BY <1>0, <2>2 DEF Attempt
  <2> HIDE DEF new
  <2>5. /\ status'[t] = "blocked" /\ reason'[t] = "reconciliation_required"
        /\ \A u \in Tasks \ {t} : Dragged(u)
    BY <1>0, <2>1, MoveDrags
  <2>6. TaskFits(t)'
    BY <1>0, <2>1, <2>2, <2>3, <2>4, <2>5, ClosedFits
  <2>7. \A u \in Tasks \ {t} : attempts'[u] = attempts[u]
    BY <1>0, <2>1, <2>3, OneAttemptWritten
  <2> QED
    BY <2>1, <2>5, <2>6, <2>7, OneTaskLooked
<1>7. ASSUME NEW r \in Revisions, NEW o \in Reports, NEW old \in Attempt,
             StoreResult(t, a, old, r, o), a \in OpenAttempts(t),
             AttemptOK(WithResult(old)), WithResult(old).result = TRUE, NEW targets,
             \/ Move(t, "awaiting_review", None, {}, {})
             \/ Move(t, "awaiting_review", None, {},
                     FreedBy(t, targets, "awaiting_review", deps))
      PROVE  RegisterInv'
  <2>1. /\ SetAttempt(t, a, WithResult(old)) /\ UNCHANGED rounds
        /\ results' = [results EXCEPT ![t] = Append(@, [attempt |-> a, revision |-> r])]
    BY <1>7 DEF StoreResult
  <2>2. WithResult(old) \in Attempt
    BY <1>7, AttemptTypes
  <2>3. /\ status'[t] = "awaiting_review" /\ reason'[t] = None
        /\ \A u \in Tasks \ {t} : Dragged(u)
    BY <1>0, <1>7, MoveDrags
  <2>4. TaskFits(t)'
    BY <1>0, <1>7, <2>1, <2>2, <2>3, StoredFits
  <2>5. \A u \in Tasks \ {t} : attempts'[u] = attempts[u] /\ results'[u] = results[u]
    BY <1>0, <2>1, <2>2, OneAttemptWritten DEF TypeOK
  <2> QED
    BY <2>1, <2>3, <2>4, <2>5, OneTaskLooked
<1>8. ASSUME NEW r \in Revisions, NEW o \in Reports, AcceptResult(t, a, r, o)
      PROVE  RegisterInv'
  <2>1. /\ StoreResult(t, a, rec, r, o) /\ AcceptsResult(rec)
        /\ Move(t, "awaiting_review", None, {}, {})
    BY <1>8 DEF AcceptResult, StoreResult, rec
  <2>2. a \in OpenAttempts(t) /\ rec.result = FALSE /\ rec.delivery = None
    BY <1>o, <2>1 DEF AcceptsResult, ActiveStates
  <2>3. AttemptOK(WithResult(rec)) /\ WithResult(rec).result = TRUE
    BY <1>0, <1>w, <2>1, <2>2, WrittenInOrder
  <2> QED
    BY <1>0, <1>7, <2>1, <2>2, <2>3
<1>9. ASSUME NEW r \in Revisions, NEW o \in Reports, ReconcileCompleted(t, a, r, o)
      PROVE  RegisterInv'
  <2> DEFINE old == [rec EXCEPT !.resolution = "completed"]
  <2>1. /\ Reconcilable(rec) /\ StoreResult(t, a, old, r, o)
        /\ Move(t, "awaiting_review", None, {},
                FreedBy(t, LiveStatuses \ {"blocked"}, "awaiting_review", deps))
    BY <1>9 DEF ReconcileCompleted, rec
  <2>2. a \in OpenAttempts(t) /\ rec.result = FALSE /\ rec.delivery = None
    BY <1>o, <2>1 DEF Reconcilable
  <2>3. old \in Attempt /\ AttemptOK(WithResult(old)) /\ WithResult(old).result = TRUE
    BY <1>0, <1>w, <2>2, AttemptTypes, WrittenInOrder
  <2> HIDE DEF old
  <2> QED
    BY <1>7, <2>1, <2>2, <2>3
<1>10. CASE InternalStep(t, a)
  BY <1>1, <1>2, <1>3, <1>10 DEF InternalStep
<1>11. CASE OperatorStep(t, a)
  BY <1>4, <1>5, <1>6, <1>11 DEF OperatorStep
<1>12. CASE ResultStep(t, a)
  BY <1>8, <1>9, <1>12 DEF ResultStep
<1> QED
  BY <1>10, <1>11, <1>12 DEF AttemptStep

-----------------------------------------------------------------------------
(* Reviews, and the theorems.                                              *)

LEMMA ReviewStepRegister ==
  ASSUME RegisterInv, TypeInv', NEW t \in Tasks, ReviewStep(t)
  PROVE  RegisterInv'
<1>0. TypeOK /\ TaskFits(t)
  BY DEF RegisterInv, TypeInv
<1>1. ASSUME NEW v \in {"approved", "changes_requested"}, ReviewManualCheck(t, v)
      PROVE  RegisterInv'
  <2>1. UNCHANGED <<status, reason, attempts, results, rounds>>
    BY <1>1 DEF ReviewManualCheck, boardVars
  <2>2. \A u \in Tasks : Dragged(u)
    BY <2>1 DEF Dragged
  <2> QED
    BY <1>0, <2>1, <2>2, DraggedFits, OneTaskLooked
<1>s. status[t] = "awaiting_review" => OpenAttempts(t) = {}
  BY <1>0 DEF TaskFits, RegisterFits, OpenAttempts
<1>2. ASSUME RequestChanges(t)
      PROVE  RegisterInv'
  <2> DEFINE to  == IF Exhausted(t) THEN "blocked" ELSE "changes_requested"
             why == IF Exhausted(t) THEN "correction_limit_reached" ELSE None
  <2>1. /\ status[t] = "awaiting_review" /\ rounds' = [rounds EXCEPT ![t] = @ + 1]
        /\ Move(t, to, why, HeldBy(t, to, deps), {})
        /\ UNCHANGED <<attempts, results>>
    BY <1>2 DEF RequestChanges, Reviewable
  <2>2. /\ to \in {"blocked", "changes_requested"}
        /\ why \in {None, "correction_limit_reached"}
    OBVIOUS
  <2> HIDE DEF to, why
  <2>3. status'[t] = to /\ reason'[t] = why /\ \A u \in Tasks \ {t} : Dragged(u)
    BY <1>0, <2>1, MoveDrags
  <2>4. /\ Len(results'[t]) = rounds'[t] /\ rounds'[t] \in Nat
        /\ \A u \in Tasks \ {t} : rounds'[u] = rounds[u]
    BY <1>0, <2>1 DEF TaskFits, RoundsFit, TypeOK
  <2>5. RoundsFit(t)'
    BY <2>2, <2>3, <2>4 DEF RoundsFit, None
  <2>6. TaskFits(t)'
    BY <1>0, <1>s, <2>1, <2>2, <2>3, <2>5, SettledFits DEF None
  <2> QED
    BY <2>1, <2>3, <2>4, <2>6, OneTaskLooked
<1>3. ASSUME Approve(t)
      PROVE  RegisterInv'
  <2>1. /\ status[t] = "awaiting_review" /\ Move(t, "verified", None, {}, Frees(t, deps))
        /\ UNCHANGED <<attempts, results, rounds>>
    BY <1>3 DEF Approve, Reviewable, evidenceVars
  <2>2. /\ status'[t] = "verified" /\ reason'[t] = None
        /\ \A u \in Tasks \ {t} : Dragged(u)
    BY <1>0, <2>1, MoveDrags
  <2>3. RoundsFit(t)'
    BY <1>0, <2>1, <2>2 DEF TaskFits, RoundsFit, None
  <2>4. TaskFits(t)'
    BY <1>0, <1>s, <2>1, <2>2, <2>3, SettledFits DEF None
  <2> QED
    BY <2>1, <2>2, <2>4, OneTaskLooked
<1> QED
  BY <1>1, <1>2, <1>3 DEF ReviewStep

LEMMA StillFits ==
  ASSUME RegisterInv, TypeInv', UNCHANGED <<status, reason, attempts, results, rounds>>
  PROVE  RegisterInv'
<1>1. ASSUME NEW u \in Tasks PROVE TaskFits(u)'
  BY DraggedFits DEF RegisterInv, TypeInv, Dragged
<1> QED
  BY <1>1 DEF RegisterInv

LEMMA RegisterAtStart == Init => RegisterInv
<1> SUFFICES ASSUME Init PROVE RegisterInv
  OBVIOUS
<1>1. TypeInv
  BY TypesAtStart
<1>2. ASSUME NEW t \in Tasks PROVE TaskFits(t)
  <2>1. /\ status[t] = "absent" /\ reason[t] = None
        /\ attempts[t] = <<>> /\ results[t] = <<>> /\ rounds[t] = 0
    BY DEF Init
  <2>2. DOMAIN attempts[t] = {} /\ DOMAIN results[t] = {} /\ Len(results[t]) = 0
    BY <2>1
  <2>3. RegisterFits(t)
    BY <2>1, <2>2 DEF RegisterFits, OpenAttempts, ActiveAttempts, UnknownAttempts, None
  <2>4. AttemptsFit(t) /\ ResultsFit(t)
    BY <2>2 DEF AttemptsFit, ResultsFit
  <2>5. RoundsFit(t)
    BY <2>1, <2>2 DEF RoundsFit, None
  <2> QED
    BY <2>3, <2>4, <2>5 DEF TaskFits
<1> QED
  BY <1>1, <1>2 DEF RegisterInv

LEMMA RegisterStays == RegisterInv /\ [Next]_vars => RegisterInv'
<1> SUFFICES ASSUME RegisterInv, [Next]_vars
             PROVE  RegisterInv'
  OBVIOUS
<1>1. TypeInv'
  BY TypesStay DEF RegisterInv
<1>2. CASE UNCHANGED vars
  BY <1>1, <1>2, StillFits DEF vars
<1>3. CASE ProjectStep
  BY <1>1, <1>3, StillFits
     DEF ProjectStep, RecordTest, DecideBaseline, DecideStage, SetLimit, boardVars,
         evidenceVars
<1> QED
  BY <1>1, <1>2, <1>3, TaskStepRegister, AttemptStepRegister, ReviewStepRegister DEF Next

LEMMA RegisterAlways == Spec => []RegisterInv
BY RegisterAtStart, RegisterStays, PTL DEF Spec

\* The status and the register of every task agree in every reachable state:
\* one open attempt at most, the newest, and the status says so.
THEOREM RegisterAgrees == Spec => []RegisterMatchesStatus
<1>1. RegisterInv => RegisterMatchesStatus
  BY DEF RegisterInv, TaskFits, RegisterFits, RegisterMatchesStatus
<1> QED
  BY <1>1, RegisterAlways, PTL

\* No result counts after a cancellation or a lost run, unless an operator
\* confirmed it, whatever the order in which they arrive.
THEOREM LateResultsAreOut == Spec => []NoLateResult
<1>1. RegisterInv => NoLateResult
  BY DEF RegisterInv, TaskFits, AttemptsFit, AttemptOK, NoLateResult
<1> QED
  BY <1>1, RegisterAlways, PTL

\* A result is owed to a workflow exactly when the attempt that brought it
\* was linked to one.
THEOREM ResultsAreOwed == Spec => []DeliveryOwed
<1>1. RegisterInv => DeliveryOwed
  BY DEF RegisterInv, TaskFits, AttemptsFit, AttemptOK, DeliveryOwed
<1> QED
  BY <1>1, RegisterAlways, PTL

\* The evidence rows name the attempts that brought a result, each once and
\* in order.
THEOREM EvidenceMatchesRegister == Spec => []ResultsMatchRegister
<1>1. RegisterInv => ResultsMatchRegister
  BY DEF RegisterInv, TaskFits, ResultsFit, ResultsMatchRegister
<1> QED
  BY <1>1, RegisterAlways, PTL

\* Every result is reviewed before the next one is accepted, for any number
\* of rounds.
THEOREM ResultsAreReviewed == Spec => []OneResultPerRound
<1>1. RegisterInv => OneResultPerRound
  BY DEF RegisterInv, TaskFits, RoundsFit, OneResultPerRound
<1> QED
  BY <1>1, RegisterAlways, PTL
=============================================================================
