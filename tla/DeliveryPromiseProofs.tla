------------------------ MODULE DeliveryPromiseProofs ------------------------
(***************************************************************************)
(* The task board as a whole, for every instance: its dependency graph     *)
(* stays sound, and every step it takes is a step of TaskPromise.          *)
(***************************************************************************)
EXTENDS DeliveryRegisterProofs

-----------------------------------------------------------------------------
(* Reachability, as the least set closed under the edges.                  *)

LEMMA ReachableIsClosed ==
  ASSUME NEW d \in [Tasks -> SUBSET Tasks], NEW t \in Tasks
  PROVE  /\ Reachable(t, d) \subseteq Tasks
         /\ d[t] \subseteq Reachable(t, d)
         /\ \A x \in Reachable(t, d) : d[x] \subseteq Reachable(t, d)
BY DEF Reachable

LEMMA ReachableIsLeast ==
  ASSUME NEW d, NEW t \in Tasks, NEW S \in SUBSET Tasks,
         d[t] \subseteq S, \A x \in S : d[x] \subseteq S
  PROVE  Reachable(t, d) \subseteq S
BY DEF Reachable

\* What t reaches it reaches over one of its edges.
LEMMA ReachableUnfolds ==
  ASSUME NEW d \in [Tasks -> SUBSET Tasks], NEW t \in Tasks, NEW a \in Reachable(t, d)
  PROVE  a \in d[t] \/ \E x \in d[t] : a \in Reachable(x, d)
<1> DEFINE S == d[t] \cup UNION {Reachable(x, d) : x \in d[t]}
<1>1. S \in SUBSET Tasks /\ d[t] \subseteq S
  BY DEF Reachable
<1>2. ASSUME NEW y \in S PROVE d[y] \subseteq S
  <2>1. CASE y \in d[t]
    BY <2>1, ReachableIsClosed
  <2>2. CASE \E x \in d[t] : y \in Reachable(x, d)
    BY <2>2, ReachableIsClosed
  <2> QED
    BY <2>1, <2>2
<1>3. Reachable(t, d) \subseteq S
  <2> HIDE DEF S
  <2> QED
    BY <1>1, <1>2, ReachableIsLeast
<1> QED
  BY <1>3

\* New edges of t close no cycle, if t reaches itself over none of them: a
\* cycle through t is excluded, and one past t was there before.
LEMMA NoNewCycle ==
  ASSUME NEW d \in [Tasks -> SUBSET Tasks], NEW e \in [Tasks -> SUBSET Tasks],
         NEW t \in Tasks, NEW u \in Tasks, \A x \in Tasks \ {t} : e[x] = d[x],
         t \notin Reachable(t, e), u # t, u \in Reachable(u, e)
  PROVE  u \in Reachable(u, d)
<1>1. CASE t \notin Reachable(u, e)
  <2> SUFFICES ASSUME NEW S \in SUBSET Tasks, d[u] \subseteq S,
                      \A x \in S : d[x] \subseteq S
               PROVE  u \in S
    BY DEF Reachable
  <2> DEFINE R == S \cap Reachable(u, e)
  <2>1. R \in SUBSET Tasks /\ e[u] \subseteq R /\ \A x \in R : e[x] \subseteq R
    BY <1>1, ReachableIsClosed
  <2>2. Reachable(u, e) \subseteq R
    BY <2>1, ReachableIsLeast
  <2> QED
    BY <2>2
<1>2. CASE u \notin Reachable(t, e)
  <2> SUFFICES ASSUME NEW S \in SUBSET Tasks, d[u] \subseteq S,
                      \A x \in S : d[x] \subseteq S
               PROVE  u \in S
    BY DEF Reachable
  <2> DEFINE R == S \cup Reachable(t, e)
  <2>1. R \in SUBSET Tasks /\ e[u] \subseteq R
    BY ReachableIsClosed
  <2>2. ASSUME NEW x \in R PROVE e[x] \subseteq R
    <3>1. x \in Tasks
      BY <2>1
    <3> QED
      BY <2>2, <3>1, ReachableIsClosed
  <2>3. Reachable(u, e) \subseteq R
    BY <2>1, <2>2, ReachableIsLeast
  <2> QED
    BY <1>2, <2>3
<1>3. ~(t \in Reachable(u, e) /\ u \in Reachable(t, e))
  <2> SUFFICES ASSUME t \in Reachable(u, e), u \in Reachable(t, e)
               PROVE  FALSE
    OBVIOUS
  <2>1. e[u] \subseteq Reachable(t, e)
    BY ReachableIsClosed
  <2>2. Reachable(u, e) \subseteq Reachable(t, e)
    BY <2>1, ReachableIsClosed, ReachableIsLeast
  <2> QED
    BY <2>2
<1> QED
  BY <1>1, <1>2, <1>3

-----------------------------------------------------------------------------
(* The graph of the live tasks.                                            *)

\* A step of this kind keeps the graph: no dependencies or baselines of live
\* tasks change, and no live task is lost that another one needs.
LEMMA GraphUntouched ==
  ASSUME TypeOK, GraphIsSound, UNCHANGED <<deps, baseline>>,
         \A u \in Tasks : Live(u)' => Live(u),
         \A u, x \in Tasks : Live(u) /\ Live(u)' /\ x \in deps[u] /\ Live(x) => Live(x)'
  PROVE  GraphIsSound'
BY DEF GraphIsSound, TypeOK

\* Allowed dependencies of t keep the graph sound.
LEMMA GraphExtended ==
  ASSUME TypeOK, GraphIsSound, NEW t \in Tasks, NEW D \in SUBSET Tasks, NEW b,
         DependenciesAllowed(t, b, D),
         deps' = [deps EXCEPT ![t] = D], baseline' = [baseline EXCEPT ![t] = b],
         Live(t) => baseline[t] = b, Live(t)',
         \A u \in Tasks \ {t} : Live(u)' <=> Live(u)
  PROVE  GraphIsSound'
<1>1. /\ deps \in [Tasks -> SUBSET Tasks] /\ deps' \in [Tasks -> SUBSET Tasks]
      /\ deps'[t] = D /\ \A x \in Tasks \ {t} : deps'[x] = deps[x]
  BY DEF TypeOK
<1>2. t \notin Reachable(t, deps')
  BY <1>1, ReachableUnfolds DEF DependenciesAllowed
<1>3. ASSUME NEW u \in Tasks, Live(u)' PROVE u \notin Reachable(u, deps')
  <2>1. CASE u = t
    BY <1>2, <2>1
  <2>2. CASE u # t
    <3>1. Live(u)
      BY <1>3, <2>2
    <3> QED
      BY <1>1, <1>2, <2>2, <3>1, NoNewCycle DEF GraphIsSound
  <2> QED
    BY <2>1, <2>2
<1>4. ASSUME NEW u \in Tasks, Live(u)', NEW x \in deps'[u]
      PROVE  Live(x)' /\ baseline'[x] = baseline'[u]
  <2>1. CASE u = t
    <3>1. x # t /\ x \in Tasks /\ Live(x) /\ baseline[x] = b
      BY <1>1, <1>4, <2>1 DEF DependenciesAllowed
    <3> QED
      BY <2>1, <3>1 DEF TypeOK
  <2>2. CASE u # t
    <3>1. x \in Tasks /\ Live(u) /\ Live(x) /\ baseline[x] = baseline[u]
      BY <1>1, <1>4, <2>2 DEF GraphIsSound, TypeOK
    <3>2. CASE x = t
      BY <2>2, <3>1, <3>2, <1>4 DEF TypeOK
    <3>3. CASE x # t
      BY <2>2, <3>1, <3>3 DEF TypeOK
    <3> QED
      BY <3>2, <3>3
  <2> QED
    BY <2>1, <2>2
<1> QED
  BY <1>3, <1>4 DEF GraphIsSound

-----------------------------------------------------------------------------
(* What each kind of step does to the task it is about, and to the others. *)

\* Nothing but the status and the reason of other tasks changes with task t,
\* and these only by propagation.
OnlyAbout(t) ==
  \A u \in Tasks \ {t} :
    /\ Dragged(u) /\ attempts'[u] = attempts[u]
    /\ results'[u] = results[u] /\ rounds'[u] = rounds[u]

\* A task is running, for the promise, while it executes or its run is lost.
Busy(t) == status[t] = "executing" \/ reason[t] = "reconciliation_required"

SameTask(t) ==
  /\ status'[t] = status[t] /\ reason'[t] = reason[t]
  /\ results'[t] = results[t] /\ rounds'[t] = rounds[t]

LEMMA DraggedStaysLive ==
  ASSUME NEW u, Dragged(u)
  PROVE  /\ Live(u)' <=> Live(u)
         /\ status'[u] = "verified" <=> status[u] = "verified"
BY DEF Dragged, Live, LiveStatuses, Propagating

LEMMA BusyIsOpen ==
  ASSUME NEW t, TaskFits(t)
  PROVE  Busy(t) <=> OpenAttempts(t) # {}
BY DEF TaskFits, RegisterFits, Busy, OpenAttempts

\* A step on the register rewrites an attempt in place, ends the run without
\* a result, or stores one.
LEMMA AttemptShape ==
  ASSUME RegisterInv, NEW t \in Tasks, NEW a \in DOMAIN attempts[t], AttemptStep(t, a)
  PROVE  /\ UNCHANGED <<deps, baseline, projectVars>> /\ OnlyAbout(t) /\ Live(t)
         /\ Len(attempts'[t]) = Len(attempts[t])
         /\ attempts[t] # <<>> /\ attempts'[t] # <<>>
         /\ \/ SameTask(t)
            \/ /\ Busy(t) /\ results'[t] = results[t] /\ rounds'[t] = rounds[t]
               /\ status'[t] \in {"changes_requested", "ready", "blocked"}
               /\ reason'[t] # "correction_limit_reached"
               /\ status'[t] = "ready" =>
                    ReadyGate(t) /\ BlockedAncestors(t, deps) = {}
            \/ /\ Busy(t) /\ rounds'[t] = rounds[t]
               /\ status'[t] = "awaiting_review" /\ reason'[t] = None
               /\ Len(results'[t]) = Len(results[t]) + 1
<1> DEFINE rec == attempts[t][a]
<1>0. TypeOK /\ TaskFits(t) /\ rec \in Attempt
  BY DEF RegisterInv, TypeInv, TypeOK
<1>o. rec.state \in ActiveStates \cup {"reconciliation_required"} => Busy(t)
  BY <1>0, BusyIsOpen DEF OpenAttempts, ActiveAttempts, UnknownAttempts
<1> HIDE DEF rec
<1>s. ASSUME NEW new \in Attempt, SetAttempt(t, a, new)
      PROVE  /\ Len(attempts'[t]) = Len(attempts[t])
             /\ attempts[t] # <<>> /\ attempts'[t] # <<>>
             /\ \A u \in Tasks \ {t} : attempts'[u] = attempts[u]
  BY <1>0, <1>s, OneAttemptWritten, SetAttemptKeepsStarted
<1>r. ASSUME NEW new \in Attempt, SetAttempt(t, a, new), Live(t),
             UNCHANGED <<boardVars, evidenceVars, projectVars>>
      PROVE  /\ UNCHANGED <<deps, baseline, projectVars>> /\ OnlyAbout(t) /\ Live(t)
             /\ Len(attempts'[t]) = Len(attempts[t])
             /\ attempts[t] # <<>> /\ attempts'[t] # <<>>
             /\ SameTask(t)
  BY <1>r, <1>s DEF boardVars, evidenceVars, OnlyAbout, Dragged, SameTask
<1>1. CASE InternalStep(t, a)
  BY <1>0, <1>1, <1>r, AttemptTypes DEF InternalStep, Claim, LinkWorkflow, MarkDelivered, rec
<1>2. CASE Cancel(t, a)
  BY <1>0, <1>2, <1>r, AttemptTypes DEF Cancel, rec
<1>3. ASSUME NEW res \in {"not_started", "stopped"}, ReconcileReleased(t, a, res)
      PROVE  /\ UNCHANGED <<deps, baseline, projectVars>> /\ OnlyAbout(t) /\ Live(t)
             /\ Len(attempts'[t]) = Len(attempts[t])
             /\ attempts[t] # <<>> /\ attempts'[t] # <<>>
             /\ Busy(t) /\ results'[t] = results[t] /\ rounds'[t] = rounds[t]
             /\ status'[t] \in {"changes_requested", "ready", "blocked"}
             /\ reason'[t] # "correction_limit_reached"
             /\ status'[t] = "ready" => ReadyGate(t) /\ BlockedAncestors(t, deps) = {}
  <2> DEFINE to  == ReleaseTarget(t, a)
             why == IF ~CorrectionRound(t, a) /\ BlockedAncestors(t, deps) # {}
                      THEN "dependency_blocked" ELSE None
             new == [rec EXCEPT !.state = "closed", !.resolution = res,
                       !.outcome = IF rec.cancelAsked THEN "cancelled" ELSE res]
  <2>1. /\ Reconcilable(rec) /\ SetAttempt(t, a, new) /\ Live(t)
        /\ Move(t, to, why, HeldBy(t, to, deps),
                FreedBy(t, LiveStatuses \ {"blocked"}, to, deps))
        /\ UNCHANGED <<deps, baseline, projectVars, results, rounds>>
    BY <1>3 DEF ReconcileReleased, evidenceVars, rec
  <2>2. new \in Attempt
    BY <1>0, AttemptTypes
  <2>3. /\ to \in {"changes_requested", "ready", "blocked"}
        /\ why # "correction_limit_reached"
        /\ to = "ready" => ReadyGate(t) /\ BlockedAncestors(t, deps) = {}
    BY DEF ReleaseTarget, None
  <2> HIDE DEF to, why, new
  <2>4. status'[t] = to /\ reason'[t] = why /\ \A u \in Tasks \ {t} : Dragged(u)
    BY <1>0, <2>1, MoveDrags
  <2>5. Busy(t)
    BY <1>o, <2>1 DEF Reconcilable
  <2> QED
    BY <1>s, <2>1, <2>2, <2>3, <2>4, <2>5 DEF OnlyAbout
<1>4. ASSUME ReconcileUnknown(t, a)
      PROVE  /\ UNCHANGED <<deps, baseline, projectVars>> /\ OnlyAbout(t) /\ Live(t)
             /\ Len(attempts'[t]) = Len(attempts[t])
             /\ attempts[t] # <<>> /\ attempts'[t] # <<>>
             /\ Busy(t) /\ results'[t] = results[t] /\ rounds'[t] = rounds[t]
             /\ status'[t] = "blocked" /\ reason'[t] # "correction_limit_reached"
  <2> DEFINE new == [rec EXCEPT !.state = "reconciliation_required",
                                !.resolution = "unknown"]
  <2>1. /\ Reconcilable(rec) /\ SetAttempt(t, a, new) /\ Live(t)
        /\ Move(t, "blocked", "reconciliation_required", HeldBy(t, "blocked", deps), {})
        /\ UNCHANGED <<deps, baseline, projectVars, results, rounds>>
    BY <1>4 DEF ReconcileUnknown, evidenceVars, rec
  <2>2. new \in Attempt
    BY <1>0, AttemptTypes
  <2> HIDE DEF new
  <2>3. /\ status'[t] = "blocked" /\ reason'[t] = "reconciliation_required"
        /\ \A u \in Tasks \ {t} : Dragged(u)
    BY <1>0, <2>1, MoveDrags
  <2>4. Busy(t)
    BY <1>o, <2>1 DEF Reconcilable
  <2> QED
    BY <1>s, <2>1, <2>2, <2>3, <2>4 DEF OnlyAbout
<1>5. ASSUME NEW r \in Revisions, NEW o \in Reports, NEW old \in Attempt,
             StoreResult(t, a, old, r, o), Busy(t), Live(t),
             UNCHANGED <<deps, baseline, projectVars>>, NEW targets,
             \/ Move(t, "awaiting_review", None, {}, {})
             \/ Move(t, "awaiting_review", None, {},
                     FreedBy(t, targets, "awaiting_review", deps))
      PROVE  /\ OnlyAbout(t) /\ Live(t)
             /\ Len(attempts'[t]) = Len(attempts[t])
             /\ attempts[t] # <<>> /\ attempts'[t] # <<>>
             /\ Busy(t) /\ rounds'[t] = rounds[t]
             /\ status'[t] = "awaiting_review" /\ reason'[t] = None
             /\ Len(results'[t]) = Len(results[t]) + 1
  <2>1. /\ SetAttempt(t, a, WithResult(old)) /\ UNCHANGED rounds
        /\ results' = [results EXCEPT ![t] = Append(@, [attempt |-> a, revision |-> r])]
    BY <1>5 DEF StoreResult
  <2>2. WithResult(old) \in Attempt
    BY <1>5, AttemptTypes
  <2>3. /\ status'[t] = "awaiting_review" /\ reason'[t] = None
        /\ \A u \in Tasks \ {t} : Dragged(u)
    BY <1>0, <1>5, MoveDrags
  <2>4. /\ results[t] \in Seq(Result)
        /\ results'[t] = Append(results[t], [attempt |-> a, revision |-> r])
        /\ \A u \in Tasks \ {t} : results'[u] = results[u]
    BY <1>0, <2>1 DEF TypeOK
  <2>5. Len(results'[t]) = Len(results[t]) + 1
    BY <2>4
  <2> QED
    BY <1>5, <1>s, <2>1, <2>2, <2>3, <2>4, <2>5 DEF OnlyAbout
<1>6. ASSUME NEW r \in Revisions, NEW o \in Reports, AcceptResult(t, a, r, o)
      PROVE  /\ UNCHANGED <<deps, baseline, projectVars>> /\ OnlyAbout(t) /\ Live(t)
             /\ Len(attempts'[t]) = Len(attempts[t])
             /\ attempts[t] # <<>> /\ attempts'[t] # <<>>
             /\ Busy(t) /\ rounds'[t] = rounds[t]
             /\ status'[t] = "awaiting_review" /\ reason'[t] = None
             /\ Len(results'[t]) = Len(results[t]) + 1
  <2>1. /\ StoreResult(t, a, rec, r, o) /\ AcceptsResult(rec) /\ Live(t)
        /\ Move(t, "awaiting_review", None, {}, {})
        /\ UNCHANGED <<deps, baseline, projectVars>>
    BY <1>6 DEF AcceptResult, StoreResult, rec
  <2>2. Busy(t)
    BY <1>o, <2>1 DEF AcceptsResult, ActiveStates
  <2> QED
    BY <1>0, <1>5, <2>1, <2>2
<1>7. ASSUME NEW r \in Revisions, NEW o \in Reports, ReconcileCompleted(t, a, r, o)
      PROVE  /\ UNCHANGED <<deps, baseline, projectVars>> /\ OnlyAbout(t) /\ Live(t)
             /\ Len(attempts'[t]) = Len(attempts[t])
             /\ attempts[t] # <<>> /\ attempts'[t] # <<>>
             /\ Busy(t) /\ rounds'[t] = rounds[t]
             /\ status'[t] = "awaiting_review" /\ reason'[t] = None
             /\ Len(results'[t]) = Len(results[t]) + 1
  <2> DEFINE old == [rec EXCEPT !.resolution = "completed"]
  <2>1. /\ Reconcilable(rec) /\ StoreResult(t, a, old, r, o) /\ Live(t)
        /\ Move(t, "awaiting_review", None, {},
                FreedBy(t, LiveStatuses \ {"blocked"}, "awaiting_review", deps))
        /\ UNCHANGED <<deps, baseline, projectVars>>
    BY <1>7 DEF ReconcileCompleted, rec
  <2>2. Busy(t)
    BY <1>o, <2>1 DEF Reconcilable
  <2>3. old \in Attempt
    BY <1>0, AttemptTypes
  <2> HIDE DEF old
  <2> QED
    BY <1>5, <2>1, <2>2, <2>3
<1>8. CASE OperatorStep(t, a)
  BY <1>2, <1>3, <1>4, <1>8 DEF OperatorStep
<1>9. CASE ResultStep(t, a)
  BY <1>6, <1>7, <1>9 DEF ResultStep
<1> QED
  BY <1>1, <1>8, <1>9 DEF AttemptStep

\* A reviewer leaves the task, sends it back, or verifies it.
LEMMA ReviewShape ==
  ASSUME RegisterInv, NEW t \in Tasks, ReviewStep(t)
  PROVE  /\ UNCHANGED <<deps, baseline, attempts, results, projectVars>>
         /\ OnlyAbout(t) /\ status[t] = "awaiting_review" /\ results[t] # <<>>
         /\ \/ SameTask(t)
            \/ /\ rounds'[t] = rounds[t] + 1
               /\ \/ status'[t] = "blocked" /\ reason'[t] = "correction_limit_reached"
                  \/ /\ status'[t] = "changes_requested" /\ reason'[t] = None
                     /\ rounds[t] < limit
            \/ /\ rounds'[t] = rounds[t] /\ status'[t] = "verified" /\ reason'[t] = None
               /\ Proven(t, LatestResult(t).revision)
<1>0. TypeOK
  BY DEF RegisterInv, TypeInv
<1>1. ASSUME NEW v \in {"approved", "changes_requested"}, ReviewManualCheck(t, v)
      PROVE  /\ UNCHANGED <<deps, baseline, attempts, results, projectVars>>
             /\ OnlyAbout(t) /\ SameTask(t)
             /\ status[t] = "awaiting_review" /\ results[t] # <<>>
  BY <1>1 DEF ReviewManualCheck, Reviewable, boardVars, OnlyAbout, Dragged, SameTask
<1>2. ASSUME RequestChanges(t)
      PROVE  /\ UNCHANGED <<deps, baseline, attempts, results, projectVars>>
             /\ OnlyAbout(t) /\ status[t] = "awaiting_review" /\ results[t] # <<>>
             /\ rounds'[t] = rounds[t] + 1
             /\ \/ status'[t] = "blocked" /\ reason'[t] = "correction_limit_reached"
                \/ /\ status'[t] = "changes_requested" /\ reason'[t] = None
                   /\ rounds[t] < limit
  <2> DEFINE to  == IF Exhausted(t) THEN "blocked" ELSE "changes_requested"
             why == IF Exhausted(t) THEN "correction_limit_reached" ELSE None
  <2>1. /\ status[t] = "awaiting_review" /\ results[t] # <<>>
        /\ rounds' = [rounds EXCEPT ![t] = @ + 1]
        /\ Move(t, to, why, HeldBy(t, to, deps), {})
        /\ UNCHANGED <<deps, baseline, attempts, results, projectVars>>
    BY <1>2 DEF RequestChanges, Reviewable
  <2>2. limit \in Nat /\ rounds[t] \in Nat
    BY <1>0, ConstantsAssumption DEF TypeOK
  <2>3. \/ to = "blocked" /\ why = "correction_limit_reached"
        \/ to = "changes_requested" /\ why = None /\ rounds[t] < limit
    BY <2>2 DEF Exhausted
  <2> HIDE DEF to, why
  <2>4. status'[t] = to /\ reason'[t] = why /\ \A u \in Tasks \ {t} : Dragged(u)
    BY <1>0, <2>1, MoveDrags
  <2>5. rounds'[t] = rounds[t] + 1 /\ \A u \in Tasks \ {t} : rounds'[u] = rounds[u]
    BY <1>0, <2>1 DEF TypeOK
  <2> QED
    BY <2>1, <2>3, <2>4, <2>5 DEF OnlyAbout
<1>3. ASSUME Approve(t)
      PROVE  /\ UNCHANGED <<deps, baseline, attempts, results, projectVars>>
             /\ OnlyAbout(t) /\ status[t] = "awaiting_review" /\ results[t] # <<>>
             /\ rounds'[t] = rounds[t] /\ status'[t] = "verified" /\ reason'[t] = None
             /\ Proven(t, LatestResult(t).revision)
  <2>1. /\ status[t] = "awaiting_review" /\ results[t] # <<>>
        /\ Move(t, "verified", None, {}, Frees(t, deps))
        /\ Proven(t, LatestResult(t).revision)
        /\ UNCHANGED <<deps, baseline, attempts, results, rounds, projectVars>>
    BY <1>3 DEF Approve, Reviewable, evidenceVars
  <2>2. /\ status'[t] = "verified" /\ reason'[t] = None
        /\ \A u \in Tasks \ {t} : Dragged(u)
    BY <1>0, <2>1, MoveDrags
  <2> QED
    BY <2>1, <2>2 DEF OnlyAbout
<1> QED
  BY <1>1, <1>2, <1>3 DEF ReviewStep

\* A user's status change.
LEMMA StatusShape ==
  ASSUME RegisterInv, NEW t \in Tasks, NEW D \in SUBSET Tasks, NEW to \in UserSettable,
         SetStatus(t, D, to)
  PROVE  /\ deps' = [deps EXCEPT ![t] = D] /\ OnlyAbout(t) /\ Live(t) /\ Live(t)'
         /\ UNCHANGED <<baseline, attempts, results, rounds, projectVars>>
         /\ D # deps[t] => /\ status[t] \in {"draft", "blocked"} /\ attempts[t] = <<>>
                           /\ DependenciesAllowed(t, baseline[t], D)
         /\ ~Busy(t) /\ status[t] \notin {"verified", "cancelled"}
         /\ status'[t] = to /\ to # status[t]
         /\ reason'[t] \in {None, "correction_limit_reached"}
         /\ reason[t] = "correction_limit_reached" =>
              to = "cancelled" /\ reason'[t] = reason[t]
         /\ reason'[t] = "correction_limit_reached" => reason[t] = reason'[t]
         /\ to = "ready" => ReadyGate(t) /\ BlockedAncestors(t, deps') = {}
<1> DEFINE why == IF reason[t] \in SystemOwned THEN reason[t] ELSE None
           d == [deps EXCEPT ![t] = D]
<1>0. TypeOK
  BY DEF RegisterInv, TypeInv
<1>1. /\ Live(t) /\ to # status[t] /\ Settled(t) /\ CanMove(status[t], to, reason[t])
      /\ D # deps[t] => /\ status[t] \in {"draft", "blocked"} /\ attempts[t] = <<>>
                        /\ DependenciesAllowed(t, baseline[t], D)
      /\ to = "ready" => ReadyGate(t) /\ BlockedAncestors(t, d) = {}
      /\ deps' = d
      /\ Move(t, to, why, HeldBy(t, to, d), FreedBy(t, {"draft", "ready"}, to, d))
      /\ UNCHANGED <<baseline, attempts, results, rounds, projectVars>>
  BY DEF SetStatus, ScopeEditable, evidenceVars
<1> HIDE DEF d
<1>2. /\ ~Busy(t) /\ why \in {None, "correction_limit_reached"}
      /\ why = "correction_limit_reached" <=> reason[t] = "correction_limit_reached"
  BY <1>1 DEF Settled, Busy, SystemOwned, None
<1>3. /\ status[t] \notin {"verified", "cancelled"}
      /\ reason[t] = "correction_limit_reached" => to = "cancelled"
  BY <1>1 DEF CanMove, Transitions
<1> HIDE DEF why
<1>4. status'[t] = to /\ reason'[t] = why /\ \A u \in Tasks \ {t} : Dragged(u)
  BY <1>0, <1>1, MoveDrags
<1>5. Live(t)'
  BY <1>4 DEF UserSettable, Live, LiveStatuses
<1> QED
  BY <1>1, <1>2, <1>3, <1>4, <1>5 DEF OnlyAbout, d

-----------------------------------------------------------------------------
(* The invariant of the board.                                             *)

\* A task that is not there yet needs nothing, and one that ran out of rounds
\* is blocked until it is dropped.
AbsentIsBlank == \A t \in Tasks : status[t] = "absent" => deps[t] = {}

EscalatedIsBlocked ==
  \A t \in Tasks : reason[t] = "correction_limit_reached" =>
    status[t] \in {"blocked", "cancelled", "archived"}

BoardInv == /\ RegisterInv /\ PrereqInv
            /\ GraphIsSound /\ AbsentIsBlank /\ EscalatedIsBlocked

\* A step about one live task that keeps the dependencies keeps the rest of
\* the invariant, if the task stays live and an escalation blocks it.
LEMMA ShapeKeepsBoard ==
  ASSUME BoardInv, RegisterInv', PrereqInv', NEW t \in Tasks, OnlyAbout(t),
         Live(t), Live(t)', UNCHANGED <<deps, baseline>>,
         reason'[t] = "correction_limit_reached" =>
           status'[t] \in {"blocked", "cancelled", "archived"}
  PROVE  BoardInv'
<1>1. \A u \in Tasks : Live(u)' <=> Live(u)
  BY DraggedStaysLive DEF OnlyAbout
<1>2. GraphIsSound'
  BY <1>1, GraphUntouched DEF BoardInv, RegisterInv, TypeInv
<1>3. AbsentIsBlank'
  BY DEF BoardInv, AbsentIsBlank, OnlyAbout, Dragged, Live, LiveStatuses
<1>4. EscalatedIsBlocked'
  BY DEF BoardInv, EscalatedIsBlocked, OnlyAbout, Dragged, None
<1> QED
  BY <1>2, <1>3, <1>4 DEF BoardInv

LEMMA TaskStepBoard ==
  ASSUME BoardInv, RegisterInv', PrereqInv', NEW t \in Tasks, TaskStep(t)
  PROVE  BoardInv'
<1>0. TypeOK
  BY DEF BoardInv, RegisterInv, TypeInv
<1> USE DEF BoardInv
<1>1. ASSUME NEW b \in Baselines, NEW D \in SUBSET Tasks, CreateTask(t, b, D)
      PROVE  BoardInv'
  <2>1. /\ status[t] = "absent" /\ DependenciesAllowed(t, b, D)
        /\ status' = [status EXCEPT ![t] = "draft"]
        /\ deps' = [deps EXCEPT ![t] = D] /\ baseline' = [baseline EXCEPT ![t] = b]
        /\ UNCHANGED reason
    BY <1>1 DEF CreateTask
  <2>2. /\ ~Live(t) /\ Live(t)' /\ \A u \in Tasks \ {t} : status'[u] = status[u]
        /\ status'[t] = "draft"
    BY <1>0, <2>1 DEF Live, LiveStatuses, TypeOK
  <2>3. GraphIsSound'
    BY <1>0, <2>1, <2>2, GraphExtended DEF Live
  <2>4. AbsentIsBlank' /\ EscalatedIsBlocked'
    BY <1>0, <2>1, <2>2 DEF AbsentIsBlank, EscalatedIsBlocked, TypeOK
  <2> QED
    BY <2>3, <2>4
<1>2. ASSUME NEW D \in SUBSET Tasks, EditDependencies(t, D)
      PROVE  BoardInv'
  <2>1. /\ Live(t) /\ DependenciesAllowed(t, baseline[t], D)
        /\ deps' = [deps EXCEPT ![t] = D] /\ UNCHANGED <<status, reason, baseline>>
    BY <1>2 DEF EditDependencies
  <2>2. baseline' = [baseline EXCEPT ![t] = baseline[t]]
    BY <1>0, <2>1 DEF TypeOK
  <2>3. Live(t)' /\ \A u \in Tasks : Live(u)' <=> Live(u)
    BY <2>1 DEF Live
  <2>4. GraphIsSound'
    BY <1>0, <2>1, <2>2, <2>3, GraphExtended
  <2>5. AbsentIsBlank' /\ EscalatedIsBlocked'
    BY <1>0, <2>1 DEF AbsentIsBlank, EscalatedIsBlocked, TypeOK, Live, LiveStatuses
  <2> QED
    BY <2>4, <2>5
<1>3. ASSUME NEW D \in SUBSET Tasks, NEW to \in UserSettable, SetStatus(t, D, to)
      PROVE  BoardInv'
  <2>1. /\ deps' = [deps EXCEPT ![t] = D] /\ OnlyAbout(t) /\ Live(t) /\ Live(t)'
        /\ UNCHANGED baseline
        /\ D # deps[t] => DependenciesAllowed(t, baseline[t], D)
        /\ status'[t] = to
        /\ reason[t] = "correction_limit_reached" => to = "cancelled"
        /\ reason'[t] = "correction_limit_reached" => reason[t] = reason'[t]
    BY <1>3, StatusShape
  <2>2. CASE D = deps[t]
    <3>1. UNCHANGED deps
      BY <1>0, <2>1, <2>2 DEF TypeOK
    <3> QED
      BY <2>1, <3>1, ShapeKeepsBoard
  <2>3. CASE D # deps[t]
    <3>1. baseline' = [baseline EXCEPT ![t] = baseline[t]]
      BY <1>0, <2>1 DEF TypeOK
    <3>2. \A u \in Tasks \ {t} : Live(u)' <=> Live(u)
      BY <2>1, DraggedStaysLive DEF OnlyAbout
    <3>3. GraphIsSound'
      BY <1>0, <2>1, <2>3, <3>1, <3>2, GraphExtended
    <3>4. AbsentIsBlank'
      BY <1>0, <2>1 DEF AbsentIsBlank, OnlyAbout, Dragged, Live, LiveStatuses, TypeOK
    <3>5. EscalatedIsBlocked'
      BY <2>1 DEF EscalatedIsBlocked, OnlyAbout, Dragged, None
    <3> QED
      BY <3>3, <3>4, <3>5
  <2> QED
    BY <2>2, <2>3
<1>4. ASSUME DeleteTask(t)
      PROVE  BoardInv'
  <2>1. /\ Live(t) /\ Dependents(t) = {} /\ status' = [status EXCEPT ![t] = "archived"]
        /\ UNCHANGED <<reason, deps, baseline>>
    BY <1>4 DEF DeleteTask
  <2>2. status'[t] = "archived" /\ \A u \in Tasks \ {t} : status'[u] = status[u]
    BY <1>0, <2>1 DEF TypeOK
  <2>3. \A u, x \in Tasks : Live(u) /\ x \in deps[u] /\ Live(x) => Live(x)'
    BY <2>1, <2>2 DEF Live, Dependents
  <2>4. \A u \in Tasks : Live(u)' => Live(u)
    BY <2>2 DEF Live, LiveStatuses
  <2>5. GraphIsSound'
    BY <1>0, <2>1, <2>3, <2>4, GraphUntouched
  <2>6. AbsentIsBlank' /\ EscalatedIsBlocked'
    BY <2>1, <2>2 DEF AbsentIsBlank, EscalatedIsBlocked
  <2> QED
    BY <2>5, <2>6
<1>5. ASSUME NEW k \in Keys, Reserve(t, k)
      PROVE  BoardInv'
  <2>1. /\ status[t] \in {"ready", "changes_requested"}
        /\ status' = [status EXCEPT ![t] = "executing"]
        /\ reason' = [reason EXCEPT ![t] = None]
        /\ attempts' = [attempts EXCEPT ![t] = Append(@, NewAttempt(k))]
        /\ UNCHANGED <<deps, baseline, results, rounds>>
    BY <1>5 DEF Reserve, evidenceVars
  <2>2. /\ Live(t) /\ Live(t)' /\ OnlyAbout(t) /\ reason'[t] = None
    BY <1>0, <2>1 DEF Live, LiveStatuses, OnlyAbout, Dragged, TypeOK
  <2> QED
    BY <2>1, <2>2, ShapeKeepsBoard DEF None
<1> QED
  BY <1>1, <1>2, <1>3, <1>4, <1>5 DEF TaskStep, PlanStep

LEMMA BoardAtStart == Init => BoardInv
BY RegisterAtStart, PrereqAtStart
   DEF Init, BoardInv, GraphIsSound, AbsentIsBlank, EscalatedIsBlocked, Live,
       LiveStatuses, None

LEMMA BoardStays == BoardInv /\ [Next]_vars => BoardInv'
<1> SUFFICES ASSUME BoardInv, [Next]_vars
             PROVE  BoardInv'
  OBVIOUS
<1>0. RegisterInv' /\ PrereqInv' /\ TypeOK
  BY RegisterStays, PrereqStays DEF BoardInv, RegisterInv, TypeInv
<1>1. ASSUME NEW t \in Tasks, TaskStep(t)
      PROVE  BoardInv'
  BY <1>0, <1>1, TaskStepBoard
<1>2. ASSUME NEW t \in Tasks, NEW a \in DOMAIN attempts[t], AttemptStep(t, a)
      PROVE  BoardInv'
  <2>1. /\ UNCHANGED <<deps, baseline>> /\ OnlyAbout(t) /\ Live(t)
        /\ \/ SameTask(t)
           \/ /\ status'[t] \in {"changes_requested", "ready", "blocked"}
              /\ reason'[t] # "correction_limit_reached"
           \/ status'[t] = "awaiting_review" /\ reason'[t] = None
    BY <1>2, AttemptShape DEF BoardInv
  <2>2. Live(t)'
    BY <2>1 DEF SameTask, Live, LiveStatuses
  <2>3. reason'[t] = "correction_limit_reached" =>
          status'[t] \in {"blocked", "cancelled", "archived"}
    BY <2>1 DEF SameTask, BoardInv, EscalatedIsBlocked, None
  <2> QED
    BY <1>0, <2>1, <2>2, <2>3, ShapeKeepsBoard
<1>3. ASSUME NEW t \in Tasks, ReviewStep(t)
      PROVE  BoardInv'
  <2>1. /\ UNCHANGED <<deps, baseline>> /\ OnlyAbout(t) /\ status[t] = "awaiting_review"
        /\ \/ SameTask(t)
           \/ status'[t] = "blocked"
           \/ status'[t] \in {"changes_requested", "verified"} /\ reason'[t] = None
    BY <1>3, ReviewShape DEF BoardInv
  <2>2. Live(t) /\ Live(t)'
    BY <2>1 DEF SameTask, Live, LiveStatuses
  <2>3. reason'[t] = "correction_limit_reached" =>
          status'[t] \in {"blocked", "cancelled", "archived"}
    BY <2>1 DEF SameTask, BoardInv, EscalatedIsBlocked, None
  <2> QED
    BY <1>0, <2>1, <2>2, <2>3, ShapeKeepsBoard
<1>4. ASSUME UNCHANGED <<status, reason, deps, baseline>>
      PROVE  BoardInv'
  <2>1. GraphIsSound'
    BY <1>0, <1>4, GraphUntouched DEF BoardInv, Live
  <2> QED
    BY <1>0, <1>4, <2>1 DEF BoardInv, AbsentIsBlank, EscalatedIsBlocked
<1>5. CASE ProjectStep
  BY <1>4, <1>5 DEF ProjectStep, RecordTest, DecideBaseline, DecideStage, SetLimit, boardVars
<1>6. CASE UNCHANGED vars
  BY <1>4, <1>6 DEF vars
<1> QED
  BY <1>1, <1>2, <1>3, <1>5, <1>6 DEF Next

LEMMA BoardAlways == Spec => []BoardInv
BY BoardAtStart, BoardStays, PTL DEF Spec

\* However often dependencies are edited, tasks created and deleted, the live
\* tasks form an acyclic graph over live tasks of one baseline.
THEOREM GraphStaysSound == Spec => []GraphIsSound
<1>1. BoardInv => GraphIsSound
  BY DEF BoardInv
<1> QED
  BY <1>1, BoardAlways, PTL

-----------------------------------------------------------------------------
(* The promise.                                                            *)

\* The phase of a task is told by its status, its reason and its counts.
PhaseIs(t) ==
  /\ status[t] = "absent" => Phase(t) = "absent"
  /\ status[t] \in {"cancelled", "archived"} => Phase(t) = "dropped"
  /\ status[t] = "verified" => Phase(t) = "done"
  /\ Busy(t) => Phase(t) = "running"
  /\ Live(t) /\ status[t] \notin {"cancelled", "verified"} /\ ~Busy(t) =>
       /\ Len(results[t]) > rounds[t] => Phase(t) = "submitted"
       /\ ~(Len(results[t]) > rounds[t]) =>
            /\ attempts[t] = <<>> => Phase(t) = "planned"
            /\ attempts[t] # <<>> => Phase(t) = "returned"

PhasesTold == \A t \in Tasks : PhaseIs(t)

LEMMA PhaseTold == BoardInv => PhasesTold
<1> SUFFICES ASSUME BoardInv, NEW t \in Tasks
             PROVE  PhaseIs(t)
  BY DEF PhasesTold
<1>0. TypeOK /\ TaskFits(t) /\ (results[t] # <<>> => attempts[t] # <<>>)
  BY DEF BoardInv, RegisterInv, TypeInv, PrereqInv, ResultsFromAttempts
<1>1. Busy(t) => status[t] \in {"executing", "blocked"} /\ ~(Len(results[t]) > rounds[t])
  BY <1>0 DEF Busy, TaskFits, RegisterFits, RoundsFit, TypeOK
<1>2. Busy(t) <=> OpenAttempts(t) # {}
  BY <1>0, BusyIsOpen
<1>3. Len(results[t]) > rounds[t] => attempts[t] # <<>>
  <2>1. results[t] = <<>> => Len(results[t]) = 0
    OBVIOUS
  <2> QED
    BY <1>0, <2>1 DEF TypeOK
<1>4. status[t] = "absent" => Phase(t) = "absent"
  BY <1>1, <1>2 DEF Phase
<1>5. status[t] \in {"cancelled", "archived"} => Phase(t) = "dropped"
  BY <1>1, <1>2 DEF Phase
<1>6. status[t] = "verified" => Phase(t) = "done"
  BY <1>1, <1>2 DEF Phase
<1>7. Busy(t) => Phase(t) = "running"
  BY <1>1, <1>2, <1>3 DEF Phase
<1>8. Live(t) => status[t] \notin {"absent", "archived"}
  BY DEF Live, LiveStatuses
<1>9. ASSUME Live(t), status[t] \notin {"cancelled", "verified"}, ~Busy(t)
      PROVE  /\ Len(results[t]) > rounds[t] => Phase(t) = "submitted"
             /\ ~(Len(results[t]) > rounds[t]) =>
                  /\ attempts[t] = <<>> => Phase(t) = "planned"
                  /\ attempts[t] # <<>> => Phase(t) = "returned"
  BY <1>2, <1>3, <1>8, <1>9 DEF Phase
<1> QED
  BY <1>4, <1>5, <1>6, <1>7, <1>9 DEF PhaseIs

LEMMA PhaseToldNext == BoardInv' => PhasesTold'
BY PhaseTold, PTL

\* The other tasks keep their phase.
LEMMA OthersKeepPhase ==
  ASSUME BoardInv, BoardInv', NEW u \in Tasks, Dragged(u), attempts'[u] = attempts[u],
         results'[u] = results[u], rounds'[u] = rounds[u]
  PROVE  Phase(u)' = Phase(u)
<1>1. /\ TypeOK /\ TaskFits(u) /\ (results[u] # <<>> => attempts[u] # <<>>)
      /\ TypeOK' /\ TaskFits(u)'
  BY DEF BoardInv, RegisterInv, TypeInv, PrereqInv, ResultsFromAttempts
<1>2. CASE status'[u] = status[u] /\ reason'[u] = reason[u]
  BY <1>2 DEF Phase, OpenAttempts, ActiveAttempts, UnknownAttempts
<1>3. CASE ~(status'[u] = status[u] /\ reason'[u] = reason[u])
  <2>1. /\ status[u] \in {"draft", "ready", "blocked"}
        /\ status'[u] \in {"draft", "blocked"}
        /\ OpenAttempts(u)' = OpenAttempts(u)
    BY <1>3 DEF Dragged, Propagating, OpenAttempts, ActiveAttempts, UnknownAttempts
  <2> QED
    BY <2>1 DEF Phase
<1> QED
  BY <1>2, <1>3

\* A step of the promise that moves one task.
LEMMA OneMoves ==
  ASSUME NEW t \in Tasks, \A u \in Tasks \ {t} : Phase(u)' = Phase(u)
  PROVE  [v \in Tasks |-> Phase(v)]' = [[v \in Tasks |-> Phase(v)] EXCEPT ![t] = Phase(t)']
OBVIOUS

PhaseStep(t) ==
  \/ Promise!Plan(t) \/ Promise!Replan(t) \/ Promise!Start(t) \/ Promise!Stop(t)
  \/ Promise!Submit(t) \/ Promise!Rework(t) \/ Promise!Accept(t) \/ Promise!Drop(t)
  \/ UNCHANGED Promise!vars

LEMMA TaskStepPromise ==
  ASSUME BoardInv, BoardInv', NEW t \in Tasks, TaskStep(t)
  PROVE  PhaseStep(t)
<1>0. /\ TypeOK /\ TypeOK' /\ TaskFits(t) /\ TaskFits(t)'
      /\ (results[t] # <<>> => attempts[t] # <<>>)
      /\ (results'[t] # <<>> => attempts'[t] # <<>>)
  BY DEF BoardInv, RegisterInv, TypeInv, PrereqInv, ResultsFromAttempts
<1>p. /\ \A u \in Tasks : PhaseIs(u)
      /\ PhaseIs(t)'
  BY PhaseTold, PhaseToldNext DEF PhasesTold
<1> DEFINE ph == [v \in Tasks |-> Phase(v)]
<1>a. ASSUME OnlyAbout(t)
      PROVE  ph' = [ph EXCEPT ![t] = Phase(t)']
  <2>1. \A u \in Tasks \ {t} : Phase(u)' = Phase(u)
    BY <1>a, OthersKeepPhase DEF OnlyAbout
  <2> QED
    BY <2>1, OneMoves
<1>e. ASSUME OnlyAbout(t), Phase(t)' = Phase(t)
      PROVE  ph' = ph
  BY <1>a, <1>e
<1>b. ph[t] = Phase(t)
  OBVIOUS
<1>1. ASSUME NEW b \in Baselines, NEW D \in SUBSET Tasks, CreateTask(t, b, D)
      PROVE  Promise!Plan(t)
  <2>1. /\ status[t] = "absent" /\ status' = [status EXCEPT ![t] = "draft"]
        /\ deps' = [deps EXCEPT ![t] = D]
        /\ UNCHANGED <<reason, attempts, results, rounds>>
    BY <1>1 DEF CreateTask, evidenceVars
  <2>2. OnlyAbout(t) /\ status'[t] = "draft"
    BY <1>0, <2>1 DEF OnlyAbout, Dragged, TypeOK
  <2>3. attempts[t] = <<>> /\ results[t] = <<>> /\ ~Busy(t)'
    BY <1>0, <2>1 DEF TaskFits, RoundsFit, RegisterFits, Busy, BoardInv, PrereqInv,
                      NothingBeforeCreation, TypeOK
  <2>4. ~(Len(results'[t]) > rounds'[t])
    <3>1. results'[t] = <<>> /\ Len(<<>>) = 0
      BY <2>1, <2>3
    <3> QED
      BY <1>0, <3>1 DEF TypeOK
  <2>5. Phase(t) = "absent" /\ Phase(t)' = "planned"
    BY <1>p, <2>1, <2>2, <2>3, <2>4 DEF PhaseIs, Live, LiveStatuses
  <2> QED
    BY <1>a, <1>b, <2>1, <2>2, <2>5 DEF Promise!Plan, Promise!SetNeeds
<1>2. ASSUME NEW D \in SUBSET Tasks, EditDependencies(t, D)
      PROVE  Promise!Replan(t)
  <2>1. /\ status[t] \in {"draft", "blocked"} /\ attempts[t] = <<>>
        /\ deps' = [deps EXCEPT ![t] = D]
        /\ UNCHANGED <<status, reason, attempts, results, rounds>>
    BY <1>2 DEF EditDependencies, ScopeEditable, evidenceVars
  <2>2. OnlyAbout(t) /\ Phase(t)' = Phase(t)
    BY <2>1 DEF OnlyAbout, Dragged, Phase, OpenAttempts, ActiveAttempts, UnknownAttempts
  <2>3. Phase(t) = "planned"
    <3>1. results[t] = <<>> /\ Len(<<>>) = 0 /\ OpenAttempts(t) = {}
      BY <1>0, <2>1 DEF OpenAttempts, ActiveAttempts, UnknownAttempts
    <3>2. ~(Len(results[t]) > rounds[t]) /\ ~Busy(t)
      BY <1>0, <3>1, BusyIsOpen DEF TypeOK
    <3> QED
      BY <1>p, <2>1, <3>2 DEF PhaseIs, Live, LiveStatuses
  <2>4. ph' = ph
    BY <1>e, <2>2
  <2> QED
    BY <1>b, <2>1, <2>3, <2>4 DEF Promise!Replan, Promise!SetNeeds
<1>3. ASSUME NEW D \in SUBSET Tasks, NEW to \in UserSettable, SetStatus(t, D, to)
      PROVE  PhaseStep(t)
  <2>1. /\ deps' = [deps EXCEPT ![t] = D] /\ OnlyAbout(t) /\ Live(t)
        /\ UNCHANGED <<baseline, attempts, results, rounds>>
        /\ D # deps[t] => attempts[t] = <<>>
        /\ ~Busy(t) /\ status[t] \notin {"verified", "cancelled"}
        /\ status'[t] = to
        /\ reason'[t] \in {None, "correction_limit_reached"}
    BY <1>3, StatusShape DEF BoardInv
  <2>2. ~Busy(t)'
    BY <2>1 DEF Busy, UserSettable, None
  <2>3. to # "cancelled" => Phase(t)' = Phase(t)
    <3>1. to # "cancelled" => Live(t)' /\ status'[t] \notin {"verified", "cancelled"}
      BY <2>1 DEF Live, LiveStatuses, UserSettable
    <3> QED
      BY <1>p, <2>1, <2>2, <3>1 DEF PhaseIs
  <2>4. to = "cancelled" => Phase(t)' = "dropped"
    BY <1>p, <2>1 DEF PhaseIs
  <2>5. /\ Phase(t) \in {"planned", "submitted", "returned"}
        /\ attempts[t] = <<>> => Phase(t) = "planned"
    <3>1. attempts[t] = <<>> => ~(Len(results[t]) > rounds[t])
      <4>1. attempts[t] = <<>> => results[t] = <<>> /\ Len(<<>>) = 0
        BY <1>0
      <4> QED
        BY <1>0, <4>1 DEF TypeOK
    <3> QED
      BY <1>p, <2>1, <3>1 DEF PhaseIs
  <2>6. \/ ph' = ph
        \/ ph' = [ph EXCEPT ![t] = "dropped"]
    BY <1>a, <1>e, <2>1, <2>3, <2>4
  <2>7. CASE D = deps[t]
    <3>1. UNCHANGED deps
      BY <1>0, <2>1, <2>7 DEF TypeOK
    <3>2. CASE ph' = ph
      BY <3>1, <3>2 DEF PhaseStep, Promise!vars
    <3>3. CASE ph' = [ph EXCEPT ![t] = "dropped"]
      <4>1. Promise!Drop(t)
        BY <1>b, <2>5, <3>1, <3>3 DEF Promise!Drop, Promise!Go
      <4> QED
        BY <4>1 DEF PhaseStep
    <3> QED
      BY <2>6, <3>2, <3>3
  <2>8. CASE D # deps[t]
    <3>1. Promise!Replan(t)
      BY <1>b, <2>1, <2>5, <2>6, <2>8 DEF Promise!Replan, Promise!SetNeeds
    <3> QED
      BY <3>1 DEF PhaseStep
  <2> QED
    BY <2>7, <2>8
<1>4. ASSUME DeleteTask(t)
      PROVE  PhaseStep(t)
  <2>1. /\ Live(t) /\ Settled(t) /\ Dependents(t) = {}
        /\ status' = [status EXCEPT ![t] = "archived"]
        /\ UNCHANGED <<reason, deps, baseline, attempts, results, rounds>>
    BY <1>4 DEF DeleteTask, evidenceVars
  <2>2. /\ status'[t] = "archived" /\ OnlyAbout(t) /\ ~Busy(t)
    BY <1>0, <2>1 DEF TypeOK, OnlyAbout, Dragged, Settled, Busy
  <2>3. Phase(t)' = "dropped"
    BY <1>p, <2>2 DEF PhaseIs
  <2>4. Phase(t) \in {"planned", "submitted", "returned", "done", "dropped"}
    BY <1>p, <2>1, <2>2 DEF PhaseIs
  <2>5. \A u \in Tasks : t \in deps[u] => ph[u] = "dropped"
    <3> SUFFICES ASSUME NEW u \in Tasks, t \in deps[u] PROVE Phase(u) = "dropped"
      OBVIOUS
    <3>1. status[u] = "archived"
      BY <1>0, <2>1 DEF Dependents, Live, BoardInv, AbsentIsBlank, TypeOK, Statuses
    <3> QED
      BY <1>p, <3>1 DEF PhaseIs
  <2>6. CASE Phase(t) = "dropped"
    <3>1. ph' = ph
      BY <1>e, <2>2, <2>3, <2>6
    <3> QED
      BY <2>1, <3>1 DEF PhaseStep, Promise!vars
  <2>7. CASE Phase(t) # "dropped"
    <3>1. ph' = [ph EXCEPT ![t] = "dropped"]
      BY <1>a, <2>2, <2>3
    <3>2. Promise!Drop(t)
      BY <1>b, <2>1, <2>4, <2>5, <2>7, <3>1 DEF Promise!Drop, Promise!Go
    <3> QED
      BY <3>2 DEF PhaseStep
  <2> QED
    BY <2>6, <2>7
<1>5. ASSUME NEW k \in Keys, Reserve(t, k)
      PROVE  Promise!Start(t)
  <2>1. /\ status[t] \in {"ready", "changes_requested"} /\ OpenAttempts(t) = {}
        /\ \A x \in deps[t] : status[x] = "verified"
        /\ attempts' = [attempts EXCEPT ![t] = Append(@, NewAttempt(k))]
        /\ status' = [status EXCEPT ![t] = "executing"]
        /\ reason' = [reason EXCEPT ![t] = None]
        /\ UNCHANGED <<deps, results, rounds>>
    BY <1>5 DEF Reserve, evidenceVars
  <2>2. /\ OnlyAbout(t) /\ status'[t] = "executing"
    BY <1>0, <2>1 DEF OnlyAbout, Dragged, TypeOK
  <2>3. Phase(t)' = "running"
    BY <1>p, <2>2 DEF PhaseIs, Busy
  <2>4. Phase(t) \in {"planned", "returned"}
    <3>1. ~Busy(t)
      BY <1>0, <2>1, BusyIsOpen
    <3>2. ~(Len(results[t]) > rounds[t])
      <4>1. results[t] = <<>> => Len(results[t]) = 0
        OBVIOUS
      <4> QED
        BY <1>0, <2>1, <4>1 DEF TaskFits, RoundsFit, TypeOK
    <3> QED
      BY <1>p, <2>1, <3>1, <3>2 DEF PhaseIs, Live, LiveStatuses
  <2>5. \A x \in deps[t] : ph[x] = "done"
    <3> SUFFICES ASSUME NEW x \in deps[t] PROVE x \in Tasks /\ Phase(x) = "done"
      OBVIOUS
    <3>1. x \in Tasks /\ status[x] = "verified"
      BY <1>0, <2>1 DEF TypeOK
    <3> QED
      BY <1>p, <3>1 DEF PhaseIs
  <2>6. ph' = [ph EXCEPT ![t] = "running"]
    BY <1>a, <2>2, <2>3
  <2> QED
    BY <1>b, <2>1, <2>4, <2>5, <2>6 DEF Promise!Start, Promise!Done, Promise!Go
<1> QED
  BY <1>1, <1>2, <1>3, <1>4, <1>5 DEF TaskStep, PlanStep, PhaseStep

LEMMA AttemptStepPromise ==
  ASSUME BoardInv, BoardInv', NEW t \in Tasks, NEW a \in DOMAIN attempts[t],
         AttemptStep(t, a)
  PROVE  PhaseStep(t)
<1> DEFINE ph == [v \in Tasks |-> Phase(v)]
<1>0. TypeOK /\ TaskFits(t) /\ PhaseIs(t) /\ PhaseIs(t)' /\ ph[t] = Phase(t)
  BY PhaseTold, PhaseToldNext DEF BoardInv, RegisterInv, TypeInv, PhasesTold
<1>1. /\ UNCHANGED deps /\ OnlyAbout(t) /\ Live(t)
      /\ attempts[t] # <<>> /\ attempts'[t] # <<>>
      /\ \/ SameTask(t)
         \/ /\ Busy(t) /\ results'[t] = results[t] /\ rounds'[t] = rounds[t]
            /\ status'[t] \in {"changes_requested", "ready", "blocked"}
         \/ /\ Busy(t) /\ rounds'[t] = rounds[t]
            /\ status'[t] = "awaiting_review" /\ reason'[t] = None
            /\ Len(results'[t]) = Len(results[t]) + 1
  BY AttemptShape DEF BoardInv
<1>2. ph' = [ph EXCEPT ![t] = Phase(t)']
  <2>1. \A u \in Tasks \ {t} : Phase(u)' = Phase(u)
    BY <1>1, OthersKeepPhase DEF OnlyAbout
  <2> QED
    BY <2>1, OneMoves
<1>3. Busy(t) => Phase(t) = "running" /\ Len(results[t]) = rounds[t] /\ rounds[t] \in Nat
  BY <1>0 DEF PhaseIs, Busy, TaskFits, RoundsFit, TypeOK
<1>4. Phase(t)' = Phase(t) => PhaseStep(t)
  <2>1. Phase(t)' = Phase(t) => ph' = ph
    BY <1>2
  <2> QED
    BY <1>1, <2>1 DEF PhaseStep, Promise!vars
<1>5. CASE SameTask(t)
  <2>1. (Live(t)' <=> Live(t)) /\ (Busy(t)' <=> Busy(t))
    BY <1>5 DEF SameTask, Live, Busy
  <2>2. Phase(t)' = Phase(t)
    BY <1>0, <1>1, <1>5, <2>1 DEF PhaseIs, SameTask
  <2> QED
    BY <1>4, <2>2
<1>6. CASE /\ Busy(t) /\ results'[t] = results[t] /\ rounds'[t] = rounds[t]
           /\ status'[t] \in {"changes_requested", "ready", "blocked"}
  <2>1. Live(t)' /\ status'[t] \notin {"cancelled", "verified"}
        /\ ~(Len(results'[t]) > rounds'[t])
    BY <1>3, <1>6 DEF Live, LiveStatuses
  <2>2. Phase(t)' \in {"running", "returned"}
    BY <1>0, <1>1, <2>1 DEF PhaseIs
  <2>3. Phase(t)' = "returned" => Promise!Stop(t)
    BY <1>0, <1>1, <1>2, <1>3, <1>6 DEF Promise!Stop, Promise!Go
  <2> QED
    BY <1>3, <1>4, <1>6, <2>2, <2>3 DEF PhaseStep
<1>7. CASE /\ Busy(t) /\ rounds'[t] = rounds[t]
           /\ status'[t] = "awaiting_review" /\ reason'[t] = None
           /\ Len(results'[t]) = Len(results[t]) + 1
  <2>1. Live(t)' /\ ~Busy(t)' /\ Len(results'[t]) > rounds'[t]
    BY <1>3, <1>7 DEF Live, LiveStatuses, Busy, None
  <2>2. Phase(t)' = "submitted"
    BY <1>0, <1>7, <2>1 DEF PhaseIs
  <2>3. Promise!Submit(t)
    BY <1>0, <1>1, <1>2, <1>3, <1>7, <2>2 DEF Promise!Submit, Promise!Go
  <2> QED
    BY <2>3 DEF PhaseStep
<1> QED
  BY <1>1, <1>5, <1>6, <1>7

LEMMA ReviewStepPromise ==
  ASSUME BoardInv, BoardInv', NEW t \in Tasks, ReviewStep(t)
  PROVE  PhaseStep(t)
<1> DEFINE ph == [v \in Tasks |-> Phase(v)]
<1>0. /\ TypeOK /\ TaskFits(t) /\ TaskFits(t)' /\ (results[t] # <<>> => attempts[t] # <<>>)
      /\ PhaseIs(t) /\ PhaseIs(t)' /\ ph[t] = Phase(t)
  BY PhaseTold, PhaseToldNext
     DEF BoardInv, RegisterInv, TypeInv, PhasesTold, PrereqInv, ResultsFromAttempts
<1>1. /\ UNCHANGED <<deps, attempts, results>> /\ OnlyAbout(t)
      /\ status[t] = "awaiting_review" /\ results[t] # <<>>
      /\ \/ SameTask(t)
         \/ /\ rounds'[t] = rounds[t] + 1
            /\ \/ status'[t] = "blocked" /\ reason'[t] = "correction_limit_reached"
               \/ status'[t] = "changes_requested" /\ reason'[t] = None
         \/ status'[t] = "verified"
  BY ReviewShape DEF BoardInv
<1>2. ph' = [ph EXCEPT ![t] = Phase(t)']
  <2>1. \A u \in Tasks \ {t} : Phase(u)' = Phase(u)
    BY <1>1, OthersKeepPhase DEF OnlyAbout
  <2> QED
    BY <2>1, OneMoves
<1>3. Phase(t) = "submitted" /\ Live(t) /\ ~Busy(t)
      /\ Len(results[t]) = rounds[t] + 1 /\ rounds[t] \in Nat
  <2>1. Live(t) /\ ~Busy(t)
    BY <1>0, <1>1 DEF Live, LiveStatuses, Busy, TaskFits, RegisterFits
  <2>2. Len(results[t]) = rounds[t] + 1 /\ rounds[t] \in Nat
    BY <1>0, <1>1 DEF TaskFits, RoundsFit, TypeOK
  <2> QED
    BY <1>0, <1>1, <2>1, <2>2 DEF PhaseIs
<1>4. CASE SameTask(t)
  <2>1. Live(t)' /\ ~Busy(t)' /\ Len(results'[t]) > rounds'[t]
    BY <1>3, <1>4 DEF SameTask, Live, Busy
  <2>2. Phase(t)' = Phase(t)
    BY <1>0, <1>1, <1>3, <1>4, <2>1 DEF PhaseIs, SameTask
  <2>3. ph' = ph
    BY <1>2, <2>2
  <2> QED
    BY <1>1, <2>3 DEF PhaseStep, Promise!vars
<1>5. CASE /\ rounds'[t] = rounds[t] + 1
           /\ \/ status'[t] = "blocked" /\ reason'[t] = "correction_limit_reached"
              \/ status'[t] = "changes_requested" /\ reason'[t] = None
  <2>1. /\ Live(t)' /\ ~Busy(t)' /\ status'[t] \notin {"cancelled", "verified"}
        /\ ~(Len(results'[t]) > rounds'[t]) /\ attempts'[t] # <<>>
    BY <1>0, <1>1, <1>3, <1>5 DEF Live, LiveStatuses, Busy, None
  <2>2. Phase(t)' = "returned"
    BY <1>0, <2>1 DEF PhaseIs
  <2>3. Promise!Rework(t)
    BY <1>0, <1>1, <1>2, <1>3, <2>2 DEF Promise!Rework, Promise!Go
  <2> QED
    BY <2>3 DEF PhaseStep
<1>6. CASE status'[t] = "verified"
  <2>1. Phase(t)' = "done"
    BY <1>0, <1>6 DEF PhaseIs
  <2>2. Promise!Accept(t)
    BY <1>0, <1>1, <1>2, <1>3, <2>1 DEF Promise!Accept, Promise!Go
  <2> QED
    BY <2>2 DEF PhaseStep
<1> QED
  BY <1>1, <1>4, <1>5, <1>6

LEMMA PromiseAtStart == Init => Promise!Init
<1> SUFFICES ASSUME Init PROVE Promise!Init
  OBVIOUS
<1>1. \A t \in Tasks : Phase(t) = "absent"
  BY DEF Init, Phase
<1> QED
  BY <1>1 DEF Init, Promise!Init

LEMMA PromiseStep ==
  ASSUME BoardInv, BoardInv', [Next]_vars
  PROVE  [Promise!Next]_(Promise!vars)
<1>1. ASSUME NEW t \in Tasks, PhaseStep(t)
      PROVE  [Promise!Next]_(Promise!vars)
  BY <1>1 DEF PhaseStep, Promise!Next
<1>2. ASSUME UNCHANGED <<status, reason, deps, attempts, results, rounds>>
      PROVE  UNCHANGED Promise!vars
  <2>1. \A t \in Tasks : Phase(t)' = Phase(t)
    BY <1>2 DEF Phase, OpenAttempts, ActiveAttempts, UnknownAttempts
  <2> QED
    BY <1>2, <2>1 DEF Promise!vars
<1>3. CASE ProjectStep
  BY <1>2, <1>3 DEF ProjectStep, RecordTest, DecideBaseline, DecideStage, SetLimit,
                    boardVars, evidenceVars
<1>4. CASE UNCHANGED vars
  BY <1>2, <1>4 DEF vars
<1> QED
  BY <1>1, <1>3, <1>4, TaskStepPromise, AttemptStepPromise, ReviewStepPromise DEF Next

\* The board implements its abstract specification: work starts only on done
\* work, a task has one run at a time, each result is judged before the next
\* run, and what is done stays done while anything needs it.
THEOREM BoardKeepsPromise == Spec => KeepsPromise
<1> USE DEF KeepsPromise
<1> QED
  BY BoardAlways, PromiseAtStart, PromiseStep, PTL DEF Spec, Promise!Spec

-----------------------------------------------------------------------------
(* What a step may never do.                                               *)

\* Verified, cancelled and archived tasks are out of reach of propagation,
\* late results, reconciliations and reviews.
LEMMA DoneStays ==
  ASSUME BoardInv, BoardInv', [Next]_vars, NEW t \in Tasks,
         status[t] \in {"verified", "cancelled", "archived"}
  PROVE  /\ status'[t] \in {status[t], "archived"}
         /\ reason'[t] = reason[t] /\ deps'[t] = deps[t]
         /\ results'[t] = results[t] /\ rounds'[t] = rounds[t]
         /\ OpenAttempts(t)' = {}
<1>0. TypeOK /\ TaskFits(t) /\ TaskFits(t)' /\ ~Busy(t)
  <2>1. TypeOK /\ TaskFits(t) /\ TaskFits(t)'
    BY DEF BoardInv, RegisterInv, TypeInv
  <2> QED
    BY <2>1 DEF TaskFits, RegisterFits, Busy
<1>1. ASSUME status'[t] \in {status[t], "archived"}, reason'[t] = reason[t]
      PROVE  OpenAttempts(t)' = {}
  BY <1>0, <1>1 DEF TaskFits, RegisterFits, OpenAttempts
<1>2. ASSUME NEW u \in Tasks \ {t}, OnlyAbout(u), deps'[t] = deps[t]
      PROVE  /\ status'[t] = status[t] /\ reason'[t] = reason[t] /\ deps'[t] = deps[t]
             /\ results'[t] = results[t] /\ rounds'[t] = rounds[t]
  BY <1>2 DEF OnlyAbout, Dragged, Propagating
<1>3. ASSUME NEW u \in Tasks, TaskStep(u)
      PROVE  /\ status'[t] \in {status[t], "archived"}
             /\ reason'[t] = reason[t] /\ deps'[t] = deps[t]
             /\ results'[t] = results[t] /\ rounds'[t] = rounds[t]
  <2>1. ASSUME NEW b \in Baselines, NEW D \in SUBSET Tasks, CreateTask(u, b, D)
        PROVE  status'[t] = status[t] /\ UNCHANGED <<reason, results, rounds>>
               /\ deps'[t] = deps[t]
    BY <1>0, <2>1 DEF CreateTask, evidenceVars, TypeOK
  <2>2. ASSUME NEW D \in SUBSET Tasks, EditDependencies(u, D)
        PROVE  UNCHANGED <<status, reason, results, rounds>> /\ deps'[t] = deps[t]
    BY <1>0, <2>2 DEF EditDependencies, ScopeEditable, evidenceVars, TypeOK
  <2>3. ASSUME NEW D \in SUBSET Tasks, NEW to \in UserSettable, SetStatus(u, D, to)
        PROVE  u # t /\ OnlyAbout(u) /\ deps'[t] = deps[t]
    <3>1. /\ deps' = [deps EXCEPT ![u] = D] /\ OnlyAbout(u) /\ Live(u)
          /\ status[u] \notin {"verified", "cancelled"}
      BY <2>3, StatusShape DEF BoardInv
    <3>2. u # t
      BY <3>1 DEF Live, LiveStatuses
    <3> QED
      BY <1>0, <3>1, <3>2 DEF TypeOK
  <2>4. ASSUME DeleteTask(u)
        PROVE  status'[t] \in {status[t], "archived"}
               /\ UNCHANGED <<reason, deps, results, rounds>>
    BY <1>0, <2>4 DEF DeleteTask, evidenceVars, TypeOK
  <2>5. ASSUME NEW k \in Keys, Reserve(u, k)
        PROVE  status'[t] = status[t] /\ reason'[t] = reason[t]
               /\ UNCHANGED <<deps, results, rounds>>
    BY <1>0, <2>5 DEF Reserve, evidenceVars, TypeOK
  <2> QED
    BY <1>2, <1>3, <2>1, <2>2, <2>3, <2>4, <2>5 DEF TaskStep, PlanStep
<1>4. ASSUME NEW u \in Tasks, NEW a \in DOMAIN attempts[u], AttemptStep(u, a)
      PROVE  /\ status'[t] = status[t] /\ reason'[t] = reason[t] /\ deps'[t] = deps[t]
             /\ results'[t] = results[t] /\ rounds'[t] = rounds[t]
  <2>1. UNCHANGED deps /\ OnlyAbout(u) /\ (SameTask(u) \/ Busy(u))
    BY <1>4, AttemptShape DEF BoardInv
  <2> QED
    BY <1>0, <1>2, <2>1 DEF SameTask
<1>5. ASSUME NEW u \in Tasks, ReviewStep(u)
      PROVE  /\ status'[t] = status[t] /\ reason'[t] = reason[t] /\ deps'[t] = deps[t]
             /\ results'[t] = results[t] /\ rounds'[t] = rounds[t]
  <2>1. UNCHANGED deps /\ OnlyAbout(u) /\ status[u] = "awaiting_review"
    BY <1>5, ReviewShape DEF BoardInv
  <2> QED
    BY <1>2, <2>1
<1>6. CASE ProjectStep \/ UNCHANGED vars
  <2>1. UNCHANGED <<status, reason, deps, results, rounds>>
    BY <1>6 DEF ProjectStep, RecordTest, DecideBaseline, DecideStage, SetLimit,
                boardVars, evidenceVars, vars
  <2> QED
    BY <1>1, <2>1
<1> QED
  BY <1>1, <1>3, <1>4, <1>5, <1>6 DEF Next

\* What is finished stays finished, for any board.
THEOREM FinishedStays == Spec => DoneIsForever
<1>1. BoardInv /\ BoardInv' /\ [Next]_vars =>
        [\A t \in Tasks : status[t] \in {"verified", "cancelled", "archived"} =>
           /\ status'[t] \in {status[t], "archived"}
           /\ reason'[t] = reason[t] /\ deps'[t] = deps[t]
           /\ results'[t] = results[t] /\ rounds'[t] = rounds[t]
           /\ OpenAttempts(t)' = {}]_vars
  BY DoneStays
<1> QED
  BY <1>1, BoardAlways, PTL DEF Spec, DoneIsForever

\* Seen from one task, a step is about it, or drags it along at most.
LEMMA StepOfTask ==
  ASSUME BoardInv, [Next]_vars, NEW t \in Tasks
  PROVE  \/ /\ Dragged(t) /\ attempts'[t] = attempts[t]
            /\ results'[t] = results[t] /\ rounds'[t] = rounds[t]
         \/ status[t] = "absent" /\ status'[t] = "draft"
         \/ \E D \in SUBSET Tasks, to \in UserSettable : SetStatus(t, D, to)
         \/ status'[t] = "archived" /\ UNCHANGED <<reason, attempts>>
         \/ \E k \in Keys : Reserve(t, k)
         \/ \E a \in DOMAIN attempts[t] : AttemptStep(t, a)
         \/ ReviewStep(t)
<1> DEFINE Still == /\ Dragged(t) /\ attempts'[t] = attempts[t]
                    /\ results'[t] = results[t] /\ rounds'[t] = rounds[t]
<1>0. TypeOK
  BY DEF BoardInv, RegisterInv, TypeInv
<1>1. ASSUME NEW u \in Tasks \ {t}, OnlyAbout(u) PROVE Still
  BY <1>1 DEF OnlyAbout
<1>2. ASSUME NEW u \in Tasks, NEW b \in Baselines, NEW D \in SUBSET Tasks,
             CreateTask(u, b, D)
      PROVE  Still \/ (status[t] = "absent" /\ status'[t] = "draft")
  BY <1>0, <1>2 DEF CreateTask, evidenceVars, TypeOK, Dragged
<1>3. ASSUME NEW u \in Tasks, NEW D \in SUBSET Tasks, EditDependencies(u, D)
      PROVE  Still
  BY <1>3 DEF EditDependencies, evidenceVars, Dragged
<1>4. ASSUME NEW u \in Tasks, NEW D \in SUBSET Tasks, NEW to \in UserSettable,
             SetStatus(u, D, to), u # t
      PROVE  Still
  BY <1>1, <1>4, StatusShape DEF BoardInv
<1>5. ASSUME NEW u \in Tasks, DeleteTask(u)
      PROVE  Still \/ (status'[t] = "archived" /\ UNCHANGED <<reason, attempts>>)
  BY <1>0, <1>5 DEF DeleteTask, evidenceVars, TypeOK, Dragged
<1>6. ASSUME NEW u \in Tasks, NEW k \in Keys, Reserve(u, k), u # t
      PROVE  Still
  BY <1>0, <1>6 DEF Reserve, evidenceVars, TypeOK, Dragged
<1>7. ASSUME NEW u \in Tasks, NEW a \in DOMAIN attempts[u], AttemptStep(u, a), u # t
      PROVE  Still
  BY <1>1, <1>7, AttemptShape DEF BoardInv
<1>8. ASSUME NEW u \in Tasks, ReviewStep(u), u # t
      PROVE  Still
  BY <1>1, <1>8, ReviewShape DEF BoardInv
<1>9. ASSUME ProjectStep \/ UNCHANGED vars PROVE Still
  BY <1>9 DEF ProjectStep, RecordTest, DecideBaseline, DecideStage, SetLimit,
              boardVars, evidenceVars, vars, Dragged
<1>10. ASSUME NEW u \in Tasks, TaskStep(u)
       PROVE  \/ Still
              \/ status[t] = "absent" /\ status'[t] = "draft"
              \/ \E D \in SUBSET Tasks, to \in UserSettable : SetStatus(t, D, to)
              \/ status'[t] = "archived" /\ UNCHANGED <<reason, attempts>>
              \/ \E k \in Keys : Reserve(t, k)
  <2> HIDE DEF Still
  <2> QED
    BY <1>2, <1>3, <1>4, <1>5, <1>6, <1>10 DEF TaskStep, PlanStep
<1> HIDE DEF Still
<1> DEFINE About ==
             \/ Still
             \/ status[t] = "absent" /\ status'[t] = "draft"
             \/ \E D \in SUBSET Tasks, to \in UserSettable : SetStatus(t, D, to)
             \/ status'[t] = "archived" /\ UNCHANGED <<reason, attempts>>
             \/ \E k \in Keys : Reserve(t, k)
             \/ \E a \in DOMAIN attempts[t] : AttemptStep(t, a)
             \/ ReviewStep(t)
<1>11. ASSUME NEW u \in Tasks, TaskStep(u) PROVE About
  BY <1>10, <1>11
<1>12. ASSUME NEW u \in Tasks, NEW a \in DOMAIN attempts[u], AttemptStep(u, a)
       PROVE  About
  BY <1>7, <1>12
<1>13. ASSUME NEW u \in Tasks, ReviewStep(u) PROVE About
  BY <1>8, <1>13
<1>14. ProjectStep \/ UNCHANGED vars => About
  BY <1>9
<1>15. About
  <2> HIDE DEF About
  <2> QED
    BY <1>11, <1>12, <1>13, <1>14 DEF Next
<1> QED
  BY <1>15 DEF Still

LEMMA GateAsked ==
  ASSUME BoardInv, [Next]_vars, NEW t \in Tasks
  PROVE  /\ status[t] # "ready" /\ status'[t] = "ready" =>
              ReadyGate(t) /\ BlockedAncestors(t, deps') = {}
         /\ status[t] # "executing" /\ status'[t] = "executing" => ReadyGate(t)
<1>0. TypeOK
  BY DEF BoardInv, RegisterInv, TypeInv
<1>1. CASE Dragged(t)
  BY <1>1 DEF Dragged
<1>2. ASSUME NEW D \in SUBSET Tasks, NEW to \in UserSettable, SetStatus(t, D, to)
      PROVE  /\ status'[t] # "executing"
             /\ status'[t] = "ready" => ReadyGate(t) /\ BlockedAncestors(t, deps') = {}
  BY <1>2, StatusShape DEF BoardInv, UserSettable
<1>3. ASSUME NEW k \in Keys, Reserve(t, k)
      PROVE  status'[t] = "executing" /\ ReadyGate(t)
  BY <1>0, <1>3 DEF Reserve, TypeOK
<1>4. ASSUME NEW a \in DOMAIN attempts[t], AttemptStep(t, a)
      PROVE  \/ status'[t] = status[t]
             \/ /\ status'[t] # "executing"
                /\ status'[t] = "ready" => ReadyGate(t) /\ BlockedAncestors(t, deps') = {}
  <2>1. \/ SameTask(t)
        \/ /\ status'[t] \in {"changes_requested", "ready", "blocked"}
           /\ status'[t] = "ready" => ReadyGate(t) /\ BlockedAncestors(t, deps) = {}
        \/ status'[t] = "awaiting_review"
    BY <1>4, AttemptShape DEF BoardInv
  <2>2. deps' = deps
    BY <1>4, AttemptShape DEF BoardInv
  <2>3. BlockedAncestors(t, deps') = BlockedAncestors(t, deps)
    BY <2>2
  <2> QED
    BY <2>1, <2>3 DEF SameTask
<1>5. ASSUME ReviewStep(t)
      PROVE  status'[t] \in {status[t], "blocked", "changes_requested", "verified"}
  BY <1>5, ReviewShape DEF BoardInv, SameTask
<1> QED
  BY <1>1, <1>2, <1>3, <1>4, <1>5, StepOfTask

\* Work becomes ready, and starts, only through the gate as it stands then;
\* when a request changes the dependencies too, the new ones count.
THEOREM GateIsAlwaysAsked == Spec => EntersWorkThroughGate
<1>1. BoardInv /\ [Next]_vars =>
        [\A t \in Tasks :
           /\ status[t] # "ready" /\ status'[t] = "ready" =>
                ReadyGate(t) /\ BlockedAncestors(t, deps') = {}
           /\ status[t] # "executing" /\ status'[t] = "executing" => ReadyGate(t)]_vars
  BY GateAsked
<1> QED
  BY <1>1, BoardAlways, PTL DEF Spec, EntersWorkThroughGate

LEMMA EscalatedStays ==
  ASSUME BoardInv, [Next]_vars, NEW t \in Tasks, reason[t] = "correction_limit_reached"
  PROVE  /\ reason'[t] = reason[t]
         /\ status'[t] \in {"blocked", "cancelled", "archived"}
         /\ attempts'[t] = attempts[t] \/ Len(attempts'[t]) = Len(attempts[t])
<1>0. status[t] \in {"blocked", "cancelled", "archived"} /\ ~Busy(t)
  BY DEF BoardInv, EscalatedIsBlocked, Busy
<1>1. CASE Dragged(t) /\ attempts'[t] = attempts[t]
  BY <1>0, <1>1 DEF Dragged, Propagating
<1>2. ASSUME NEW D \in SUBSET Tasks, NEW to \in UserSettable, SetStatus(t, D, to)
      PROVE  reason'[t] = reason[t] /\ status'[t] = "cancelled" /\ attempts' = attempts
  BY <1>2, StatusShape DEF BoardInv
<1>3. ASSUME NEW k \in Keys, Reserve(t, k)
      PROVE  FALSE
  BY <1>0, <1>3 DEF Reserve
<1>4. ASSUME NEW a \in DOMAIN attempts[t], AttemptStep(t, a)
      PROVE  /\ reason'[t] = reason[t] /\ status'[t] = status[t]
             /\ Len(attempts'[t]) = Len(attempts[t])
  BY <1>0, <1>4, AttemptShape DEF BoardInv, SameTask
<1>5. ~ReviewStep(t)
  BY <1>0, ReviewShape DEF BoardInv
<1> QED
  BY <1>0, <1>1, <1>2, <1>3, <1>4, <1>5, StepOfTask

\* A task that ran out of rounds is never started again, and keeps the reason.
THEOREM EscalationStays == Spec => EscalationIsFinal
<1>1. BoardInv /\ [Next]_vars =>
        [\A t \in Tasks : reason[t] = "correction_limit_reached" =>
           /\ reason'[t] = reason[t]
           /\ status'[t] \in {"blocked", "cancelled", "archived"}
           /\ attempts'[t] = attempts[t] \/ Len(attempts'[t]) = Len(attempts[t])]_vars
  BY EscalatedStays
<1> QED
  BY <1>1, BoardAlways, PTL DEF Spec, EscalationIsFinal

\* Only a review takes a task out of review into correction or approval.
LEMMA ReviewDecides ==
  ASSUME BoardInv, [Next]_vars, NEW t \in Tasks
  PROVE  /\ status[t] = "awaiting_review" /\ status'[t] = "changes_requested" =>
              rounds'[t] <= limit
         /\ status[t] # "verified" /\ status'[t] = "verified" =>
              Proven(t, LatestResult(t).revision)
<1>0. TypeOK /\ limit \in Nat /\ rounds[t] \in Nat
  BY ConstantsAssumption DEF BoardInv, RegisterInv, TypeInv, TypeOK
<1>1. CASE Dragged(t)
  BY <1>1 DEF Dragged
<1>2. ASSUME NEW D \in SUBSET Tasks, NEW to \in UserSettable, SetStatus(t, D, to)
      PROVE  status'[t] \notin {"changes_requested", "verified"}
  BY <1>2, StatusShape DEF BoardInv, UserSettable
<1>3. ASSUME NEW k \in Keys, Reserve(t, k)
      PROVE  status'[t] = "executing"
  BY <1>0, <1>3 DEF Reserve, TypeOK
<1>4. ASSUME NEW a \in DOMAIN attempts[t], AttemptStep(t, a)
      PROVE  \/ status'[t] = status[t]
             \/ Busy(t) /\ status'[t] # "verified"
  BY <1>4, AttemptShape DEF BoardInv, SameTask
<1>5. status[t] = "awaiting_review" => ~Busy(t)
  BY DEF BoardInv, RegisterInv, TaskFits, RegisterFits, Busy
<1>6. ASSUME ReviewStep(t)
      PROVE  \/ status'[t] = status[t]
             \/ status'[t] = "blocked"
             \/ /\ status'[t] = "changes_requested"
                /\ rounds'[t] = rounds[t] + 1 /\ rounds[t] < limit
             \/ status'[t] = "verified" /\ Proven(t, LatestResult(t).revision)
  BY <1>6, ReviewShape DEF BoardInv, SameTask
<1> QED
  BY <1>0, <1>1, <1>2, <1>3, <1>4, <1>5, <1>6, StepOfTask

\* A review returns a task only while the budget lets an attempt start.
THEOREM ReturnedCanRestart == Spec => ReturnedWorkCanRestart
<1>1. BoardInv /\ [Next]_vars =>
        [\A t \in Tasks :
           status[t] = "awaiting_review" /\ status'[t] = "changes_requested" =>
             rounds'[t] <= limit]_vars
  BY ReviewDecides
<1> QED
  BY <1>1, BoardAlways, PTL DEF Spec, ReturnedWorkCanRestart

\* A task is verified on the tests and the manual check of its newest result.
THEOREM VerifiedOnProof == Spec => VerifiedOnNewestResult
<1>1. BoardInv /\ [Next]_vars =>
        [\A t \in Tasks : status[t] # "verified" /\ status'[t] = "verified" =>
           LET r == results[t][Len(results[t])].revision
               onResult == {c \in checks : /\ c.subject \in {t, None}
                                           /\ c.baseline = baseline[t]
                                           /\ c.revision = r}
           IN /\ \E c \in onResult : c.passed
              /\ \A c \in onResult : c.passed
              /\ t \in ManualTasks => manual[t][r] = "approved"]_vars
  BY ReviewDecides DEF Proven, LatestResult, CountedChecks
<1> QED
  BY <1>1, BoardAlways, PTL DEF Spec, VerifiedOnNewestResult

-----------------------------------------------------------------------------
(* Blocks and releases spread over the graph as it is after the step.      *)

\* What a step about t does to the tasks that hang on it.
Spreads(t) ==
  /\ status[t] # "blocked" /\ status'[t] = "blocked" =>
       \A u \in Blocks(t, deps') : status'[u] = "blocked"
  /\ \A u \in Tasks \ {t} :
       /\ Dragged(u)
       /\ status[u] # "blocked" /\ status'[u] = "blocked" =>
            /\ status[t] # "blocked" /\ status'[t] = "blocked"
            /\ u \in DescendantsOf(t, deps')
       /\ status[u] = "blocked" /\ status'[u] = "draft" =>
            status'[t] # "blocked" /\ u \in Frees(t, deps')
  /\ status[t] = "blocked" /\ status'[t] = "draft" => BlockedAncestors(t, deps') = {}

\* A step that blocks nobody and frees nobody.
Calm ==
  \A u \in Tasks : /\ status'[u] = "blocked" => status[u] = "blocked"
                   /\ status'[u] = "draft" => status[u] # "blocked"

LEMMA MoveSpreads ==
  ASSUME TypeOK, NEW t \in Tasks, NEW to, NEW why, NEW targets, "blocked" \notin targets,
         NEW held, NEW freed, Move(t, to, why, held, freed),
         held = HeldBy(t, to, deps') \/ (held = {} /\ to # "blocked"),
         \/ freed = FreedBy(t, targets, to, deps')
         \/ freed = Frees(t, deps') /\ to # "blocked"
         \/ freed = {},
         status[t] = "blocked" /\ to = "draft" => BlockedAncestors(t, deps') = {}
  PROVE  Spreads(t)
<1>1. /\ status'[t] = to
      /\ held \subseteq Blocks(t, deps') /\ freed \subseteq Frees(t, deps')
      /\ held # {} => status[t] # "blocked" /\ to = "blocked"
      /\ freed # {} => to # "blocked"
      /\ status[t] # "blocked" /\ to = "blocked" => held = Blocks(t, deps')
  BY DEF Move, HeldBy, FreedBy
<1>2. \A u \in Tasks \ {t} :
        \/ u \in held /\ status'[u] = "blocked" /\ reason'[u] = "dependency_blocked"
        \/ u \in freed \ held /\ status'[u] = "draft" /\ reason'[u] = None
        \/ status'[u] = status[u] /\ reason'[u] = reason[u]
  BY DEF Move
<1>3. \A u \in Blocks(t, deps') : u \in DescendantsOf(t, deps') /\ u \in Tasks \ {t}
                                  /\ status[u] \in Propagating
  BY DEF Blocks, DescendantsOf
<1>4. \A u \in Frees(t, deps') : status[u] = "blocked" /\ reason[u] = "dependency_blocked"
  BY DEF Frees
<1>5. \A u \in Tasks \ {t} : Dragged(u)
  BY <1>1, <1>2, <1>3, <1>4 DEF Dragged
<1>6. status[t] # "blocked" /\ to = "blocked" =>
        \A u \in Blocks(t, deps') : status'[u] = "blocked"
  BY <1>1, <1>3 DEF Move
<1>7. ASSUME NEW u \in Tasks \ {t}
      PROVE  /\ status[u] # "blocked" /\ status'[u] = "blocked" =>
                  /\ status[t] # "blocked" /\ status'[t] = "blocked"
                  /\ u \in DescendantsOf(t, deps')
             /\ status[u] = "blocked" /\ status'[u] = "draft" =>
                  status'[t] # "blocked" /\ u \in Frees(t, deps')
  BY <1>1, <1>2, <1>3
<1> QED
  BY <1>1, <1>5, <1>6, <1>7 DEF Spreads

\* Every step is calm, or spreads from the task it is about.
LEMMA StepSpreads ==
  ASSUME BoardInv, [Next]_vars
  PROVE  Calm \/ \E t \in Tasks : Spreads(t)
<1>0. TypeOK
  BY DEF BoardInv, RegisterInv, TypeInv
<1>1. ASSUME NEW t \in Tasks, TaskStep(t)
      PROVE  Calm \/ Spreads(t)
  <2>1. ASSUME NEW b \in Baselines, NEW D \in SUBSET Tasks, CreateTask(t, b, D)
        PROVE  Calm
    BY <1>0, <2>1 DEF CreateTask, TypeOK, Calm
  <2>2. ASSUME NEW D \in SUBSET Tasks, EditDependencies(t, D)
        PROVE  Calm
    BY <2>2 DEF EditDependencies, Calm
  <2>3. ASSUME NEW D \in SUBSET Tasks, NEW to \in UserSettable, SetStatus(t, D, to)
        PROVE  Spreads(t)
    <3> DEFINE why == IF reason[t] \in SystemOwned THEN reason[t] ELSE None
    <3>1. /\ Move(t, to, why, HeldBy(t, to, deps'), FreedBy(t, {"draft", "ready"}, to, deps'))
          /\ status[t] = "blocked" /\ to = "draft" => BlockedAncestors(t, deps') = {}
      BY <2>3 DEF SetStatus, ReopenAllowed
    <3> HIDE DEF why
    <3> QED
      BY <1>0, <3>1, MoveSpreads
  <2>4. ASSUME DeleteTask(t)
        PROVE  Calm
    BY <1>0, <2>4 DEF DeleteTask, TypeOK, Calm
  <2>5. ASSUME NEW k \in Keys, Reserve(t, k)
        PROVE  Calm
    BY <1>0, <2>5 DEF Reserve, TypeOK, Calm
  <2> QED
    BY <1>1, <2>1, <2>2, <2>3, <2>4, <2>5 DEF TaskStep, PlanStep
<1>2. ASSUME NEW t \in Tasks, NEW a \in DOMAIN attempts[t], AttemptStep(t, a)
      PROVE  Calm \/ Spreads(t)
  <2>1. ASSUME NEW res \in {"not_started", "stopped"}, ReconcileReleased(t, a, res)
        PROVE  Spreads(t)
    <3> DEFINE to  == ReleaseTarget(t, a)
               why == IF ~CorrectionRound(t, a) /\ BlockedAncestors(t, deps) # {}
                        THEN "dependency_blocked" ELSE None
    <3>1. deps' = deps /\ Move(t, to, why, HeldBy(t, to, deps),
                               FreedBy(t, LiveStatuses \ {"blocked"}, to, deps))
      BY <2>1 DEF ReconcileReleased
    <3>2. to # "draft"
      BY DEF ReleaseTarget
    <3> HIDE DEF to, why
    <3>3. Move(t, to, why, HeldBy(t, to, deps'),
               FreedBy(t, LiveStatuses \ {"blocked"}, to, deps'))
      BY <3>1
    <3> QED
      BY <1>0, <3>2, <3>3, MoveSpreads
  <2>2. ASSUME ReconcileUnknown(t, a)
        PROVE  Spreads(t)
    <3>1. Move(t, "blocked", "reconciliation_required", HeldBy(t, "blocked", deps'), {})
      BY <2>2 DEF ReconcileUnknown
    <3> QED
      BY <1>0, <3>1, MoveSpreads
  <2>3. ASSUME NEW r \in Revisions, NEW o \in Reports, AcceptResult(t, a, r, o)
        PROVE  Spreads(t)
    <3>1. Move(t, "awaiting_review", None, {}, {})
      BY <2>3 DEF AcceptResult
    <3> QED
      BY <1>0, <3>1, MoveSpreads
  <2>4. ASSUME NEW r \in Revisions, NEW o \in Reports, ReconcileCompleted(t, a, r, o)
        PROVE  Spreads(t)
    <3>1. Move(t, "awaiting_review", None, {},
               FreedBy(t, LiveStatuses \ {"blocked"}, "awaiting_review", deps'))
      BY <2>4 DEF ReconcileCompleted
    <3> QED
      BY <1>0, <3>1, MoveSpreads
  <2>5. ASSUME InternalStep(t, a) \/ Cancel(t, a)
        PROVE  Calm
    BY <2>5 DEF InternalStep, Claim, LinkWorkflow, MarkDelivered, Cancel, boardVars, Calm
  <2> QED
    BY <1>2, <2>1, <2>2, <2>3, <2>4, <2>5 DEF AttemptStep, OperatorStep, ResultStep
<1>3. ASSUME NEW t \in Tasks, ReviewStep(t)
      PROVE  Calm \/ Spreads(t)
  <2>1. ASSUME NEW v \in {"approved", "changes_requested"}, ReviewManualCheck(t, v)
        PROVE  Calm
    BY <2>1 DEF ReviewManualCheck, boardVars, Calm
  <2>2. ASSUME RequestChanges(t)
        PROVE  Spreads(t)
    <3> DEFINE to  == IF Exhausted(t) THEN "blocked" ELSE "changes_requested"
               why == IF Exhausted(t) THEN "correction_limit_reached" ELSE None
    <3>1. Move(t, to, why, HeldBy(t, to, deps'), {}) /\ to # "draft"
      BY <2>2 DEF RequestChanges
    <3> HIDE DEF to, why
    <3> QED
      BY <1>0, <3>1, MoveSpreads
  <2>3. ASSUME Approve(t)
        PROVE  Spreads(t)
    <3>1. Move(t, "verified", None, {}, Frees(t, deps'))
      BY <2>3 DEF Approve
    <3> QED
      BY <1>0, <3>1, MoveSpreads
  <2> QED
    BY <1>3, <2>1, <2>2, <2>3 DEF ReviewStep
<1>4. CASE ProjectStep \/ UNCHANGED vars
  BY <1>4 DEF ProjectStep, RecordTest, DecideBaseline, DecideStage, SetLimit, boardVars,
              vars, Calm
<1> QED
  BY <1>1, <1>2, <1>3, <1>4 DEF Next

\* Whoever hangs on a task that hangs on t hangs on t.
LEMMA DescendantsReach ==
  ASSUME NEW d \in [Tasks -> SUBSET Tasks], NEW t \in Tasks, NEW v \in Tasks, NEW u \in Tasks,
         t \in Reachable(v, d), v \in Reachable(u, d)
  PROVE  t \in Reachable(u, d)
<1>1. d[v] \subseteq Reachable(u, d) /\ Reachable(u, d) \in SUBSET Tasks
  BY ReachableIsClosed
<1>2. Reachable(v, d) \subseteq Reachable(u, d)
  BY <1>1, ReachableIsClosed, ReachableIsLeast
<1> QED
  BY <1>2

LEMMA BlockSpreads ==
  ASSUME BoardInv, BoardInv', [Next]_vars, NEW t \in Tasks,
         status[t] # "blocked", status'[t] = "blocked",
         NEW u \in Tasks, t \in AncestorsOf(u, deps')
  PROVE  status'[u] \notin {"draft", "ready"}
<1>1. PICK s \in Tasks : Spreads(s)
  BY StepSpreads DEF Calm
<1>2. deps' \in [Tasks -> SUBSET Tasks]
  BY DEF BoardInv, RegisterInv, TypeInv, TypeOK
<1>3. u # t /\ t \in Reachable(u, deps')
  BY DEF AncestorsOf
<1>4. status'[s] = "blocked"
  BY <1>1 DEF Spreads
<1>5. u = s \/ u \in DescendantsOf(s, deps')
  <2>1. t # s => s \in Reachable(t, deps')
    BY <1>1 DEF Spreads, DescendantsOf
  <2>2. s \in Reachable(u, deps')
    BY <1>2, <1>3, <2>1, DescendantsReach
  <2> QED
    BY <2>2 DEF DescendantsOf
<1>6. CASE u = s
  BY <1>4, <1>6
<1>7. CASE u \in DescendantsOf(s, deps') /\ u # s
  <2>1. status[s] # "blocked"
    BY <1>1, <1>4 DEF Spreads
  <2> QED
    BY <1>1, <1>4, <1>7, <2>1 DEF Spreads, Blocks, Dragged, Propagating
<1> QED
  BY <1>5, <1>6, <1>7

\* A block reaches every task that hangs on the blocked one, at any distance.
THEOREM BlocksReachAll == Spec => BlockReachesAll
<1>1. BoardInv /\ BoardInv' /\ [Next]_vars =>
        [\A t \in Tasks : status[t] # "blocked" /\ status'[t] = "blocked" =>
           \A u \in Tasks : t \in AncestorsOf(u, deps') =>
             status'[u] \notin {"draft", "ready"}]_vars
  BY BlockSpreads
<1> QED
  BY <1>1, BoardAlways, PTL DEF Spec, BlockReachesAll

LEMMA FreeSpreads ==
  ASSUME BoardInv, [Next]_vars, NEW u \in Tasks, status[u] = "blocked", status'[u] = "draft",
         NEW x \in AncestorsOf(u, deps')
  PROVE  ~RootBlocked(x)'
<1>1. PICK s \in Tasks : Spreads(s)
  BY StepSpreads DEF Calm
<1>2. x \in Tasks /\ x # u
  BY DEF AncestorsOf, Reachable
<1>3. CASE u = s
  <2>1. status[x] # "blocked"
    BY <1>1, <1>2, <1>3 DEF Spreads, BlockedAncestors
  <2>2. status'[x] # "blocked"
    BY <1>1, <1>2, <1>3, <2>1 DEF Spreads
  <2> QED
    BY <2>2 DEF RootBlocked
<1>4. CASE u # s
  <2>1. status'[s] # "blocked" /\ u \in Frees(s, deps')
    BY <1>1, <1>4 DEF Spreads
  <2>2. CASE x = s
    BY <2>1, <2>2 DEF RootBlocked
  <2>3. CASE x # s
    <3>1. ~RootBlocked(x) /\ Dragged(x)
      BY <1>1, <1>2, <2>1, <2>3 DEF Spreads, Frees
    <3> QED
      BY <3>1 DEF RootBlocked, Dragged
  <2> QED
    BY <2>2, <2>3
<1> QED
  BY <1>3, <1>4

\* Nothing is freed that another task still blocks.
THEOREM FreedAreFree == Spec => FreedIsFree
<1>1. BoardInv /\ [Next]_vars =>
        [\A u \in Tasks : status[u] = "blocked" /\ status'[u] = "draft" =>
           \A x \in AncestorsOf(u, deps') : ~RootBlocked(x)']_vars
  BY FreeSpreads
<1> QED
  BY <1>1, BoardAlways, PTL DEF Spec, FreedIsFree
=============================================================================
