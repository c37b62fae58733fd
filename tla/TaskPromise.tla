----------------------------- MODULE TaskPromise -----------------------------
(***************************************************************************)
(* What the task board of Delivery OS promises to a project, without       *)
(* attempts, reasons, evidence and gates: work starts only on finished     *)
(* work, one run of a task at a time, every result is judged before the    *)
(* next run, and what is done stays done while anything needs it.          *)
(***************************************************************************)
CONSTANT Tasks

VARIABLES
  phase,  \* how far each task is
  needs   \* the tasks each task is built on

vars == <<phase, needs>>

Phases == {"absent",     \* not created yet
           "planned",    \* never started
           "running",    \* one run is under way, or its fate is unknown
           "submitted",  \* a result waits for its review
           "returned",   \* started before, nothing runs, nothing to review
           "done",
           "dropped"}    \* cancelled or archived

Done(S) == \A x \in S : phase[x] = "done"

Init ==
  /\ phase = [t \in Tasks |-> "absent"]
  /\ needs = [t \in Tasks |-> {}]

Go(t, from, to) ==
  /\ phase[t] \in from
  /\ phase' = [phase EXCEPT ![t] = to]
  /\ UNCHANGED needs

SetNeeds(t) == \E D \in SUBSET Tasks : needs' = [needs EXCEPT ![t] = D]

Plan(t) ==
  /\ phase[t] = "absent"
  /\ phase' = [phase EXCEPT ![t] = "planned"]
  /\ SetNeeds(t)

\* What a task needs changes only before its first run; the change and a
\* cancellation can come in one request.
Replan(t) ==
  /\ phase[t] = "planned"
  /\ phase' = phase \/ phase' = [phase EXCEPT ![t] = "dropped"]
  /\ SetNeeds(t)

Start(t)  == Done(needs[t]) /\ Go(t, {"planned", "returned"}, "running")
Stop(t)   == Go(t, {"running"}, "returned")
Submit(t) == Go(t, {"running"}, "submitted")
Rework(t) == Go(t, {"submitted"}, "returned")
Accept(t) == Go(t, {"submitted"}, "done")

\* A run is never dropped under way, a done task only when no task that is
\* still there needs it.
Drop(t) ==
  /\ phase[t] = "done" => \A u \in Tasks : t \in needs[u] => phase[u] = "dropped"
  /\ Go(t, {"planned", "submitted", "returned", "done"}, "dropped")

Next ==
  \E t \in Tasks :
    \/ Plan(t) \/ Replan(t)
    \/ Start(t) \/ Stop(t) \/ Submit(t) \/ Rework(t) \/ Accept(t) \/ Drop(t)

Spec == Init /\ [][Next]_vars
=============================================================================
