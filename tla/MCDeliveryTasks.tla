--------------------------- MODULE MCDeliveryTasks ---------------------------
(* The task board on small instances.                                      *)
EXTENDS DeliveryTasks, TLC

\* Nothing in the specification tells two tasks, or two idempotency keys,
\* apart (no task has a manual check where tasks are permuted).
TaskSymmetry == Permutations(Tasks)
KeySymmetry   == Permutations(Keys)

First == CHOOSE r \in Revisions : TRUE

\* One run looks at two topics: executors and workflows carry out a task while
\* the gate opens and closes, or a task is reviewed on two revisions with
\* tests of the project, manual checks and a changing limit.
Execution(t) ==
  /\ limit = 1
  /\ \A i \in DOMAIN results[t] : results[t][i].revision = First
  /\ \A c \in checks : c.subject = t /\ c.revision = First
  /\ manual[t] = [r \in Revisions |-> "missing"]

Review(t) ==
  /\ flowOpen
  /\ \A a \in DOMAIN attempts[t] :
       /\ attempts[t][a].worker = None /\ attempts[t][a].workflow = None
       /\ attempts[t][a].resolution = None
       /\ attempts[t][a].state \in {"reserved", "result_received"}
  /\ \A c \in checks : c.subject = t => c.passed

OneTopic == \A t \in Tasks : Execution(t) \/ Review(t)
=============================================================================
