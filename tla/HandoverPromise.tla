--------------------------- MODULE HandoverPromise ---------------------------
(***************************************************************************)
(* What automatic execution promises about an attempt, without requests,   *)
(* jobs, handlers and crashes: in which order the stages of its handover   *)
(* are reached, that each is reached for good, and that its result closes  *)
(* the preparations.                                                       *)
(***************************************************************************)
CONSTANT Attempts

VARIABLE reached   \* the stages each attempt has reached

\* What must have been reached before.  A result may come at any time, also
\* from outside the executor.
Before ==
  [linked     |-> {},            \* a workflow was started for the attempt
   parked     |-> {"linked"},    \* the workflow waits for the result
   queued     |-> {"parked"},
   dispatched |-> {"queued"},
   claimed    |-> {"queued"},    \* by the worker of a job
   started    |-> {"claimed"},   \* the executor
   answered   |-> {},            \* the result is stored
   told       |-> {"parked", "answered"},   \* the workflow went on
   delivered  |-> {"told"}]

Stages == DOMAIN Before

\* These are not done any more for an attempt that has its result.
Preparations == {"linked", "dispatched", "claimed"}

Init == reached = [a \in Attempts |-> {}]

\* The stages that may come next.
Following(past) ==
  {s \in Stages \ past : /\ Before[s] \subseteq past
                         /\ s \in Preparations => "answered" \notin past}

Further(past, now) == \E s \in Following(past) : now = past \cup {s}

Next ==
  \E a \in Attempts : /\ Further(reached[a], reached'[a])
                      /\ reached' = [reached EXCEPT ![a] = reached'[a]]

Spec == Init /\ [][Next]_reached
=============================================================================
