-------------------------- MODULE MCPaymentGateways --------------------------
(* One payment on small instances.                                         *)
EXTENDS PaymentGateways, TLC

\* Calls, operations and runs are told apart by nothing but their rows.
CallSymmetry ==
  Permutations(Callers) \cup Permutations(OpIds) \cup Permutations(Writers)

\* Three calls as long as nothing is reported.  Once something is, two captures
\* and one report at a time, or two reports at a time and no call.
FewActors ==
  LET calls   == Cardinality({c \in Callers : call[c].at # "idle"})
      reports == Cardinality({w \in Writers : writer[w].at # "idle"})
      quiet   == /\ claims = {} /\ applied = {} /\ ~raised /\ reports = 0
                 /\ \/ status \in Sessions
                    \/ \E o \in OpIds : ops[o].result = status IN
  /\ calls + 2 * reports <= 4
  /\ calls = 3 \/ (\E o \in OpIds : ops[o].action = "refund") => quiet
=============================================================================
