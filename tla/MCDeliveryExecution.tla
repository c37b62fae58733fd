------------------------- MODULE MCDeliveryExecution -------------------------
(* Automatic execution on small instances.                                 *)
EXTENDS DeliveryExecution, TLC

\* Nothing tells two callers, two jobs or two handlers apart.
BridgeSymmetry ==
  Permutations(Callers) \cup Permutations(Jobs) \cup Permutations(Resumers)

\* A second call at work, a second workflow and a second job are looked at one
\* at a time.
OneRace ==
  Cardinality({c \in Callers : call[c].pc # "idle"}) + Len(instances)
    + Cardinality({j \in Jobs : job[j].pc # "unused"}) <= 4

FirstKey   == CHOOSE k \in BridgeKeys : TRUE
Newer      == Baselines \ {1}
Busy       == Cardinality({h \in Resumers : resume[h].pc # "idle"})
Count(b)   == IF b THEN 1 ELSE 0

\* A gate closed by the flow, one closed by the baseline, a crash and a second
\* attempt are looked at one at a time.  The task is planned on the first
\* baseline and neither blocked nor cancelled; it is sent back, for a second
\* attempt, when the result of the first names no user and its workflow waits,
\* which is when the delivery of the first stays listed before the second.
OneTrouble ==
  \A t \in Tasks :
    /\ status[t] \notin {"blocked", "cancelled"} /\ baseline[t] \notin Newer
    /\ Count(~flowOpen) + Count(active # baseline[t]) + crashes
         + Count(Len(attempts[t]) = 2) <= 1
    /\ attempts[t] # <<>> => attempts[t][1].key = FirstKey
    /\ Len(attempts[t]) = 2 \/ status[t] = "changes_requested" =>
         /\ <<t, 1>> \in PendingDeliveries \ signed
         /\ \E i \in InstancesOf(<<t, 1>>) : Parked(i)
         /\ Busy <= 1
=============================================================================
