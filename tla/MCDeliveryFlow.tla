---------------------------- MODULE MCDeliveryFlow ----------------------------
(* The flow of a project on small instances.                               *)
EXTENDS DeliveryFlow, TLC

\* Every stage depends on the one before it.
Chain == [s \in Stages |-> IF s = 1 THEN {} ELSE {s - 1}]

FirstStage == [h \in Threads |-> 1]

First == CHOOSE c \in Contents : TRUE

\* The artifacts there are, of all stages.
Artifacts == {v \in Stages \X (1 .. MaxVersions) : v[2] <= Current(v[1])}

\* How many artifacts, and approvals of baselines, stand rejected.
Rejections ==
  Cardinality({v \in Artifacts : versions[v[1]][v[2]].verdict = "rejected"})
    + Cardinality({d \in (DOMAIN baselines) \X Kinds :
                     baselines[d[1]].verdicts[d[2]] = "rejected"})

\* The first version of a stage says the same in every stage; one stage gets
\* a second version, once the first is approved; one thing at a time stands
\* rejected; requirements are decided before the design; only the scope of
\* the draft is edited by hand; and either comments are imported, while only
\* the first stages have artifacts, or the draft is worked on.
OneTopic ==
  /\ \A s \in Stages : versions[s] # <<>> => versions[s][1].content = First
  /\ Cardinality(Artifacts) <= LastStage + 1
  /\ \A v \in Artifacts :
       v[2] < Current(v[1]) => versions[v[1]][v[2]].verdict = "approved"
  /\ Rejections <= 1
  /\ \A b \in DOMAIN baselines :
       baselines[b].verdicts["design"] # None =>
         baselines[b].verdicts["requirements"] # None
  /\ draft.screens \notin HandTexts
  /\ \/ \A h \in Threads : ~threads[h].known
     \/ /\ Cardinality(Artifacts) <= 2
        /\ baselines = <<>>
        /\ draft.scope = None /\ draft.plan = None
=============================================================================
