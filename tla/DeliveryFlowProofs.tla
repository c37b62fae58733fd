-------------------------- MODULE DeliveryFlowProofs --------------------------
(***************************************************************************)
(* Theorems about the flow of a project, for any stages, artifacts,        *)
(* threads, baselines and tasks: the domains of its columns, the approvals *)
(* of the active baseline, the stages under running work, what a bound     *)
(* baseline says, how far a decision reaches, and the feedback an approval *)
(* settles.                                                                *)
(***************************************************************************)
EXTENDS DeliveryFlow, TLAPS

-----------------------------------------------------------------------------
(* The domains, part by part.                                              *)

VersionsOK ==
  /\ versions \in [Stages -> Seq(Artifact)]
  /\ \A s, u \in Stages : \A i \in DOMAIN versions[s] :
       versions[s][i].binds[u] <= Current(u)

ThreadOK(h) ==
  /\ threads[h].triage = "deferred" <=> threads[h].deferred # 0
  /\ ~threads[h].known => threads[h] = NotImported
  /\ threads[h].version <= Current(StageOf[h])
  /\ threads[h].deferred <= Current(StageOf[h])

ThreadsOK ==
  /\ threads \in [Threads -> Thread]
  /\ \A h \in Threads : ThreadOK(h)

BaselinesOK ==
  /\ baselines \in Seq(Baseline)
  /\ active \in {0} \cup DOMAIN baselines

BindingsOK ==
  /\ bindings \subseteq [baseline : DOMAIN baselines, refs : Refs]
  /\ \A x \in bindings : \A s \in Stages : x.refs[s] \in DOMAIN versions[s]

LEMMA TypeParts ==
  TypeOK <=> /\ pinned \in BOOLEAN
             /\ VersionsOK /\ ThreadsOK
             /\ draft \in Draft
             /\ BaselinesOK /\ BindingsOK
             /\ work \in [Tasks -> Subject]
BY DEF TypeOK, VersionsOK, ThreadsOK, ThreadOK, BaselinesOK, BindingsOK

LEMMA TypePartsNext ==
  ASSUME pinned' \in BOOLEAN, VersionsOK', ThreadsOK', draft' \in Draft,
         BaselinesOK', BindingsOK', work' \in [Tasks -> Subject]
  PROVE  TypeOK'
BY DEF TypeOK, VersionsOK, ThreadsOK, ThreadOK, BaselinesOK, BindingsOK

LEMMA StagesType ==
  /\ Stages \subseteq Nat \ {0} /\ 1 \in Stages /\ LastStage \in Stages
  /\ NoRefs \in Refs
BY FlowAssumption DEF Stages, Refs, NoRefs

LEMMA CurrentType ==
  ASSUME VersionsOK
  PROVE  /\ CurrentRefs \in Refs
         /\ \A s \in Stages : Current(s) \in Nat /\ CurrentRefs[s] = Current(s)
                              /\ DOMAIN versions[s] = 1 .. Current(s)
<1>1. ASSUME NEW s \in Stages
      PROVE  Current(s) \in Nat /\ DOMAIN versions[s] = 1 .. Current(s)
  <2>1. versions[s] \in Seq(Artifact)
    BY DEF VersionsOK
  <2> QED
    BY <2>1 DEF Current
<1> QED
  BY <1>1 DEF CurrentRefs, Refs

-----------------------------------------------------------------------------
(* The versions of the stages only grow, and keep what they say.           *)

VersionsKept ==
  \A s \in Stages : \A i \in DOMAIN versions[s] :
    /\ i \in DOMAIN versions'[s]
    /\ versions'[s][i].content = versions[s][i].content

LEMMA NoVersionChanges ==
  ASSUME VersionsOK, versions' = versions
  PROVE  VersionsOK' /\ VersionsKept /\ CurrentRefs' = CurrentRefs
BY DEF VersionsOK, VersionsKept, CurrentRefs, Current

LEMMA VersionsGrow ==
  ASSUME VersionsOK, VersionsOK', VersionsKept
  PROVE  \A s \in Stages : Current(s) <= Current(s)'
<1> SUFFICES ASSUME NEW s \in Stages PROVE Current(s) <= Current(s)'
  OBVIOUS
<1>1. /\ Current(s) \in Nat /\ DOMAIN versions[s] = 1 .. Current(s)
      /\ Current(s)' \in Nat /\ DOMAIN versions'[s] = 1 .. Current(s)'
  <2>1. versions[s] \in Seq(Artifact) /\ versions'[s] \in Seq(Artifact)
    BY DEF VersionsOK
  <2> QED
    BY <2>1 DEF Current
<1>2. CASE Current(s) = 0
  BY <1>1, <1>2
<1>3. CASE Current(s) # 0
  <2>1. Current(s) \in DOMAIN versions[s]
    BY <1>1, <1>3
  <2>2. Current(s) \in 1 .. Current(s)'
    BY <1>1, <2>1 DEF VersionsKept
  <2> QED
    BY <1>1, <2>2
<1> QED
  BY <1>2, <1>3

LEMMA AppendedVersion ==
  ASSUME VersionsOK, NEW s \in Stages, NEW a \in Artifact,
         \A u \in Stages : a.binds[u] <= Current(u),
         versions' = [versions EXCEPT ![s] = Append(@, a)]
  PROVE  /\ VersionsOK' /\ VersionsKept
         /\ versions'[s][Len(versions'[s])] = a
<1>1. versions[s] \in Seq(Artifact)
  BY DEF VersionsOK
<1>2. /\ versions'[s] = Append(versions[s], a)
      /\ \A u \in Stages : u # s => versions'[u] = versions[u]
  BY DEF VersionsOK
<1>3. /\ versions'[s] \in Seq(Artifact)
      /\ Len(versions'[s]) = Len(versions[s]) + 1
      /\ Len(versions[s]) \in Nat
      /\ \A i \in DOMAIN versions[s] : i \in DOMAIN versions'[s]
                                       /\ versions'[s][i] = versions[s][i]
      /\ \A i \in DOMAIN versions'[s] : i \in DOMAIN versions[s]
                                        \/ i = Len(versions'[s])
      /\ versions'[s][Len(versions'[s])] = a
  BY <1>1, <1>2
<1>4. \A u \in Stages : Current(u) \in Nat /\ Current(u)' \in Nat
                        /\ Current(u) <= Current(u)'
  BY <1>2, <1>3, CurrentType DEF Current
<1>5. versions' \in [Stages -> Seq(Artifact)]
  BY <1>2, <1>3 DEF VersionsOK
<1>6. ASSUME NEW t \in Stages, NEW u \in Stages, NEW i \in DOMAIN versions'[t]
      PROVE  versions'[t][i].binds[u] <= Current(u)'
  <2>1. \/ versions'[t][i] = a
        \/ i \in DOMAIN versions[t] /\ versions'[t][i] = versions[t][i]
    BY <1>2, <1>3, <1>6
  <2>2. versions'[t][i].binds[u] <= Current(u)
    BY <2>1 DEF VersionsOK
  <2>3. versions'[t][i].binds[u] \in Nat
    <3>1. versions'[t][i] \in Artifact
      BY <1>5
    <3> QED
      BY <3>1 DEF Artifact, Refs
  <2> QED
    BY <2>2, <2>3, <1>4
<1>7. VersionsKept
  BY <1>2, <1>3 DEF VersionsKept
<1> QED
  BY <1>3, <1>5, <1>6, <1>7 DEF VersionsOK

LEMMA RecordedVerdict ==
  ASSUME VersionsOK, NEW s \in Stages, Current(s) > 0,
         NEW verdict \in Verdicts, Record(s, verdict)
  PROVE  /\ VersionsOK' /\ VersionsKept /\ CurrentRefs' = CurrentRefs
         /\ versions'[s][Current(s)].verdict = verdict
         /\ versions'[s][Current(s)].binds = versions[s][Current(s)].binds
         /\ \A u \in Stages : u # s => versions'[u] = versions[u]
<1> DEFINE n == Current(s)
           a == [versions[s][n] EXCEPT !.verdict = verdict]
<1>1. versions[s] \in Seq(Artifact) /\ n \in DOMAIN versions[s]
  BY CurrentType DEF VersionsOK
<1>2. versions[s][n] \in Artifact
  BY <1>1
<1>3. a \in Artifact /\ a.binds = versions[s][n].binds
      /\ a.verdict = verdict /\ a.content = versions[s][n].content
  BY <1>2 DEF Artifact
<1>4. /\ versions' = [versions EXCEPT ![s] = [@ EXCEPT ![n] = a]]
  BY DEF Record, VersionsOK
<1> HIDE DEF n, a
<1>5. /\ versions'[s] = [versions[s] EXCEPT ![n] = a]
      /\ \A u \in Stages : u # s => versions'[u] = versions[u]
  BY <1>4 DEF VersionsOK
<1>6. versions'[s] \in Seq(Artifact) /\ Len(versions'[s]) = Len(versions[s])
      /\ DOMAIN versions'[s] = DOMAIN versions[s]
  BY <1>1, <1>3, <1>5
<1>7. versions' \in [Stages -> Seq(Artifact)]
  BY <1>4, <1>5, <1>6 DEF VersionsOK
<1>8. \A u \in Stages : Current(u)' = Current(u)
  BY <1>5, <1>6 DEF Current
<1>9. \A t \in Stages : \A i \in DOMAIN versions'[t] :
        /\ i \in DOMAIN versions[t]
        /\ versions'[t][i].binds = versions[t][i].binds
        /\ versions'[t][i].content = versions[t][i].content
  BY <1>1, <1>3, <1>5, <1>6 DEF a, n
<1>10. VersionsOK'
  BY <1>7, <1>8, <1>9 DEF VersionsOK
<1>11. VersionsKept
  BY <1>5, <1>6, <1>9 DEF VersionsKept
<1>12. versions'[s][n] = a
  BY <1>1, <1>5
<1> QED
  BY <1>3, <1>5, <1>8, <1>10, <1>11, <1>12 DEF CurrentRefs, n

-----------------------------------------------------------------------------
(* Threads and rows.                                                       *)

LEMMA ThreadsStay ==
  ASSUME VersionsOK, VersionsOK', VersionsKept, ThreadsOK, threads' = threads
  PROVE  ThreadsOK'
<1>1. \A h \in Threads : ThreadOK(h)'
  <2> SUFFICES ASSUME NEW h \in Threads PROVE ThreadOK(h)'
    OBVIOUS
  <2>1. StageOf[h] \in Stages
    BY FlowAssumption
  <2>2. Current(StageOf[h]) <= Current(StageOf[h])' /\ Current(StageOf[h]) \in Nat
        /\ Current(StageOf[h])' \in Nat
    <3>1. versions'[StageOf[h]] \in Seq(Artifact)
      BY <2>1 DEF VersionsOK
    <3> QED
      BY <2>1, <3>1, VersionsGrow, CurrentType DEF Current
  <2>3. threads[h] \in Thread
    BY DEF ThreadsOK
  <2>4. threads[h].version \in Nat /\ threads[h].deferred \in Nat
    BY <2>3 DEF Thread
  <2> QED
    BY <2>2, <2>4 DEF ThreadsOK, ThreadOK
<1> QED
  BY <1>1 DEF ThreadsOK

\* A command that writes no stage but one thread after another: every thread it
\* writes is in order.
LEMMA ThreadsWritten ==
  ASSUME ThreadsOK, versions' = versions,
         threads' \in [Threads -> Thread],
         \A h \in Threads : threads'[h] = threads[h] \/ ThreadOK(h)'
  PROVE  ThreadsOK'
BY DEF ThreadsOK, ThreadOK, Current

BaselinesKept ==
  \A b \in DOMAIN baselines :
    /\ b \in DOMAIN baselines'
    /\ baselines'[b].scope = baselines[b].scope
    /\ baselines'[b].screens = baselines[b].screens
    /\ baselines'[b].plan = baselines[b].plan

LEMMA NoBaselineChanges ==
  ASSUME baselines' = baselines
  PROVE  BaselinesKept
BY DEF BaselinesKept

LEMMA AppendedBaseline ==
  ASSUME BaselinesOK, NEW row \in Baseline, baselines' = Append(baselines, row),
         active' = active
  PROVE  /\ BaselinesOK' /\ BaselinesKept
         /\ Len(baselines) + 1 \in DOMAIN baselines'
         /\ baselines'[Len(baselines) + 1] = row
         /\ active # 0 => baselines'[active] = baselines[active]
<1>1. baselines \in Seq(Baseline)
  BY DEF BaselinesOK
<1>2. /\ baselines' \in Seq(Baseline)
      /\ Len(baselines) + 1 \in DOMAIN baselines'
      /\ baselines'[Len(baselines) + 1] = row
      /\ \A b \in DOMAIN baselines : b \in DOMAIN baselines'
                                     /\ baselines'[b] = baselines[b]
  BY <1>1
<1> QED
  BY <1>2 DEF BaselinesOK, BaselinesKept

LEMMA RowOfType ==
  ASSUME BaselinesOK, NEW content, RowOf(content) \in DOMAIN baselines
  PROVE  [baselines[RowOf(content)] EXCEPT !.verdicts = Undecided] = content
<1> DEFINE same == {b \in DOMAIN baselines :
                      [baselines[b] EXCEPT !.verdicts = Undecided] = content}
<1>1. CASE same = {}
  <2>1. RowOf(content) = Len(baselines) + 1
    BY <1>1 DEF RowOf
  <2>2. baselines \in Seq(Baseline)
    BY DEF BaselinesOK
  <2> QED
    BY <2>1, <2>2
<1>2. CASE same # {}
  <2>1. RowOf(content) = CHOOSE b \in same : TRUE
    BY <1>2 DEF RowOf
  <2>2. RowOf(content) \in same
    BY <1>2, <2>1
  <2> QED
    BY <2>2
<1> QED
  BY <1>1, <1>2

LEMMA RowOfRange ==
  ASSUME BaselinesOK, NEW content
  PROVE  RowOf(content) \in DOMAIN baselines \/ RowOf(content) = Len(baselines) + 1
BY DEF RowOf

LEMMA UndecidedType ==
  Undecided \in [Kinds -> Verdicts] /\ ~BothApproved(Undecided)
BY DEF Undecided, Verdicts, Kinds, BothApproved, None

\* The bindings of before keep to their rows and versions.
LEMMA BindingsStay ==
  ASSUME BindingsOK, VersionsKept, BaselinesKept, bindings' = bindings
  PROVE  BindingsOK'
BY DEF BindingsOK, VersionsKept, BaselinesKept

-----------------------------------------------------------------------------
(* The stages of an open gate all have a version.                          *)

LEMMA OpenGate ==
  ASSUME VersionsOK, GateOpen
  PROVE  \A s \in Stages : CurrentRefs[s] \in DOMAIN versions[s]
<1> SUFFICES ASSUME NEW s \in Stages PROVE CurrentRefs[s] \in DOMAIN versions[s]
  OBVIOUS
<1>1. Current(s) > 0
  BY DEF GateOpen, StageApproved, Settled
<1> QED
  BY <1>1, CurrentType

LEMMA OpenGateRefs ==
  ASSUME VersionsOK, GateOpen
  PROVE  CurrentRefs # NoRefs
<1>1. Current(1) > 0 /\ 1 \in Stages
  BY StagesType DEF GateOpen, StageApproved, Settled
<1>2. CurrentRefs[1] = Current(1) /\ NoRefs[1] = 0
  BY <1>1, CurrentType DEF NoRefs
<1> QED
  BY <1>1, <1>2

\* The binding of a baseline to the stages of an open gate.
LEMMA BindingAdded ==
  ASSUME VersionsOK, GateOpen, BindingsOK, BaselinesKept, versions' = versions,
         NEW b \in DOMAIN baselines',
         bindings' = bindings \cup {[baseline |-> b, refs |-> CurrentRefs]}
  PROVE  BindingsOK'
<1>1. CurrentRefs \in Refs
  BY CurrentType
<1>2. \A s \in Stages : CurrentRefs[s] \in DOMAIN versions[s]
  BY OpenGate
<1>3. bindings' \subseteq [baseline : DOMAIN baselines', refs : Refs]
  BY <1>1 DEF BindingsOK, BaselinesKept
<1>4. \A x \in bindings' : \A s \in Stages : x.refs[s] \in DOMAIN versions'[s]
  BY <1>2 DEF BindingsOK
<1> QED
  BY <1>3, <1>4 DEF BindingsOK

-----------------------------------------------------------------------------
(* Every command keeps the domains.                                        *)

LEMMA InitTypes == Init => TypeOK
<1> SUFFICES ASSUME Init PROVE TypeOK
  OBVIOUS
<1>1. VersionsOK
  BY DEF Init, VersionsOK
<1>2. \A s \in Stages : Current(s) = 0
  BY DEF Init, Current
<1>3. ThreadsOK
  <2>1. NotImported \in Thread
    BY DEF NotImported, Thread, Triages
  <2>2. \A h \in Threads : ThreadOK(h)
    BY <1>2, FlowAssumption DEF Init, ThreadOK, NotImported
  <2> QED
    BY <2>1, <2>2 DEF Init, ThreadsOK
<1>4. draft \in Draft
  BY StagesType DEF Init, Draft, Sections
<1>5. BaselinesOK /\ BindingsOK
  BY DEF Init, BaselinesOK, BindingsOK
<1>6. work \in [Tasks -> Subject]
  BY StagesType DEF Init, Idle, Subject
<1> QED
  BY <1>1, <1>3, <1>4, <1>5, <1>6, TypeParts DEF Init

\* What leaves stages and threads alone, and what leaves all the rest alone.
LEMMA StagesAlone ==
  ASSUME TypeOK, UNCHANGED stageVars
  PROVE  VersionsOK' /\ VersionsKept /\ ThreadsOK' /\ CurrentRefs' = CurrentRefs
<1>1. VersionsOK /\ ThreadsOK
  BY TypeParts
<1>2. VersionsOK' /\ VersionsKept /\ CurrentRefs' = CurrentRefs
  BY <1>1, NoVersionChanges DEF stageVars
<1> QED
  BY <1>1, <1>2, ThreadsStay DEF stageVars

LEMMA RestAlone ==
  ASSUME TypeOK, VersionsOK', VersionsKept, ThreadsOK', pinned' \in BOOLEAN,
         UNCHANGED <<baselineVars, work>>
  PROVE  TypeOK'
<1>1. BaselinesOK' /\ draft' \in Draft /\ work' \in [Tasks -> Subject]
  BY TypeParts DEF baselineVars, BaselinesOK
<1>2. BindingsOK'
  BY TypeParts, NoBaselineChanges, BindingsStay DEF baselineVars
<1> QED
  BY <1>1, <1>2, TypePartsNext

LEMMA CreateArtifactStages ==
  ASSUME TypeOK, NEW s \in Stages, NEW c \in Contents, NEW D \in SUBSET Stages,
         CreateArtifact(s, c, D)
  PROVE  VersionsOK' /\ VersionsKept /\ ThreadsOK'
         /\ versions'[s][Len(versions'[s])].verdict = None
         /\ \A u \in Stages : u # s => versions'[u] = versions[u]
<1> DEFINE a == [content |-> c, verdict |-> None,
                 binds |-> [u \in Stages |-> IF u \in D THEN Current(u) ELSE 0]]
<1>1. VersionsOK /\ ThreadsOK
  BY TypeParts
<1>2. \A u \in Stages : Current(u) \in Nat
  BY <1>1, CurrentType
<1>3. a \in Artifact
  BY <1>2 DEF Artifact, Refs, Verdicts
<1>4. \A u \in Stages : a.binds[u] <= Current(u)
  BY <1>2
<1>5. versions' = [versions EXCEPT ![s] = Append(@, a)] /\ threads' = threads
  BY DEF CreateArtifact
<1>6. a.verdict = None
  OBVIOUS
<1>7. \A u \in Stages : u # s => versions'[u] = versions[u]
  BY <1>1, <1>5 DEF VersionsOK
<1> HIDE DEF a
<1>8. VersionsOK' /\ VersionsKept /\ versions'[s][Len(versions'[s])] = a
  BY <1>1, <1>3, <1>4, <1>5, AppendedVersion
<1>9. ThreadsOK'
  BY <1>1, <1>5, <1>8, ThreadsStay
<1> QED
  BY <1>6, <1>7, <1>8, <1>9

LEMMA ApproveStages ==
  ASSUME TypeOK, NEW s \in Stages, NEW named \in SUBSET Threads, Approve(s, named)
  PROVE  VersionsOK' /\ VersionsKept /\ ThreadsOK' /\ CurrentRefs' = CurrentRefs
<1>1. VersionsOK /\ ThreadsOK /\ Current(s) > 0 /\ Record(s, "approved")
  BY TypeParts DEF Approve
<1>2. VersionsOK' /\ VersionsKept /\ CurrentRefs' = CurrentRefs
  BY <1>1, RecordedVerdict DEF Verdicts
<1>3. \A u \in Stages : Current(u) \in Nat /\ Current(u)' = Current(u)
  <2>1. \A u \in Stages : CurrentRefs[u] = Current(u)
                          /\ (CurrentRefs[u])' = Current(u)'
    BY DEF CurrentRefs
  <2> QED
    BY <1>1, <1>2, <2>1, CurrentType
<1> DEFINE deferred(h) == [threads[h] EXCEPT !.triage = "deferred",
                                            !.deferred = Current(s)]
<1>4. threads' = [h \in Threads |-> IF h \in Blocking(s) THEN deferred(h)
                                                       ELSE threads[h]]
  BY DEF Approve
<1>5. ASSUME NEW h \in Threads
      PROVE  threads'[h] \in Thread /\ ThreadOK(h)'
  <2>1. threads[h] \in Thread /\ ThreadOK(h) /\ StageOf[h] \in Stages
    BY <1>1, FlowAssumption DEF ThreadsOK
  <2>2. CASE h \in Blocking(s)
    <3>1. StageOf[h] = s /\ threads[h].open /\ threads'[h] = deferred(h)
      BY <1>4, <2>2 DEF Blocking
    <3>2. threads[h].known
      BY <2>1, <3>1 DEF ThreadOK, NotImported
    <3>3. deferred(h) \in Thread
      BY <1>3, <2>1 DEF Thread, Triages
    <3>4. /\ threads'[h].known /\ threads'[h].triage = "deferred"
          /\ threads'[h].deferred = Current(s)
          /\ threads'[h].version = threads[h].version
      BY <2>1, <3>1, <3>2 DEF Thread
    <3> QED
      BY <1>1, <1>3, <2>1, <3>1, <3>3, <3>4 DEF ThreadOK
  <2>3. CASE h \notin Blocking(s)
    <3>1. threads'[h] = threads[h]
      BY <1>4, <2>3
    <3> QED
      BY <1>3, <2>1, <3>1 DEF ThreadOK
  <2> QED
    BY <2>2, <2>3
<1>6. threads' \in [Threads -> Thread]
  BY <1>4, <1>5
<1> QED
  BY <1>2, <1>5, <1>6 DEF ThreadsOK

LEMMA RejectStages ==
  ASSUME TypeOK, NEW s \in Stages, Reject(s)
  PROVE  VersionsOK' /\ VersionsKept /\ ThreadsOK' /\ CurrentRefs' = CurrentRefs
<1>1. VersionsOK /\ ThreadsOK /\ Current(s) > 0 /\ Record(s, "rejected")
  BY TypeParts DEF Reject
<1>2. VersionsOK' /\ VersionsKept /\ CurrentRefs' = CurrentRefs
  BY <1>1, RecordedVerdict DEF Verdicts
<1> QED
  BY <1>1, <1>2, ThreadsStay DEF Reject

LEMMA TriageStages ==
  ASSUME TypeOK, NEW h \in Threads, NEW triage \in Triages, NEW v \in Nat,
         Triage(h, triage, v)
  PROVE  VersionsOK' /\ VersionsKept /\ ThreadsOK' /\ CurrentRefs' = CurrentRefs
<1>1. VersionsOK /\ ThreadsOK /\ versions' = versions
  BY TypeParts DEF Triage
<1> DEFINE y == [[threads[h] EXCEPT !.triage = triage] EXCEPT !.deferred = v]
<1>2. threads[h] \in Thread /\ ThreadOK(h) /\ Current(StageOf[h]) \in Nat
  BY <1>1, FlowAssumption, CurrentType DEF ThreadsOK
<1>3. y \in Thread /\ y.known = threads[h].known /\ y.triage = triage
      /\ y.deferred = v /\ y.version = threads[h].version
  BY <1>2 DEF Thread
<1>4. threads' = [threads EXCEPT ![h] = y]
  BY <1>1 DEF Triage, ThreadsOK
<1>5. threads[h].known /\ (triage = "deferred" => v \in 1 .. Current(StageOf[h]))
      /\ (triage # "deferred" => v = 0)
  BY DEF Triage
<1> HIDE DEF y
<1>6. threads' \in [Threads -> Thread] /\ threads'[h] = y
      /\ \A k \in Threads : k # h => threads'[k] = threads[k]
  BY <1>1, <1>3, <1>4 DEF ThreadsOK
<1>7. ThreadOK(h)'
  <2>1. threads'[h].known
    BY <1>3, <1>5, <1>6
  <2>2. threads'[h].triage = "deferred" <=> threads'[h].deferred # 0
    BY <1>2, <1>3, <1>5, <1>6
  <2>3. /\ threads'[h].version <= Current(StageOf[h])
        /\ threads'[h].deferred <= Current(StageOf[h])
    BY <1>2, <1>3, <1>5, <1>6 DEF ThreadOK
  <2>4. Current(StageOf[h])' = Current(StageOf[h])
    BY <1>1 DEF Current
  <2> QED
    BY <2>1, <2>2, <2>3, <2>4 DEF ThreadOK
<1>8. ThreadsOK'
  BY <1>1, <1>6, <1>7, ThreadsWritten
<1> QED
  BY <1>1, <1>8, NoVersionChanges

LEMMA ImportThreadStages ==
  ASSUME TypeOK, NEW h \in Threads, NEW v \in Nat, NEW open \in BOOLEAN,
         NEW reply \in BOOLEAN, ImportThread(h, v, open, reply)
  PROVE  VersionsOK' /\ VersionsKept /\ ThreadsOK' /\ CurrentRefs' = CurrentRefs
<1>1. VersionsOK /\ ThreadsOK /\ versions' = versions
  BY TypeParts DEF ImportThread
<1>2. threads[h] \in Thread /\ ThreadOK(h) /\ Current(StageOf[h]) \in Nat
  BY <1>1, FlowAssumption, CurrentType DEF ThreadsOK
<1>3. PICK triage \in Triages :
        /\ triage = "new" \/ triage = threads[h].triage
        /\ threads' = [threads EXCEPT ![h] = [Imported(h, triage) EXCEPT
                          !.known = TRUE, !.version = v, !.open = open]]
  <2>1. "new" \in Triages /\ threads[h].triage \in Triages
    BY <1>2 DEF Thread, Triages
  <2> QED
    BY <2>1 DEF ImportThread
<1> DEFINE y == [Imported(h, triage) EXCEPT !.known = TRUE, !.version = v,
                                            !.open = open]
<1>4. /\ y \in Thread /\ y.known /\ y.version = v /\ y.triage = triage
      /\ triage = "new" => y.deferred = 0
      /\ triage # "new" => y.deferred = threads[h].deferred
  BY <1>2 DEF Imported, Thread
<1>5. v <= Current(StageOf[h]) /\ threads' = [threads EXCEPT ![h] = y]
  BY <1>3 DEF ImportThread
<1> HIDE DEF y
<1>6. threads' \in [Threads -> Thread] /\ threads'[h] = y
      /\ \A k \in Threads : k # h => threads'[k] = threads[k]
  BY <1>1, <1>4, <1>5 DEF ThreadsOK
<1>7. ThreadOK(h)'
  <2>1. threads'[h].known
    BY <1>4, <1>6
  <2>2. threads'[h].triage = "deferred" <=> threads'[h].deferred # 0
    BY <1>2, <1>3, <1>4, <1>6 DEF ThreadOK
  <2>3. /\ threads'[h].version <= Current(StageOf[h])
        /\ threads'[h].deferred <= Current(StageOf[h])
    BY <1>2, <1>4, <1>5, <1>6 DEF ThreadOK
  <2>4. Current(StageOf[h])' = Current(StageOf[h])
    BY <1>1 DEF Current
  <2> QED
    BY <2>1, <2>2, <2>3, <2>4 DEF ThreadOK
<1>8. ThreadsOK'
  BY <1>1, <1>6, <1>7, ThreadsWritten
<1> QED
  BY <1>1, <1>8, NoVersionChanges

-----------------------------------------------------------------------------
(* The inductive invariant: a bound baseline can only say what its stages  *)
(* say if the draft it is frozen from does, as long as it vouches for      *)
(* them.                                                                   *)

BaselineSays(x) ==
  baselines[x.baseline].plan = None =>
    /\ baselines[x.baseline].scope   = ScopeOf(x.refs)
    /\ baselines[x.baseline].screens = ScreensOf(x.refs)

DraftSays ==
  draft.from # NoRefs =>
    /\ \A s \in Stages : draft.from[s] \in DOMAIN versions[s]
    /\ draft.plan = None => /\ draft.scope   = ScopeOf(draft.from)
                            /\ draft.screens = ScreensOf(draft.from)

FlowInv ==
  /\ TypeOK
  /\ ActiveIsApproved
  /\ WorkStaysOnItsSubject
  /\ DraftSays
  /\ BindingsTellTheTruth

LEMMA TruthStays ==
  ASSUME BindingsOK, VersionsKept, BaselinesKept, BindingsTellTheTruth,
         NEW x \in bindings
  PROVE  BaselineSays(x)'
<1>1. /\ x.baseline \in DOMAIN baselines
      /\ x.refs[1] \in DOMAIN versions[1]
      /\ x.refs[LastStage] \in DOMAIN versions[LastStage]
  BY StagesType DEF BindingsOK
<1>2. BaselineSays(x)
  BY DEF BindingsTellTheTruth, BaselineSays
<1>3. /\ versions'[1][x.refs[1]].content = versions[1][x.refs[1]].content
      /\ versions'[LastStage][x.refs[LastStage]].content
           = versions[LastStage][x.refs[LastStage]].content
  BY <1>1, StagesType DEF VersionsKept
<1> QED
  BY <1>1, <1>2, <1>3 DEF BaselineSays, BaselinesKept, ScopeOf, ScreensOf

LEMMA DraftStays ==
  ASSUME VersionsKept, DraftSays, draft' = draft
  PROVE  DraftSays'
<1> SUFFICES ASSUME draft.from # NoRefs PROVE DraftSays'
  BY DEF DraftSays
<1>1. \A s \in Stages : draft.from[s] \in DOMAIN versions[s]
  BY DEF DraftSays
<1>2. /\ versions'[1][draft.from[1]].content = versions[1][draft.from[1]].content
      /\ versions'[LastStage][draft.from[LastStage]].content
           = versions[LastStage][draft.from[LastStage]].content
  BY <1>1, StagesType DEF VersionsKept
<1>3. \A s \in Stages : draft.from[s] \in DOMAIN versions'[s]
  BY <1>1 DEF VersionsKept
<1> QED
  BY <1>2, <1>3 DEF DraftSays, ScopeOf, ScreensOf

\* A command on stages and threads.
LEMMA StageCommand ==
  ASSUME FlowInv, VersionsOK', VersionsKept, ThreadsOK', pinned' \in BOOLEAN,
         UNCHANGED <<baselineVars, work>>,
         CurrentRefs' = CurrentRefs \/ ProjectIdle
  PROVE  FlowInv'
<1>1. TypeOK'
  BY RestAlone DEF FlowInv
<1>2. ActiveIsApproved'
  BY DEF FlowInv, ActiveIsApproved, baselineVars
<1>3. WorkStaysOnItsSubject'
  <2>1. CASE CurrentRefs' = CurrentRefs
    BY <2>1 DEF FlowInv, WorkStaysOnItsSubject
  <2>2. CASE ProjectIdle
    <3>1. \A t \in Tasks : work'[t].refs = NoRefs
      BY <2>2 DEF ProjectIdle, Idle
    <3> QED
      BY <3>1 DEF WorkStaysOnItsSubject
  <2> QED
    BY <2>1, <2>2
<1>4. DraftSays'
  BY DraftStays DEF FlowInv, baselineVars
<1>5. BindingsTellTheTruth'
  <2>1. BindingsOK /\ BaselinesKept /\ bindings' = bindings
    BY TypeParts, NoBaselineChanges DEF FlowInv, baselineVars
  <2>2. \A x \in bindings' : BaselineSays(x)'
    BY <2>1, TruthStays DEF FlowInv
  <2> QED
    BY <2>2 DEF BindingsTellTheTruth, BaselineSays
<1> QED
  BY <1>1, <1>2, <1>3, <1>4, <1>5 DEF FlowInv

\* A command on the draft and the baselines.
LEMMA BaselineCommand ==
  ASSUME FlowInv, UNCHANGED <<pinned, stageVars, work>>,
         BaselinesOK', BaselinesKept, BindingsOK', ActiveIsApproved',
         draft' \in Draft, DraftSays',
         \A x \in bindings' : x \in bindings \/ BaselineSays(x)'
  PROVE  FlowInv'
<1>1. TypeOK /\ BindingsOK
  BY TypeParts DEF FlowInv
<1>2. VersionsOK' /\ VersionsKept /\ ThreadsOK' /\ CurrentRefs' = CurrentRefs
  BY <1>1, StagesAlone
<1>3. TypeOK'
  BY <1>1, <1>2, TypeParts, TypePartsNext
<1>4. WorkStaysOnItsSubject'
  BY <1>2 DEF FlowInv, WorkStaysOnItsSubject
<1>5. \A x \in bindings' : BaselineSays(x)'
  BY <1>1, <1>2, TruthStays DEF FlowInv
<1>6. BindingsTellTheTruth'
  BY <1>5 DEF BindingsTellTheTruth, BaselineSays
<1> QED
  BY <1>3, <1>4, <1>6 DEF FlowInv

\* A command on the draft alone.
LEMMA DraftCommand ==
  ASSUME FlowInv, UNCHANGED <<pinned, stageVars, baselines, active, bindings, work>>,
         draft' \in Draft, DraftSays'
  PROVE  FlowInv'
<1>1. BaselinesKept
  BY NoBaselineChanges
<1>2. BaselinesOK' /\ ActiveIsApproved'
  BY TypeParts DEF FlowInv, BaselinesOK, ActiveIsApproved
<1>3. BindingsOK'
  BY <1>1, TypeParts, StagesAlone, BindingsStay DEF FlowInv
<1> QED
  BY <1>1, <1>2, <1>3, BaselineCommand

-----------------------------------------------------------------------------
(* Every command keeps the invariant.                                      *)

LEMMA InitInv == Init => FlowInv
<1> SUFFICES ASSUME Init PROVE FlowInv
  OBVIOUS
<1>1. WorkStaysOnItsSubject
  BY DEF Init, WorkStaysOnItsSubject, Idle
<1>2. ActiveIsApproved /\ DraftSays /\ BindingsTellTheTruth
  BY DEF Init, ActiveIsApproved, DraftSays, BindingsTellTheTruth
<1> QED
  BY <1>1, <1>2, InitTypes DEF FlowInv

LEMMA PinInv == FlowInv /\ Pin => FlowInv'
<1> SUFFICES ASSUME FlowInv, Pin PROVE FlowInv'
  OBVIOUS
<1>1. VersionsOK' /\ VersionsKept /\ ThreadsOK' /\ CurrentRefs' = CurrentRefs
  BY StagesAlone DEF FlowInv, Pin
<1> QED
  BY <1>1, StageCommand DEF Pin

LEMMA MaterializeInv == FlowInv /\ Materialize => FlowInv'
<1> SUFFICES ASSUME FlowInv, Materialize PROVE FlowInv'
  OBVIOUS
<1>1. VersionsOK /\ GateOpen
  BY TypeParts DEF FlowInv, Materialize
<1>2. \A s \in Stages : CurrentRefs[s] \in DOMAIN versions[s]
  BY <1>1, OpenGate
<1>3. \A s \in Stages : versions[s][CurrentRefs[s]] \in Artifact
  BY <1>1, <1>2 DEF VersionsOK
<1>4. ScopeOf(CurrentRefs) \in Contents /\ ScreensOf(CurrentRefs) \in Contents
  BY <1>3, StagesType DEF ScopeOf, ScreensOf, Artifact
<1>5. CurrentRefs \in Refs
  BY <1>1, CurrentType
<1>6. draft' = [scope |-> ScopeOf(CurrentRefs), screens |-> ScreensOf(CurrentRefs),
                plan |-> None, from |-> CurrentRefs]
      /\ versions' = versions
  BY DEF Materialize, stageVars
<1>7. draft' \in Draft
  BY <1>4, <1>5, <1>6 DEF Draft, Sections
<1>8. DraftSays'
  <2>1. /\ draft'.from = CurrentRefs
        /\ draft'.scope = versions[1][CurrentRefs[1]].content
        /\ draft'.screens = versions[LastStage][CurrentRefs[LastStage]].content
    BY <1>6 DEF ScopeOf, ScreensOf
  <2> HIDE DEF CurrentRefs
  <2> QED
    BY <1>2, <1>6, <2>1 DEF DraftSays, ScopeOf, ScreensOf
<1> QED
  BY <1>7, <1>8, DraftCommand DEF Materialize

LEMMA EditedType ==
  ASSUME NEW scope \in Sections, NEW screens \in Sections, NEW plan \in Plans \cup {None}
  PROVE  Edited(scope, screens, plan) \in Draft
         /\ Edited(scope, screens, plan).from = NoRefs
BY StagesType DEF Edited, Draft

LEMMA EditDraftInv ==
  ASSUME FlowInv, NEW scope \in HandTexts \cup {draft.scope},
         NEW screens \in HandTexts \cup {draft.screens},
         NEW plan \in {None, draft.plan}, EditDraft(scope, screens, plan)
  PROVE  FlowInv'
<1>1. draft \in Draft
  BY TypeParts DEF FlowInv
<1>2. scope \in Sections /\ screens \in Sections /\ plan \in Plans \cup {None}
  BY <1>1 DEF Draft, Sections
<1>3. draft' \in Draft /\ draft'.from = NoRefs
  BY <1>2, EditedType DEF EditDraft
<1>4. DraftSays'
  BY <1>3 DEF DraftSays
<1> QED
  BY <1>3, <1>4, DraftCommand DEF EditDraft

LEMMA FreezeInv == FlowInv /\ Freeze => FlowInv'
<1> SUFFICES ASSUME FlowInv, Freeze PROVE FlowInv'
  OBVIOUS
<1> DEFINE content == [scope |-> draft.scope, screens |-> draft.screens,
                       plan |-> draft.plan, imports |-> {}, parent |-> 0,
                       verdicts |-> Undecided]
           b == RowOf(content)
<1>1. VersionsOK /\ BaselinesOK /\ BindingsOK /\ draft \in Draft
  BY TypeParts DEF FlowInv
<1>2. /\ baselines' = IF b \in DOMAIN baselines THEN baselines
                                              ELSE Append(baselines, content)
      /\ bindings' = IF pinned
                     THEN bindings \cup {[baseline |-> b, refs |-> CurrentRefs]}
                     ELSE bindings
      /\ pinned => GateOpen /\ DraftIsCurrent
      /\ versions' = versions /\ draft' = draft /\ active' = active
  BY DEF Freeze, stageVars
<1>3. content \in Baseline /\ content.scope = draft.scope
      /\ content.screens = draft.screens /\ content.plan = draft.plan
  BY <1>1, UndecidedType DEF Draft, Baseline
<1>4. b \in DOMAIN baselines \/ b = Len(baselines) + 1
  BY <1>1, RowOfRange
<1>5. b \in DOMAIN baselines => [baselines[b] EXCEPT !.verdicts = Undecided] = content
  BY <1>1, RowOfType
<1> HIDE DEF content, b
<1>6. /\ BaselinesOK' /\ BaselinesKept /\ ActiveIsApproved'
      /\ b \in DOMAIN baselines'
      /\ baselines'[b].scope = draft.scope
      /\ baselines'[b].screens = draft.screens
      /\ baselines'[b].plan = draft.plan
  <2>1. CASE b \in DOMAIN baselines
    <3>1. baselines' = baselines
      BY <1>2, <2>1
    <3>2. baselines[b] \in Baseline
      BY <1>1, <2>1 DEF BaselinesOK
    <3>3. /\ baselines[b].scope = content.scope
          /\ baselines[b].screens = content.screens
          /\ baselines[b].plan = content.plan
      BY <1>5, <2>1, <3>2 DEF Baseline
    <3>4. BaselinesOK' /\ ActiveIsApproved'
      BY <1>1, <1>2, <3>1 DEF BaselinesOK, FlowInv, ActiveIsApproved
    <3> QED
      BY <1>3, <2>1, <3>1, <3>3, <3>4, NoBaselineChanges
  <2>2. CASE b \notin DOMAIN baselines
    <3>1. baselines' = Append(baselines, content) /\ b = Len(baselines) + 1
      BY <1>2, <1>4, <2>2
    <3>2. /\ BaselinesOK' /\ BaselinesKept /\ b \in DOMAIN baselines'
          /\ baselines'[b] = content
          /\ active # 0 => baselines'[active] = baselines[active]
      BY <1>1, <1>2, <1>3, <3>1, AppendedBaseline
    <3>3. ActiveIsApproved'
      BY <1>2, <3>2 DEF FlowInv, ActiveIsApproved
    <3> QED
      BY <1>3, <3>2, <3>3
  <2> QED
    BY <2>1, <2>2
<1>7. VersionsKept /\ VersionsOK'
  BY StagesAlone DEF FlowInv, Freeze
<1>8. DraftSays'
  BY <1>2, <1>7, DraftStays DEF FlowInv
<1>9. BindingsOK' /\ \A x \in bindings' : x \in bindings \/ BaselineSays(x)'
  <2>1. CASE ~pinned
    <3>1. bindings' = bindings
      BY <1>2, <2>1
    <3> QED
      BY <1>1, <1>6, <1>7, <3>1, BindingsStay
  <2>2. CASE pinned
    <3>1. GateOpen /\ draft.from = CurrentRefs
          /\ bindings' = bindings \cup {[baseline |-> b, refs |-> CurrentRefs]}
      BY <1>2, <2>2 DEF DraftIsCurrent
    <3>2. BindingsOK'
      BY <1>1, <1>2, <1>6, <3>1, BindingAdded
    <3>3. draft.from # NoRefs
      BY <1>1, <3>1, OpenGateRefs
    <3>4. ASSUME NEW x \in bindings', x \notin bindings
          PROVE  BaselineSays(x)'
      <4>1. x.baseline = b /\ x.refs = draft.from
        BY <3>1, <3>4
      <4> QED
        BY <1>2, <1>6, <3>3, <4>1
        DEF FlowInv, DraftSays, BaselineSays, ScopeOf, ScreensOf
    <3> QED
      BY <3>2, <3>4
  <2> QED
    BY <2>1, <2>2
<1> QED
  BY <1>1, <1>2, <1>6, <1>8, <1>9, BaselineCommand DEF Freeze

LEMMA ImportRequirementsInv ==
  ASSUME FlowInv, NEW m \in Requirements, ImportRequirements(m)
  PROVE  FlowInv'
<1> DEFINE merged == Edited(m, draft.screens, draft.plan)
           row == [scope |-> merged.scope, screens |-> merged.screens,
                   plan |-> merged.plan, imports |-> {m}, parent |-> 0,
                   verdicts |-> Undecided]
<1>1. BaselinesOK /\ BindingsOK /\ draft \in Draft
  BY TypeParts DEF FlowInv
<1>2. merged \in Draft /\ merged.from = NoRefs
  <2>1. m \in Sections /\ draft.screens \in Sections
        /\ draft.plan \in Plans \cup {None}
    BY <1>1 DEF Draft, Sections
  <2> QED
    BY <2>1, EditedType
<1>3. row \in Baseline
  BY <1>2, UndecidedType DEF Baseline, Draft, Manifests
<1>4. draft' = merged /\ baselines' = Append(baselines, row)
      /\ active' = active /\ bindings' = bindings
  BY DEF ImportRequirements
<1> HIDE DEF merged, row
<1>5. BaselinesOK' /\ BaselinesKept
      /\ (active # 0 => baselines'[active] = baselines[active])
  BY <1>1, <1>3, <1>4, AppendedBaseline
<1>6. ActiveIsApproved'
  BY <1>4, <1>5 DEF FlowInv, ActiveIsApproved
<1>7. DraftSays'
  BY <1>2, <1>4 DEF DraftSays
<1>8. BindingsOK'
  BY <1>1, <1>4, <1>5, StagesAlone, BindingsStay DEF FlowInv, ImportRequirements
<1> QED
  BY <1>2, <1>4, <1>5, <1>6, <1>7, <1>8, BaselineCommand DEF ImportRequirements

LEMMA ImportPlanInv ==
  ASSUME FlowInv, NEW m \in Plans, ImportPlan(m)
  PROVE  FlowInv'
<1> DEFINE merged == Len(baselines) + 1
           row == [baselines[active] EXCEPT !.plan = m, !.imports = @ \cup {m},
                                            !.parent = active,
                                            !.verdicts = Undecided]
<1>1. VersionsOK /\ BaselinesOK /\ BindingsOK /\ draft \in Draft
  BY TypeParts DEF FlowInv
<1>2. m # None
  BY FlowAssumption
<1>3. baselines[active] \in Baseline /\ active \in Nat
  BY <1>1 DEF ImportPlan, BaselinesOK
<1>4. row \in Baseline /\ row.plan = m
  BY <1>3, UndecidedType DEF Baseline, Manifests
<1>5. /\ baselines' = Append(baselines, row) /\ active' = active
      /\ versions' = versions
      /\ pinned => /\ GateOpen
                   /\ bindings' = bindings
                        \cup {[baseline |-> merged, refs |-> CurrentRefs]}
                   /\ draft' = [draft EXCEPT !.plan = m, !.from = CurrentRefs]
      /\ ~pinned => bindings' = bindings /\ draft' = [draft EXCEPT !.plan = m]
  BY DEF ImportPlan, stageVars
<1> HIDE DEF merged, row
<1>6. /\ BaselinesOK' /\ BaselinesKept
      /\ active # 0 => baselines'[active] = baselines[active]
      /\ merged \in DOMAIN baselines' /\ baselines'[merged].plan = m
  BY <1>1, <1>4, <1>5, AppendedBaseline DEF merged
<1>7. ActiveIsApproved'
  BY <1>5, <1>6 DEF FlowInv, ActiveIsApproved
<1>8. draft' \in Draft /\ draft'.plan = m
  <2>1. CurrentRefs \in Refs
    BY <1>1, CurrentType
  <2> QED
    BY <1>1, <1>5, <2>1 DEF Draft
<1>9. DraftSays'
  <2>1. CASE pinned
    <3>1. draft'.from = CurrentRefs
      BY <1>1, <1>5, <2>1 DEF Draft
    <3>2. \A s \in Stages : CurrentRefs[s] \in DOMAIN versions[s]
      BY <1>1, <1>5, <2>1, OpenGate
    <3>3. \A s \in Stages : draft'.from[s] \in DOMAIN versions'[s]
      BY <1>5, <3>1, <3>2
    <3> QED
      BY <1>2, <1>8, <3>3 DEF DraftSays
  <2>2. CASE ~pinned
    <3>1. draft'.from = draft.from
      BY <1>1, <1>5, <2>2 DEF Draft
    <3>2. draft'.from # NoRefs => \A s \in Stages : draft'.from[s] \in DOMAIN versions'[s]
      BY <1>5, <3>1 DEF FlowInv, DraftSays
    <3> QED
      BY <1>2, <1>8, <3>2 DEF DraftSays
  <2> QED
    BY <2>1, <2>2
<1>10. VersionsKept
  BY StagesAlone DEF FlowInv, ImportPlan
<1>11. BindingsOK' /\ \A x \in bindings' : x \in bindings \/ BaselineSays(x)'
  <2>1. CASE ~pinned
    <3>1. bindings' = bindings
      BY <1>5, <2>1
    <3> QED
      BY <1>1, <1>6, <1>10, <3>1, BindingsStay
  <2>2. CASE pinned
    <3>1. GateOpen
          /\ bindings' = bindings \cup {[baseline |-> merged, refs |-> CurrentRefs]}
      BY <1>5, <2>2
    <3>2. BindingsOK'
      BY <1>1, <1>5, <1>6, <3>1, BindingAdded
    <3>3. ASSUME NEW x \in bindings', x \notin bindings
          PROVE  BaselineSays(x)'
      <4>1. x.baseline = merged
        BY <3>1, <3>3
      <4> QED
        BY <1>2, <1>6, <4>1 DEF BaselineSays
    <3> QED
      BY <3>2, <3>3
  <2> QED
    BY <2>1, <2>2
<1> QED
  BY <1>5, <1>6, <1>7, <1>8, <1>9, <1>11, BaselineCommand DEF ImportPlan

LEMMA DecideBaselineInv ==
  ASSUME FlowInv, NEW b \in DOMAIN baselines, NEW k \in Kinds,
         NEW verdict \in Verdicts, DecideBaseline(b, k, verdict)
  PROVE  FlowInv'
<1> DEFINE verdicts == [baselines[b].verdicts EXCEPT ![k] = verdict]
           row == [baselines[b] EXCEPT !.verdicts = verdicts]
<1>1. BaselinesOK /\ BindingsOK /\ draft \in Draft
  BY TypeParts DEF FlowInv
<1>2. baselines \in Seq(Baseline) /\ baselines[b] \in Baseline /\ b \in Nat
      /\ b # 0
  BY <1>1 DEF BaselinesOK
<1>3. verdicts \in [Kinds -> Verdicts]
  BY <1>2 DEF Baseline
<1>4. /\ row \in Baseline /\ row.verdicts = verdicts
      /\ row.scope = baselines[b].scope /\ row.screens = baselines[b].screens
      /\ row.plan = baselines[b].plan
  BY <1>2, <1>3 DEF Baseline
<1>5. /\ baselines' = [baselines EXCEPT ![b] = row]
      /\ active' = NextActive(b, BothApproved(verdicts))
      /\ draft' = draft /\ bindings' = bindings
  BY DEF DecideBaseline
<1> HIDE DEF verdicts, row
<1>6. /\ baselines' \in Seq(Baseline) /\ DOMAIN baselines' = DOMAIN baselines
      /\ baselines'[b] = row
      /\ \A c \in DOMAIN baselines : c # b => baselines'[c] = baselines[c]
  BY <1>2, <1>4, <1>5
<1>7. BaselinesOK' /\ BaselinesKept
  <2>1. active' \in {0} \cup DOMAIN baselines
    BY <1>1, <1>5 DEF NextActive, BaselinesOK
  <2> QED
    BY <1>4, <1>6, <2>1 DEF BaselinesOK, BaselinesKept
<1>8. ActiveIsApproved'
  <2>1. CASE active' = b
    <3>1. BothApproved(verdicts)
      BY <1>2, <1>5, <2>1 DEF NextActive
    <3> QED
      BY <1>4, <1>6, <2>1, <3>1 DEF ActiveIsApproved, BothApproved
  <2>2. CASE active' # b /\ active' # 0
    <3>1. active' = active
      BY <1>5, <2>2 DEF NextActive
    <3>2. baselines'[active] = baselines[active]
      BY <1>1, <1>6, <2>2, <3>1 DEF BaselinesOK
    <3> QED
      BY <2>2, <3>1, <3>2 DEF FlowInv, ActiveIsApproved, BothApproved
  <2> QED
    BY <2>1, <2>2 DEF ActiveIsApproved
<1>9. VersionsKept
  BY StagesAlone DEF FlowInv, DecideBaseline
<1>10. DraftSays'
  BY <1>5, <1>9, DraftStays DEF FlowInv
<1>11. BindingsOK'
  BY <1>1, <1>5, <1>7, <1>9, BindingsStay
<1> QED
  BY <1>1, <1>5, <1>7, <1>8, <1>10, <1>11, BaselineCommand DEF DecideBaseline

\* Work starts and ends.
LEMMA WorkCommand ==
  ASSUME FlowInv, UNCHANGED <<pinned, stageVars, baselineVars>>,
         NEW t \in Tasks, NEW y \in Subject, y.refs \in {NoRefs, CurrentRefs},
         work' = [work EXCEPT ![t] = y]
  PROVE  FlowInv'
<1>1. work \in [Tasks -> Subject]
  BY TypeParts DEF FlowInv
<1>2. /\ work' \in [Tasks -> Subject] /\ work'[t] = y
      /\ \A o \in Tasks : o # t => work'[o] = work[o]
  BY <1>1
<1>3. VersionsOK' /\ VersionsKept /\ ThreadsOK' /\ CurrentRefs' = CurrentRefs
  BY StagesAlone DEF FlowInv
<1>4. draft' = draft /\ baselines' = baselines /\ active' = active
      /\ bindings' = bindings
  BY DEF baselineVars
<1>5. BaselinesOK' /\ BindingsOK' /\ draft' \in Draft
  BY <1>3, <1>4, TypeParts, NoBaselineChanges, BindingsStay DEF FlowInv, BaselinesOK
<1>6. TypeOK'
  BY <1>2, <1>3, <1>5, TypeParts, TypePartsNext DEF FlowInv
<1>7. WorkStaysOnItsSubject'
  BY <1>2, <1>3 DEF FlowInv, WorkStaysOnItsSubject
<1>8. ActiveIsApproved' /\ DraftSays'
  BY <1>3, <1>4, DraftStays DEF FlowInv, ActiveIsApproved
<1>9. BindingsTellTheTruth'
  BY <1>4 DEF FlowInv, BindingsTellTheTruth, ScopeOf, ScreensOf, stageVars
<1> QED
  BY <1>6, <1>7, <1>8, <1>9 DEF FlowInv

LEMMA StartWorkInv ==
  ASSUME FlowInv, NEW t \in Tasks, NEW b \in DOMAIN baselines, StartWork(t, b)
  PROVE  FlowInv'
<1> DEFINE y == [baseline |-> b, refs |-> IF pinned THEN CurrentRefs ELSE NoRefs]
<1>1. CurrentRefs \in Refs /\ NoRefs \in Refs /\ b \in Nat
  BY TypeParts, CurrentType, StagesType DEF FlowInv, BaselinesOK
<1>2. y \in Subject /\ y.refs \in {NoRefs, CurrentRefs}
  BY <1>1 DEF Subject
<1>3. work' = [work EXCEPT ![t] = y] /\ UNCHANGED <<pinned, stageVars, baselineVars>>
  BY DEF StartWork
<1> HIDE DEF y
<1> QED
  BY <1>2, <1>3, WorkCommand

LEMMA EndWorkInv ==
  ASSUME FlowInv, NEW t \in Tasks, EndWork(t)
  PROVE  FlowInv'
<1>1. Idle \in Subject /\ Idle.refs = NoRefs
  BY StagesType DEF Idle, Subject
<1> QED
  BY <1>1, WorkCommand DEF EndWork

LEMMA FlowInvStep == FlowInv /\ [Next]_vars => FlowInv'
<1> SUFFICES ASSUME FlowInv, [Next]_vars PROVE FlowInv'
  OBVIOUS
<1>1. CASE Pin
  BY <1>1, PinInv
<1>2. ASSUME NEW s \in Stages, NEW c \in Contents, NEW D \in SUBSET Stages,
             CreateArtifact(s, c, D)
      PROVE  FlowInv'
  <2>1. VersionsOK' /\ VersionsKept /\ ThreadsOK'
    BY <1>2, CreateArtifactStages DEF FlowInv
  <2>2. ProjectIdle /\ pinned' = pinned /\ UNCHANGED <<baselineVars, work>>
    BY <1>2 DEF CreateArtifact
  <2> QED
    BY <2>1, <2>2, TypeParts, StageCommand DEF FlowInv
<1>3. ASSUME NEW s \in Stages, NEW named \in SUBSET Threads, Approve(s, named)
      PROVE  FlowInv'
  <2>1. VersionsOK' /\ VersionsKept /\ ThreadsOK' /\ CurrentRefs' = CurrentRefs
    BY <1>3, ApproveStages DEF FlowInv
  <2>2. pinned' = pinned /\ UNCHANGED <<baselineVars, work>>
    BY <1>3 DEF Approve
  <2> QED
    BY <2>1, <2>2, TypeParts, StageCommand DEF FlowInv
<1>4. ASSUME NEW s \in Stages, Reject(s)
      PROVE  FlowInv'
  <2>1. VersionsOK' /\ VersionsKept /\ ThreadsOK' /\ CurrentRefs' = CurrentRefs
    BY <1>4, RejectStages DEF FlowInv
  <2>2. pinned' = pinned /\ UNCHANGED <<baselineVars, work>>
    BY <1>4 DEF Reject
  <2> QED
    BY <2>1, <2>2, TypeParts, StageCommand DEF FlowInv
<1>5. ASSUME NEW h \in Threads, NEW triage \in Triages, NEW v \in 0 .. MaxVersions,
             Triage(h, triage, v)
      PROVE  FlowInv'
  <2>1. VersionsOK' /\ VersionsKept /\ ThreadsOK' /\ CurrentRefs' = CurrentRefs
    BY <1>5, FlowAssumption, TriageStages DEF FlowInv
  <2>2. pinned' = pinned /\ UNCHANGED <<baselineVars, work>>
    BY <1>5 DEF Triage
  <2> QED
    BY <2>1, <2>2, TypeParts, StageCommand DEF FlowInv
<1>6. ASSUME NEW h \in Threads, NEW v \in 0 .. MaxVersions, NEW open \in BOOLEAN,
             NEW reply \in BOOLEAN, ImportThread(h, v, open, reply)
      PROVE  FlowInv'
  <2>1. VersionsOK' /\ VersionsKept /\ ThreadsOK' /\ CurrentRefs' = CurrentRefs
    BY <1>6, FlowAssumption, ImportThreadStages DEF FlowInv
  <2>2. pinned' = pinned /\ UNCHANGED <<baselineVars, work>>
    BY <1>6 DEF ImportThread
  <2> QED
    BY <2>1, <2>2, TypeParts, StageCommand DEF FlowInv
<1>7. CASE Materialize
  BY <1>7, MaterializeInv
<1>8. ASSUME NEW scope \in HandTexts \cup {draft.scope},
             NEW screens \in HandTexts \cup {draft.screens},
             NEW plan \in {None, draft.plan}, EditDraft(scope, screens, plan)
      PROVE  FlowInv'
  BY <1>8, EditDraftInv
<1>9. CASE Freeze
  BY <1>9, FreezeInv
<1>10. ASSUME NEW m \in Requirements, ImportRequirements(m)
       PROVE  FlowInv'
  BY <1>10, ImportRequirementsInv
<1>11. ASSUME NEW m \in Plans, ImportPlan(m)
       PROVE  FlowInv'
  BY <1>11, ImportPlanInv
<1>12. ASSUME NEW b \in DOMAIN baselines, NEW k \in Kinds,
              NEW verdict \in Verdicts \ {None}, DecideBaseline(b, k, verdict)
       PROVE  FlowInv'
  BY <1>12, DecideBaselineInv
<1>13. ASSUME NEW t \in Tasks, NEW b \in DOMAIN baselines, StartWork(t, b)
       PROVE  FlowInv'
  BY <1>13, StartWorkInv
<1>14. ASSUME NEW t \in Tasks, EndWork(t)
       PROVE  FlowInv'
  BY <1>14, EndWorkInv
<1>15. CASE UNCHANGED vars
  <2>1. VersionsOK' /\ VersionsKept /\ ThreadsOK' /\ CurrentRefs' = CurrentRefs
    BY <1>15, StagesAlone DEF FlowInv, vars, stageVars
  <2> QED
    BY <1>15, <2>1, TypeParts, StageCommand DEF FlowInv, vars, baselineVars
<1> QED
  BY <1>1, <1>2, <1>3, <1>4, <1>5, <1>6, <1>7, <1>8, <1>9, <1>10, <1>11, <1>12,
     <1>13, <1>14, <1>15 DEF Next

\* Every behaviour of the flow keeps the inductive invariant.
THEOREM FlowInvariant == Spec => []FlowInv
BY InitInv, FlowInvStep, PTL DEF Spec

-----------------------------------------------------------------------------
(* The invariants.                                                         *)

\* Every column of the project keeps its domain, for any template.
THEOREM FlowTypes == Spec => []TypeOK
<1>1. FlowInv => TypeOK
  BY DEF FlowInv
<1> QED
  BY <1>1, FlowInvariant, PTL

\* A reservation may rely on the active baseline: its newest decisions of both
\* kinds approve it, however they were given and withdrawn.
THEOREM ActiveBaselineIsApproved == Spec => []ActiveIsApproved
<1>1. FlowInv => ActiveIsApproved
  BY DEF FlowInv
<1> QED
  BY <1>1, FlowInvariant, PTL

\* No stage gets a new version under work that was started on its stages.
THEOREM WorkKeepsItsSubject == Spec => []WorkStaysOnItsSubject
<1>1. FlowInv => WorkStaysOnItsSubject
  BY DEF FlowInv
<1> QED
  BY <1>1, FlowInvariant, PTL

\* A baseline bound to stages, and without a plan, says what they say.
THEOREM BindingsAreTrue == Spec => []BindingsTellTheTruth
<1>1. FlowInv => BindingsTellTheTruth
  BY DEF FlowInv
<1> QED
  BY <1>1, FlowInvariant, PTL

-----------------------------------------------------------------------------
(* What a decision on a stage reaches.                                     *)

\* A step that changes stage s is a new version of s or a decision on it.
LEMMA StageStep ==
  ASSUME FlowInv, [Next]_vars, NEW s \in Stages, versions'[s] # versions[s]
  PROVE  \/ \E c \in Contents, D \in SUBSET Stages : CreateArtifact(s, c, D)
         \/ \E named \in SUBSET Threads : Approve(s, named)
         \/ Reject(s)
<1>1. ASSUME NEW r \in Stages, NEW c \in Contents, NEW D \in SUBSET Stages,
             CreateArtifact(r, c, D)
      PROVE  r = s
  BY <1>1, CreateArtifactStages DEF FlowInv
<1>2. ASSUME NEW r \in Stages, NEW verdict \in Verdicts, Current(r) > 0,
             Record(r, verdict)
      PROVE  r = s
  BY <1>2, TypeParts, RecordedVerdict DEF FlowInv
<1>3. ASSUME NEW r \in Stages, NEW named \in SUBSET Threads, Approve(r, named)
      PROVE  r = s
  BY <1>2, <1>3 DEF Approve, Verdicts
<1>4. ASSUME NEW r \in Stages, Reject(r)
      PROVE  r = s
  BY <1>2, <1>4 DEF Reject, Verdicts
<1>5. versions' # versions
  OBVIOUS
<1>6. \E r \in Stages :
        \/ \E c \in Contents, D \in SUBSET Stages : CreateArtifact(r, c, D)
        \/ \E named \in SUBSET Threads : Approve(r, named)
        \/ Reject(r)
  <2>1. Next
    BY <1>5 DEF vars
  <2> QED
    BY <1>5, <2>1 DEF Next, Pin, Triage, ImportThread, Materialize, EditDraft, Freeze,
       ImportRequirements, ImportPlan, DecideBaseline, StartWork, EndWork, stageVars
<1> QED
  BY <1>1, <1>3, <1>4, <1>6

\* A stage depends, directly or not, on no more than the stages it depends on
\* directly and those they depend on.
LEMMA UpstreamUnfolds ==
  ASSUME NEW s \in Stages
  PROVE  Upstream[s] \subseteq DependsOn[s] \cup UNION {Upstream[u] : u \in DependsOn[s]}
<1> DEFINE R == DependsOn[s] \cup UNION {Upstream[u] : u \in DependsOn[s]}
<1>1. \A u \in Stages : DependsOn[u] \subseteq Stages /\ Upstream[u] \subseteq Stages
  BY FlowAssumption DEF Upstream
<1>2. \A u \in Stages : DependsOn[u] \subseteq Upstream[u]
  BY <1>1 DEF Upstream
<1>3. ASSUME NEW u \in Stages, NEW v \in Upstream[u]
      PROVE  DependsOn[v] \subseteq Upstream[u]
  <2>1. \A U \in SUBSET Stages : DependsOn[u] \subseteq U /\ Closed(U) => v \in U
    BY <1>3 DEF Upstream
  <2>2. ASSUME NEW w \in DependsOn[v], NEW U \in SUBSET Stages,
               DependsOn[u] \subseteq U, Closed(U)
        PROVE  w \in U
    <3>1. v \in U
      BY <2>1, <2>2
    <3> QED
      BY <2>2, <3>1 DEF Closed
  <2>3. DependsOn[v] \subseteq Stages
    BY <1>1
  <2> QED
    BY <2>2, <2>3 DEF Upstream
<1>4. R \in SUBSET Stages
  BY <1>1
<1>5. ASSUME NEW v \in R
      PROVE  DependsOn[v] \subseteq R
  <2>1. CASE v \in DependsOn[s]
    BY <1>1, <1>2, <2>1
  <2>2. CASE \E u \in DependsOn[s] : v \in Upstream[u]
    BY <1>1, <1>3, <2>2
  <2> QED
    BY <2>1, <2>2
<1>6. DependsOn[s] \subseteq R /\ Closed(R)
  BY <1>5 DEF Closed
<1> HIDE DEF R
<1>7. Upstream[s] \subseteq R
  BY <1>4, <1>6 DEF Upstream
<1> QED
  BY <1>7 DEF R

\* The newest decision on s reaches s and all that depends on it.
LEMMA DecisionReaches ==
  ASSUME FlowInv, [Next]_vars, NEW s \in Stages, versions'[s] # versions[s]
  PROVE  IF versions'[s][Len(versions'[s])].verdict = "approved"
         THEN StageApproved(s)'
         ELSE \A d \in Stages : s \in {d} \cup Upstream[d] => ~StageApproved(d)'
<1>1. CASE versions'[s][Len(versions'[s])].verdict # "approved"
  BY <1>1 DEF StageApproved, Settled, Current
<1>2. CASE versions'[s][Len(versions'[s])].verdict = "approved"
  <2>1. VersionsOK
    BY TypeParts DEF FlowInv
  <2>2. PICK named \in SUBSET Threads : Approve(s, named)
    <3>1. ASSUME NEW c \in Contents, NEW D \in SUBSET Stages, CreateArtifact(s, c, D)
          PROVE  FALSE
      BY <1>2, <3>1, CreateArtifactStages DEF FlowInv, None
    <3>2. ASSUME Reject(s)
          PROVE  FALSE
      <4>1. /\ CurrentRefs' = CurrentRefs
            /\ versions'[s][Current(s)].verdict = "rejected"
        BY <2>1, <3>2, RecordedVerdict DEF Reject, Verdicts
      <4>2. Len(versions'[s]) = Current(s)
        BY <4>1 DEF CurrentRefs, Current
      <4> QED
        BY <1>2, <4>1, <4>2
    <3> QED
      BY <3>1, <3>2, StageStep
  <2>3. /\ Current(s) > 0 /\ BoundToCurrent(s)
        /\ \A u \in DependsOn[s] : StageApproved(u)
        /\ Record(s, "approved")
    BY <2>2 DEF Approve
  <2>4. /\ CurrentRefs' = CurrentRefs
        /\ versions'[s][Current(s)].verdict = "approved"
        /\ versions'[s][Current(s)].binds = versions[s][Current(s)].binds
        /\ \A u \in Stages : u # s => versions'[u] = versions[u]
    BY <2>1, <2>3, RecordedVerdict DEF Verdicts
  <2>5. \A u \in Stages : Current(u)' = Current(u)
    BY <2>4 DEF CurrentRefs, Current
  <2>6. Settled(s)'
    BY <2>3, <2>4, <2>5, FlowAssumption DEF Settled, BoundToCurrent
  <2>7. ASSUME NEW u \in Stages, Settled(u)
        PROVE  Settled(u)'
    <3>1. CASE u = s
      BY <2>6, <3>1
    <3>2. CASE u # s
      BY <2>4, <2>5, <2>7, <3>2, FlowAssumption DEF Settled, BoundToCurrent
    <3> QED
      BY <3>1, <3>2
  <2>8. ASSUME NEW u \in Upstream[s]
        PROVE  u \in Stages /\ Settled(u)
    <3>1. u \in Stages
      BY <2>8 DEF Upstream
    <3>2. CASE u \in DependsOn[s]
      BY <2>3, <3>1, <3>2 DEF StageApproved
    <3>3. CASE \E v \in DependsOn[s] : u \in Upstream[v]
      BY <2>3, <3>1, <3>3 DEF StageApproved
    <3>4. u \in DependsOn[s] \cup UNION {Upstream[v] : v \in DependsOn[s]}
      BY <2>8, UpstreamUnfolds
    <3> QED
      BY <3>1, <3>2, <3>3, <3>4
  <2> QED
    BY <1>2, <2>6, <2>7, <2>8 DEF StageApproved
<1> QED
  BY <1>1, <1>2

\* An approval makes its stage approved; a rejection or a new version takes the
\* approval from the stage and from all that depends on it, in any template.
THEOREM DecisionsReach == Spec => DecisionsReachDependants
<1>1. FlowInv /\ [Next]_vars =>
        \A s \in Stages :
          versions'[s] # versions[s] =>
            IF versions'[s][Len(versions'[s])].verdict = "approved"
            THEN StageApproved(s)'
            ELSE \A d \in Stages : s \in {d} \cup Upstream[d] => ~StageApproved(d)'
  BY DecisionReaches
<1> QED
  BY <1>1, FlowInvariant, PTL DEF Spec, DecisionsReachDependants

\* What an approval leaves open on its version is deferred for it.
LEMMA ApprovalSettles ==
  ASSUME FlowInv, [Next]_vars, NEW s \in Stages, versions'[s] # versions[s],
         versions'[s][Len(versions'[s])].verdict = "approved",
         NEW h \in OpenFeedback(s)'
  PROVE  threads'[h].deferred = Current(s)'
<1>1. VersionsOK
  BY TypeParts DEF FlowInv
<1>2. PICK named \in SUBSET Threads : Approve(s, named)
  <2>1. ASSUME NEW c \in Contents, NEW D \in SUBSET Stages, CreateArtifact(s, c, D)
        PROVE  FALSE
    BY <2>1, CreateArtifactStages DEF FlowInv, None
  <2>2. ASSUME Reject(s)
        PROVE  FALSE
    <3>1. /\ CurrentRefs' = CurrentRefs
          /\ versions'[s][Current(s)].verdict = "rejected"
      BY <1>1, <2>2, RecordedVerdict DEF Reject, Verdicts
    <3>2. Len(versions'[s]) = Current(s)
      BY <3>1 DEF CurrentRefs, Current
    <3> QED
      BY <3>1, <3>2
  <2> QED
    BY <2>1, <2>2, StageStep
<1>3. Current(s)' = Current(s)
  <2>1. CurrentRefs' = CurrentRefs
    BY <1>2, ApproveStages DEF FlowInv
  <2> QED
    BY <2>1 DEF CurrentRefs, Current
<1>4. /\ h \in Threads /\ StageOf[h] = s /\ threads'[h].open
      /\ threads'[h].triage # "resolved"
      /\ threads'[h].version \in {0, Current(s)}
  BY <1>3 DEF OpenFeedback
<1>5. threads[h] \in Thread
  BY <1>4, TypeParts DEF FlowInv, ThreadsOK
<1>6. threads' = [k \in Threads |->
                   IF k \in Blocking(s)
                   THEN [threads[k] EXCEPT !.triage = "deferred",
                                           !.deferred = Current(s)]
                   ELSE threads[k]]
  BY <1>2 DEF Approve
<1>7. CASE h \in Blocking(s)
  BY <1>3, <1>4, <1>5, <1>6, <1>7 DEF Thread
<1>8. CASE h \notin Blocking(s)
  <2>1. threads'[h] = threads[h]
    BY <1>4, <1>6, <1>8
  <2> QED
    BY <1>3, <1>4, <1>8, <2>1 DEF Blocking, DeferredFor
<1> QED
  BY <1>7, <1>8

\* An approval leaves no feedback open on its version that was not deferred for
\* this very version.
THEOREM FeedbackIsSettled == Spec => ApprovalSettlesFeedback
<1>1. FlowInv /\ [Next]_vars =>
        \A s \in Stages :
          (/\ Current(s) > 0
           /\ versions'[s] # versions[s]
           /\ versions'[s][Len(versions'[s])].verdict = "approved") =>
          \A h \in OpenFeedback(s)' : threads'[h].deferred = Current(s)'
  BY ApprovalSettles
<1> QED
  BY <1>1, FlowInvariant, PTL DEF Spec, ApprovalSettlesFeedback

===============================================================================
