----------------------------- MODULE DeliveryFlow -----------------------------
(***************************************************************************)
(* The flow of one Delivery OS project: stage artifacts and their          *)
(* approvals, the comment threads that hold an approval up, the draft, the *)
(* baselines frozen from it and their decisions, plans imported onto them, *)
(* and the gate that lets work start on an approved baseline of approved   *)
(* stages.                                                                 *)
(*                                                                         *)
(* Every command runs in one transaction under the row lock of the         *)
(* project, so a command is one action.  A command that is refused, or     *)
(* replays an earlier one, changes nothing and is a stuttering step.       *)
(*                                                                         *)
(* Hashes are taken for what is hashed.  The versions of a stage are       *)
(* numbered from 1 and never removed; version 0 is a null reference.  The  *)
(* clocks that date stage decisions agree: the newest row is the last one. *)
(*                                                                         *)
(* An operator named Fault... is a plausible mistake in the operator that  *)
(* follows it and is used by nothing.                                      *)
(***************************************************************************)
EXTENDS Naturals, Sequences, FiniteSets

CONSTANTS
  LastStage,    \* the approval stages are 1 (scope) to LastStage (design)
  DependsOn,    \* stage.dependsOn of the pinned template
  Contents,     \* what a stage artifact can say
  HandTexts,    \* what a user can type into a section of the draft
  Requirements, \* manifests of requirements proposals
  Plans,        \* manifests of plan proposals
  Threads,      \* comment threads at their source
  StageOf,      \* the stage every thread comments on
  Tasks,        \* the tasks of the project, each at most once at work
  MaxVersions,  \* versions of a stage at most
  MaxBaselines  \* baselines of the project at most

None   == "none"
Stages == 1 .. LastStage

ASSUME FlowAssumption ==
  /\ LastStage \in Nat \ {0}
  /\ DependsOn \in [Stages -> SUBSET Stages]
  /\ \A s \in Stages : \A u \in DependsOn[s] : u < s
  /\ StageOf \in [Threads -> Stages]
  /\ MaxVersions \in Nat /\ MaxBaselines \in Nat
  /\ None \notin Contents \cup HandTexts \cup Requirements \cup Plans

VARIABLES
  pinned,     \* whether a flow template is pinned
  versions,   \* the artifacts of every stage, oldest first, with the newest
              \* decision on each
  threads,    \* the imported comment threads
  draft,      \* project.draftSpec
  baselines,  \* the frozen baselines, by version, with their decisions
  active,     \* the version of project.activeBaselineId; 0: null
  bindings,   \* which baseline is bound to which versions of the stages
  work        \* what every task that executes was started on

vars == <<pinned, versions, threads, draft, baselines, active, bindings, work>>

stageVars    == <<versions, threads>>
baselineVars == <<draft, baselines, active, bindings>>

Verdicts == {None, "approved", "rejected"}
Kinds    == {"requirements", "design"}
Triages  == {"new", "triaged", "deferred", "resolved"}

Refs   == [Stages -> Nat]   \* one version of every stage; 0: none
NoRefs == [s \in Stages |-> 0]

Artifact == [content : Contents,
             binds   : Refs,       \* the upstream versions it is built on
             verdict : Verdicts]

NotImported == [known |-> FALSE, version |-> 0, open |-> FALSE,
                triage |-> "new", deferred |-> 0]

Thread == [known    : BOOLEAN,
           version  : Nat,         \* thread.artifactId; 0: null
           open     : BOOLEAN,     \* thread.sourceStatus
           triage   : Triages,
           deferred : Nat]         \* thread.deferral.artifactId; 0: null

Manifests == Requirements \cup Plans
Sections  == Contents \cup HandTexts \cup Requirements \cup {None}

Draft == [scope   : Sections,      \* requirements, criteria and risks
          screens : Sections,      \* screens and tokens
          plan    : Plans \cup {None},
          from    : Refs]             \* flowBaseline: the versions the draft was
                                  \* materialized from, if untouched

Baseline == [scope    : Sections,
             screens  : Sections,
             plan     : Plans \cup {None},
             imports  : SUBSET Manifests,  \* content.importedManifests
             parent   : Nat,
             verdicts : [Kinds -> Verdicts]]

Subject == [baseline : Nat, refs : Refs]
Idle    == [baseline |-> 0, refs |-> NoRefs]

Init ==
  /\ pinned = FALSE
  /\ versions = [s \in Stages |-> <<>>]
  /\ threads = [h \in Threads |-> NotImported]
  /\ draft = [scope |-> None, screens |-> None, plan |-> None, from |-> NoRefs]
  /\ baselines = <<>>
  /\ active = 0
  /\ bindings = {}
  /\ work = [t \in Tasks |-> Idle]

-----------------------------------------------------------------------------
(* Which stages are approved.                                              *)

Current(s) == Len(versions[s])
CurrentRefs == [s \in Stages |-> Current(s)]

BoundToCurrent(s) ==
  \A u \in DependsOn[s] : versions[s][Current(s)].binds[u] = Current(u)

\* The newest version of stage s is approved and built on the newest versions
\* of the stages it depends on.
Settled(s) ==
  /\ Current(s) > 0
  /\ versions[s][Current(s)].verdict = "approved"
  /\ BoundToCurrent(s)

FaultStageApproved(s) == Settled(s)

Closed(U) == \A u \in U : DependsOn[u] \subseteq U

\* The stages that s depends on, directly or not: the least closed set with
\* those it depends on directly.
Upstream ==
  [s \in Stages |-> {u \in Stages : \A U \in SUBSET Stages :
                       DependsOn[s] \subseteq U /\ Closed(U) => u \in U}]

\* The currency of s is `approved`: s is settled, and so is all it depends on.
StageApproved(s) == \A u \in {s} \cup Upstream[s] : Settled(u)

GateOpen == \A s \in Stages : StageApproved(s)

-----------------------------------------------------------------------------
(* Stages.                                                                 *)

\* No version is checked, and no task: a project with baselines, and with work
\* under way, can be pinned.
Pin ==
  /\ ~pinned
  /\ pinned' = TRUE
  /\ UNCHANGED <<stageVars, baselineVars, work>>

FaultProjectIdle == TRUE
ProjectIdle == \A t \in Tasks : work[t] = Idle

\* A new version of stage s.  It binds the current, approved versions of the
\* stages in D, which may be more than the template asks for.  What was
\* submitted before, as it is, is answered with the version it made then, even
\* if that is no longer the current one.
CreateArtifact(s, c, D) ==
  LET artifact == [content |-> c, verdict |-> None,
                   binds |-> [u \in Stages |-> IF u \in D THEN Current(u)
                                                          ELSE 0]] IN
  /\ pinned
  /\ Current(s) < MaxVersions
  /\ D \subseteq 1 .. (s - 1) /\ DependsOn[s] \subseteq D
  /\ \A i \in 1 .. Current(s) :
       \/ versions[s][i].content # c
       \/ versions[s][i].binds # artifact.binds
  /\ \A u \in D : StageApproved(u)
  /\ ProjectIdle
  /\ versions' = [versions EXCEPT ![s] = Append(@, artifact)]
  /\ UNCHANGED <<pinned, threads, baselineVars, work>>

FaultDeferredFor(h, s) == threads[h].triage = "deferred"

\* A deferral counts for the version it was recorded for, and for no other.
DeferredFor(h, s) ==
  threads[h].triage = "deferred" /\ threads[h].deferred = Current(s)

\* The threads that hold up an approval of the current version of s.
Blocking(s) ==
  {h \in Threads :
     /\ StageOf[h] = s
     /\ threads[h].open
     /\ threads[h].triage # "resolved"
     /\ threads[h].version \in {0, Current(s)}
     /\ ~DeferredFor(h, s)}

Record(s, verdict) ==
  versions' = [versions EXCEPT ![s][Current(s)].verdict = verdict]

\* The current version is approved; the request names threads it defers, and
\* must name all that block it.
Approve(s, named) ==
  /\ pinned
  /\ Current(s) > 0
  /\ \A u \in DependsOn[s] : StageApproved(u)
  /\ BoundToCurrent(s)
  /\ \A h \in named : threads[h].known /\ StageOf[h] = s
  /\ Blocking(s) \subseteq named
  /\ Record(s, "approved")
  /\ threads' = [h \in Threads |->
                   IF h \in Blocking(s)
                   THEN [threads[h] EXCEPT !.triage = "deferred",
                                           !.deferred = Current(s)]
                   ELSE threads[h]]
  /\ UNCHANGED <<pinned, baselineVars, work>>

\* A rejection asks for nothing; work under way goes on.
Reject(s) ==
  /\ pinned
  /\ Current(s) > 0
  /\ Record(s, "rejected")
  /\ UNCHANGED <<pinned, threads, baselineVars, work>>

\* A user triages a thread; a deferral may name any version of its stage.
Triage(h, triage, v) ==
  /\ threads[h].known
  /\ IF triage = "deferred" THEN v \in 1 .. Current(StageOf[h]) ELSE v = 0
  /\ threads' = [threads EXCEPT ![h].triage = triage, ![h].deferred = v]
  /\ UNCHANGED <<pinned, versions, baselineVars, work>>

FaultImported(h, triage) == [threads[h] EXCEPT !.triage = triage]

\* A thread whose triage starts again loses its deferral.
Imported(h, triage) ==
  IF triage = "new" THEN [threads[h] EXCEPT !.triage = "new", !.deferred = 0]
                    ELSE [threads[h] EXCEPT !.triage = triage]

\* A page of comments brings thread h as it is at its source: open or not, with
\* a new reply or not, and about version v of its stage or about no known one.
\* A reopened thread and a new reply have to be triaged again.  A page for
\* another stage skips the thread.
ImportThread(h, v, open, reply) ==
  LET triage == IF threads[h].known => reply \/ (open /\ ~threads[h].open)
                THEN "new" ELSE threads[h].triage IN
  /\ pinned
  /\ v <= Current(StageOf[h])
  /\ threads' = [threads EXCEPT ![h] =
       [Imported(h, triage) EXCEPT !.known = TRUE, !.version = v, !.open = open]]
  /\ UNCHANGED <<pinned, versions, baselineVars, work>>

-----------------------------------------------------------------------------
(* The draft and its baselines.                                            *)

\* The sections of a draft made from these versions of the stages.
ScopeOf(refs)   == versions[1][refs[1]].content
ScreensOf(refs) == versions[LastStage][refs[LastStage]].content

Materialize ==
  /\ pinned /\ GateOpen
  /\ draft' = [scope |-> ScopeOf(CurrentRefs), screens |-> ScreensOf(CurrentRefs),
               plan |-> None, from |-> CurrentRefs]
  /\ UNCHANGED <<pinned, stageVars, baselines, active, bindings, work>>

FaultEdited(scope, screens, plan) ==
  [draft EXCEPT !.scope = scope, !.screens = screens, !.plan = plan]

\* An edited draft has no provenance, or one whose hash no longer fits; either
\* is refused.
Edited(scope, screens, plan) ==
  [scope |-> scope, screens |-> screens, plan |-> plan, from |-> NoRefs]

\* A user edits the draft, or an import of designs starts on it or ends.
EditDraft(scope, screens, plan) ==
  /\ draft' = Edited(scope, screens, plan)
  /\ UNCHANGED <<pinned, stageVars, baselines, active, bindings, work>>

Undecided == [k \in Kinds |-> None]

\* The baseline row with this content: the one there is, or a new one.
RowOf(content) ==
  LET same == {b \in DOMAIN baselines :
                 [baselines[b] EXCEPT !.verdicts = Undecided] = content} IN
  IF same = {} THEN Len(baselines) + 1 ELSE CHOOSE b \in same : TRUE

FaultDraftIsCurrent == draft.from # NoRefs
DraftIsCurrent == draft.from = CurrentRefs

\* The draft becomes a baseline.  In a pinned project it must be what the
\* approved stages say, and the baseline is bound to them.
Freeze ==
  LET content == [scope |-> draft.scope, screens |-> draft.screens,
                  plan |-> draft.plan, imports |-> {}, parent |-> 0,
                  verdicts |-> Undecided]
      b == RowOf(content) IN
  /\ draft.scope # None /\ draft.screens # None
  /\ b <= MaxBaselines
  /\ pinned => GateOpen /\ DraftIsCurrent
  /\ baselines' = IF b \in DOMAIN baselines THEN baselines
                                            ELSE Append(baselines, content)
  /\ bindings' = IF pinned
                 THEN bindings \cup {[baseline |-> b, refs |-> CurrentRefs]}
                 ELSE bindings
  /\ UNCHANGED <<pinned, stageVars, draft, active, work>>

NotImportedYet(m) == \A b \in DOMAIN baselines : m \notin baselines[b].imports

\* A proposal of requirements replaces the scope of the draft and is frozen at
\* once, bound to nothing.
ImportRequirements(m) ==
  LET merged == Edited(m, draft.screens, draft.plan) IN
  /\ NotImportedYet(m)
  /\ Len(baselines) < MaxBaselines
  /\ draft' = merged
  /\ baselines' = Append(baselines,
       [scope |-> merged.scope, screens |-> merged.screens,
        plan |-> merged.plan, imports |-> {m}, parent |-> 0,
        verdicts |-> Undecided])
  /\ UNCHANGED <<pinned, stageVars, active, bindings, work>>

BothApproved(verdicts) == \A k \in Kinds : verdicts[k] = "approved"

\* A plan for the active baseline makes a new one: its parent with the plan.
\* The plan also goes into the draft, whatever else that says.  In a pinned
\* project the new baseline is bound to the current stages, and the draft is
\* marked as made from them.
ImportPlan(m) ==
  LET merged == Len(baselines) + 1 IN
  /\ NotImportedYet(m)
  /\ merged <= MaxBaselines
  /\ active # 0 /\ BothApproved(baselines[active].verdicts)
  /\ pinned => GateOpen
  /\ baselines' = Append(baselines,
       [baselines[active] EXCEPT !.plan = m, !.imports = @ \cup {m},
                                 !.parent = active, !.verdicts = Undecided])
  /\ IF pinned
     THEN /\ bindings' =
               bindings \cup {[baseline |-> merged, refs |-> CurrentRefs]}
          /\ draft' = [draft EXCEPT !.plan = m, !.from = CurrentRefs]
     ELSE /\ draft' = [draft EXCEPT !.plan = m]
          /\ UNCHANGED bindings
  /\ UNCHANGED <<pinned, stageVars, active, work>>

FaultNextActive(b, approved) == IF approved /\ active <= b THEN b ELSE active

\* An approved baseline becomes active unless a later one is; the active one
\* stops being active when one of its approvals is withdrawn.
NextActive(b, approved) ==
  IF approved /\ active <= b THEN b
  ELSE IF active = b THEN 0 ELSE active

DecideBaseline(b, k, verdict) ==
  LET verdicts == [baselines[b].verdicts EXCEPT ![k] = verdict] IN
  /\ baselines' = [baselines EXCEPT ![b].verdicts = verdicts]
  /\ active' = NextActive(b, BothApproved(verdicts))
  /\ UNCHANGED <<pinned, stageVars, draft, bindings, work>>

-----------------------------------------------------------------------------
(* Work.                                                                   *)

\* A ready task of baseline b is reserved: b is active and, in a pinned
\* project, bound to the approved stages as they are now.
StartWork(t, b) ==
  /\ work[t] = Idle
  /\ b = active /\ b # 0
  /\ baselines[b].screens # None
  /\ pinned => GateOpen /\ [baseline |-> b, refs |-> CurrentRefs] \in bindings
  /\ work' = [work EXCEPT ![t] =
                [baseline |-> b, refs |-> IF pinned THEN CurrentRefs ELSE NoRefs]]
  /\ UNCHANGED <<pinned, stageVars, baselineVars>>

\* The attempt of the task ends, with a result or without.
EndWork(t) ==
  /\ work[t] # Idle
  /\ work' = [work EXCEPT ![t] = Idle]
  /\ UNCHANGED <<pinned, stageVars, baselineVars>>

-----------------------------------------------------------------------------
Next ==
  \/ Pin
  \/ \E s \in Stages :
       \/ \E c \in Contents, D \in SUBSET Stages : CreateArtifact(s, c, D)
       \/ \E named \in SUBSET Threads : Approve(s, named)
       \/ Reject(s)
  \/ \E h \in Threads :
       \/ \E triage \in Triages, v \in 0 .. MaxVersions : Triage(h, triage, v)
       \/ \E v \in 0 .. MaxVersions, open, reply \in BOOLEAN :
            ImportThread(h, v, open, reply)
  \/ Materialize
  \/ \E scope \in HandTexts \cup {draft.scope},
        screens \in HandTexts \cup {draft.screens},
        plan \in {None, draft.plan} : EditDraft(scope, screens, plan)
  \/ Freeze
  \/ \E m \in Requirements : ImportRequirements(m)
  \/ \E m \in Plans : ImportPlan(m)
  \/ \E b \in DOMAIN baselines, k \in Kinds, verdict \in Verdicts \ {None} :
       DecideBaseline(b, k, verdict)
  \/ \E t \in Tasks :
       \/ \E b \in DOMAIN baselines : StartWork(t, b)
       \/ EndWork(t)

Spec == Init /\ [][Next]_vars

-----------------------------------------------------------------------------
(* Properties.                                                             *)

\* Every column keeps its domain.  A thread is deferred exactly when it names
\* the version it is deferred for, and names only versions there are; so do
\* artifacts and bindings.
TypeOK ==
  /\ pinned \in BOOLEAN
  /\ versions \in [Stages -> Seq(Artifact)]
  /\ \A s, u \in Stages : \A i \in DOMAIN versions[s] :
       versions[s][i].binds[u] <= Current(u)
  /\ threads \in [Threads -> Thread]
  /\ \A h \in Threads :
       /\ threads[h].triage = "deferred" <=> threads[h].deferred # 0
       /\ ~threads[h].known => threads[h] = NotImported
       /\ threads[h].version <= Current(StageOf[h])
       /\ threads[h].deferred <= Current(StageOf[h])
  /\ draft \in Draft
  /\ baselines \in Seq(Baseline)
  /\ active \in {0} \cup DOMAIN baselines
  /\ bindings \subseteq [baseline : DOMAIN baselines, refs : Refs]
  /\ \A x \in bindings : \A s \in Stages : x.refs[s] \in DOMAIN versions[s]
  /\ work \in [Tasks -> Subject]

\* The active baseline is the one whose newest decisions both approve, so a
\* reservation need not look at the decisions again (attempts.ts:225).
ActiveIsApproved == active # 0 => BothApproved(baselines[active].verdicts)

\* While a task of a pinned project is at work, the stages it was started on
\* stay the current ones: nobody submits a new version under it
\* (stages.ts:377).
WorkStaysOnItsSubject ==
  \A t \in Tasks : work[t].refs # NoRefs => work[t].refs = CurrentRefs

\* A bound baseline without a plan says what the versions it is bound to say:
\* neither an edit of the draft nor a new version of a stage gets past the
\* provenance check (flowBaseline.ts:21).
BindingsTellTheTruth ==
  \A x \in bindings :
    baselines[x.baseline].plan = None =>
      /\ baselines[x.baseline].scope   = ScopeOf(x.refs)
      /\ baselines[x.baseline].screens = ScreensOf(x.refs)

\* A plan is imported onto the stages its baseline was approved for
\* (flowBaseline.ts:30: "A plan import keeps the same approved stages").
PlanKeepsItsStages ==
  \A x \in bindings :
    LET parent == baselines[x.baseline].parent IN
    parent # 0 => [baseline |-> parent, refs |-> x.refs] \in bindings

\* An approval makes its stage approved.  A new version and a rejection take
\* the approval from their stage and from every stage that depends on it,
\* however far down (flowRules.ts:81, lib/stageDecisions.ts:295).
DecisionsReachDependants ==
  [][\A s \in Stages :
       versions'[s] # versions[s] =>
         IF versions'[s][Len(versions'[s])].verdict = "approved"
         THEN StageApproved(s)'
         ELSE \A d \in Stages : s \in {d} \cup Upstream[d] =>
                ~StageApproved(d)']_vars

\* Feedback is open on the current version of s and nobody has resolved it.
OpenFeedback(s) ==
  {h \in Threads :
     /\ StageOf[h] = s /\ threads[h].open
     /\ threads[h].triage # "resolved"
     /\ threads[h].version \in {0, Current(s)}}

\* Once a stage is approved, all feedback open on its version has been
\* deferred for this version, by the approval or by a user before it; a
\* deferral of an earlier version does not count (lib/stageDecisions.ts:96).
ApprovalSettlesFeedback ==
  [][\A s \in Stages :
       (/\ Current(s) > 0
        /\ versions'[s] # versions[s]
        /\ versions'[s][Len(versions'[s])].verdict = "approved") =>
       \A h \in OpenFeedback(s)' : threads'[h].deferred = Current(s)']_vars
=============================================================================
