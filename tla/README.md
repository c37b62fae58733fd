# Delivery OS and the services under it: a verification project

TLA+ models of the *autonomous software house* built on Open Mercato and of two platform services whose protocols are of the
same kind, with TLC configurations that check them on small instances and TLAPS proofs of their main properties for every
instance.

The repository is a large business platform: some eight thousand implementation files, most of them records, forms, pages and
generators. What it has that is hard is small and concentrated, and the project models that:

* the delivery product: Delivery OS (`src/packages/core/src/modules/delivery_os`), which runs a software project as a flow of
  approved stages and a board of tasks, and the delivery agents (`src/packages/enterprise/src/modules/delivery_agents`), which
  let machines work on these tasks through the workflow engine, the job queue and the scheduler;
* the local job queue (`src/packages/queue/src/strategies/local.ts`), shared by processes through files and a lock directory;
* payments (`src/packages/core/src/modules/payment_gateways`), where a retry or a race costs money.

## 1. Inventory

### Modelled

| Component | State it keeps | Operations | Talks to |
|---|---|---|---|
| **Project flow** (`delivery_os/commands/{stages,flow,comments,flowBaseline,flowExecutionGate,baselines,planImport,decisions}.ts`, `lib/{flowRules,stageArtifacts,stageDecisions,commentImport,flowBaseline,baseline}.ts`) | versions of the stage artifacts and their decisions; comment threads; the draft; baselines, their decisions and bindings; the active baseline | pin a flow, submit an artifact, approve, reject, import and triage comments, make a draft from the stages, edit it, freeze it, import requirements or a plan, decide on a baseline; the gate for work | rows of one project, one transaction per command under its row lock |
| **Task board** (`delivery_os/commands/{tasks,attempts,reconcile,evidence}.ts`, `lib/{taskLifecycle,dag,attempts,acProof}.ts`) | per task: status and its reason, dependencies, baseline, register of execution attempts; evidence rows: results, tests, manual checks, reviews; per project: active baseline, flow, limits | create, edit, change status, delete; reserve, claim, link workflow, mark delivered, cancel, accept result; reconcile (not started, stopped, completed, unknown); record test, review, approve | PostgreSQL rows, one transaction per command under row locks; emits `evidence.recorded` after the commit |
| **Automatic execution** (`delivery_agents/lib/executionBridge.ts`, `workers/*`, `subscribers/evidence-recorded.ts`) | jobs in the `execute` and `resume` queues; otherwise only the board and the workflow instances | start execution (eight steps), execute a job, resume an attempt, scan pending deliveries, scan stuck attempts | commands of the board, workflow engine, queue, executor host |
| **Workflow engine**, as far as the delivery workflow needs it (`workflows/lib/{workflow-executor,signal-handler}.ts`) | instance: owner, where it stands | start, execute up to the wait step, signal | database rows; `executeWorkflow` under a row lock, `sendSignal` without |
| **Local queue** (`queue/src/strategies/local.ts`) | `queue.json`, `state.json`, the directory `queue.lock` with its owner token; per instance, the batch in memory | enqueue, clear, remove by scope, process in batches; acquire, find stale, reclaim, release | the file system, shared by processes; handlers |
| **Payments** (`payment_gateways/lib/{gateway-service,capture-ledger,payment-operation-idempotency,status-machine,webhook-processor,webhook-utils}.ts`, `workers/status-poller.ts`) | the transaction's status and ledger of captured money; operation rows with lease and token; webhook event rows | capture, refund, cancel; webhook job, status poll | database, compare-and-swap on ledger and claims; the provider, called between two transactions |

What makes them correct:

* *Flow*: an approval holds exactly as long as everything it was built on does; feedback is deferred for one version, not for
  good; a baseline bound to stages says what they say; work keeps the stages it was started on; the active baseline is approved.
* *Board*: status and attempt register, two columns written by different commands, tell one story; work starts only on verified
  work, through the gates as they stand; one run at a time and one result per correction round; a late result changes nothing;
  blocks reach everything downstream and are lifted exactly when the last cause is gone; what is done stays done; an approval
  looks at the newest result; an escalation stays.
* *Execution*: an attempt starts the executor at most once, though jobs are delivered at least once; a job is queued only when
  something waits for its result; a delivery is ticked off only when the workflow moved on; a workflow that waits is told in the
  end, though events are lost and workers die.
* *Queue*: two sections never overlap; no job is lost, doubled or brought back by somebody's write; a job leaves by success,
  by its last failure or by removal, and leaves in the end.
* *Payments*: no money is taken that the ledger does not account for; one live attempt per operation; a settled operation stays
  settled; an event that was claimed is handled.

### Not modelled

| Component | Why not, and what would be worth stating |
|---|---|
| Publications and the publish gate (`commands/{publications,publicationGate,candidates}.ts`) | next in the plan: published only with current consent for exactly this content and revision |
| Intake, briefs, reports, design reviews, staff board link, project workflow templates | content and derived documents, one transaction each; an unfinished design import that keeps the draft from being frozen belongs here too |
| BullMQ strategy of the queue | the protocol is that of a third-party library |
| Event bus, scheduler (`events/src`, `scheduler/src`) | the execution model has an announcement as delivered or lost, and a scan as something that happens again and again |
| Outgoing webhooks (`webhooks/lib`), sessions of payments | retries and de-duplication; the creation of a payment session has its own idempotency |
| Data synchronisation, progress (`data_sync/lib`, `progress`) | a run ends; the cursor never runs ahead of what was imported |
| Record locks (`record_locks/lib`) | one holder; no silent overwrite |
| The rest of the workflow engine; agent orchestrator; executor hosts | branches, timers and compensation are not used by the delivery workflow; hosts and language models are external |
| Accounts, business records, channels, search, caches, user interface, command line, generators | no protocol that the parts above depend on, or pure input and output; permissions are an assumption: the models contain only permitted calls |

`PROJECT.json` lists every component with its status, and the hazards of the code with the properties that watch them.

## 2. The modules

| Module | What it is |
|---|---|
| `DeliveryFlow` | stages, feedback, draft, baselines and the gate of one project |
| `DeliveryFlowProofs` | all six properties of the flow, for all constants |
| `DeliveryTasks` | the task board of one project, one action per command |
| `TaskPromise` | what the board promises, in seven phases per task and eight actions |
| `DeliveryTasksProofs` | type correctness and `PrerequisitesVerified` |
| `DeliveryRegisterProofs` | extends it: status, register, results and rounds of every task fit together |
| `DeliveryPromiseProofs` | extends it: the graph stays sound, the board keeps its promise, and its action properties |
| `DeliveryExecution` | extends the board by the bridge, the workers, the instances and the scans |
| `HandoverPromise` | what the execution promises of an attempt: nine stages, and what each needs |
| `DeliveryExecutionProofs` | the executor starts once; the execution is a use of the board |
| `DeliveryHandoverProofs` | extends it: jobs are awaited, the marks of the register are true, the handover keeps its promise, and the board what it keeps without machines |
| `QueueLock` | the directory lock alone |
| `LocalQueue` | extends the lock by the files, the batches and the handlers |
| `QueuePromise` | what a queue promises of its jobs, in five actions |
| `LocalQueueProofs` | the queue uses the lock, the lock excludes, the queue keeps its promise, attempts and counters add up |
| `PaymentGateways` | one payment: calls, operations, ledger, webhooks, polls |
| `CapturePromise` | what captures promise of the authorized money, in five actions |
| `PaymentGatewaysProofs` | attempts, operations, events, reservations, the ledger, and the captures keep their promise |
| `MC...` | symmetry sets and the constraints that say what an instance looks at |

`DeliveryFlow` and `DeliveryTasks` meet at the gate: the board has `flowOpen` and `active`, which change at any time; the flow
says what they depend on, and has of a task only what it was started on.

### `DeliveryFlow`

The versions of a stage are a sequence, numbered like the rows; `Settled` and `StageApproved` are `computeStageCurrency`, which
asks of a stage that its newest version is approved, is bound to the newest versions of the stages it depends on, and that these
are approved in turn. `Upstream` says "in turn" as the least closed set: no recursion, so the module can be proved about. Hashes
stand for what they hash: a binding is a set of version numbers, the provenance of the draft (`draft.from`) is the versions it
was made from, or none once its hash no longer fits.

`CreateArtifact` is `planStageArtifact`, with the check of `checkProjectArchivable` that no work is under way. What was submitted
before, with the same bindings, is answered with its old version, which does not become current again
(`lib/stageArtifacts.ts:167`). `Approve` is `planStageDecision` with its deferrals; `Blocking` is `blockingThreadsFor`.
`ImportThread` is one thread of one page of `planCommentThread`. `Freeze`, `ImportRequirements` and `ImportPlan` are the three
ways to a baseline (`Freeze` leaves out `assertDraftImportComplete`, and so only permits more); `RowOf` finds the row with the same content hash. `DecideBaseline` appends a decision and recomputes the
active baseline. `StartWork` is `checkFlowExecutionGate`.

Abstracted: the approvals of clients and the permission of approvers (a recorded approval has them), the sections of the draft
(two stand for all), tasks other than what they run on. Replays change nothing. *The clocks of stage decisions agree*:
`stages.ts:570` dates a decision with `new Date()`, without the guard of `decisions.ts:131` that keeps the decisions on baselines
in order; with clocks apart the newest row need not be the last one written. Pinning a flow asks neither for idle tasks nor for
an empty project (`flow.ts:137`), and the model does not either.

### `DeliveryTasks`

Every command of the code locks the task row (and, where it looks at other tasks, the project row and all its tasks) and does
its work in one transaction, so a command is one action; a command that is refused, or replays an earlier request, changes
nothing and is a stuttering step. The variables are columns and carry their names: `status`, `reason` (`statusReason`), `deps`
(`dependsOnTaskIds`), `baseline`, `attempts` (`executionAttempts`), the evidence rows as `results`, `checks`, `manual` and the
count `rounds`, and of the project row `active`, `flowOpen` and `limit`. An attempt is a record of what the rules look at: key,
state, worker, workflow, whether it was dispatched, whether a cancellation was asked for, how it was reconciled, whether it has a
result, and whether the result is still owed to a workflow.

A status change and the propagation of blocks over the graph are one transaction and one action (`Move`). `CanMove` is
`canTransition` with its table, `ReadyGate` is `checkReadyGate`. `Reachable` states the transitive closure as the intersection
of all closed sets.

Abstracted: hashes and paths of a manifest (a result names its revision), acceptance criteria (one per task, with a test and
perhaps a manual check), who reviews, timestamps (sequences give the order), refusals by the optimistic lock (a refusal changes
nothing), the archiving of a whole project.

### `DeliveryExecution`

The bridge and the workers are sequences of transactions and calls with nothing around them: each step is an action, and
anything may happen in between, the death of the process included. `call[c]` says how far a request in `startExecution` is:
look for an instance, start one, link it, check again, execute it to the wait step, confirm that it is parked, enqueue the job,
mark as dispatched. `job[j]` is a job of the execute queue, `resume[h]` a handler of the resume queue, `instances` the workflow
instances, `wakes` the attempts the resume queue has a job for. `starts` is a history variable: how often the executor was
started for an attempt.

The queue is at-least-once: `CrashJob` and `CrashResume` put the job back. The announcement after a result (`Announce`) may be
lost; importing the same result again changes nothing and is announced again (`RepeatResult`). `sendSignal` is three actions,
because it reads the instance without a lock and writes it many awaits later; its last may fail after the instance has moved
(`FinishSignal`). The conditional claim (`attempts.claim`), the acceptance and the reconciliation are the actions of the board.

What decides whether a pending delivery is ever made is all in the model. A result is recorded by a user or by a caller without
the id of one, an API key for instance (`Recorders`); `signed` holds the attempts whose result names a user, and a resume handler
leaves the others as they are (`resume-attempt.ts:122-126`). The resume job asks the project again (`FlowAllows`: active baseline,
stage gate, no other open attempt). The scan lists the pending deliveries by task and attempt, and stops at `ScanLimit`, which in
the code is 100 (`pending-delivery-scan.ts:30`).

`HandoverPromise` is the way of one attempt seen from outside: which of nine stages it has reached (linked, parked, queued,
dispatched, claimed, started, answered, told, delivered), what each stage needs, and that linking, dispatching and claiming end
with the result. There are no requests, jobs or crashes in it. `Reached` reads the stages off the register, the queue, the
instances and `starts`.

### `QueueLock`, `LocalQueue`, `QueuePromise`

`QueueLock` is `acquireDirectoryLock`, `reclaimStaleLock` and `releaseDirectoryLock`: mkdir, the owner token, the reading of the
age, the rename aside, the check of the token and the removal are steps of their own. A directory becomes old when its maker is
gone; whether it may also do so under a maker that stalls (`Stalls`), and whether a waiter that has read an old age may then move
a *fresh* directory aside (`Overtakes`), are constants. The code excludes neither; the run `queue_lock_doc` shows what the second
does. The run `queue` looks at the queue without them, and section 4 says what the theorems make of them.

`LocalQueue` runs every change of the files as a section in that lock (`runExclusively`): read the file, write it whole, count,
leave; one section per instance at a time, as `fileOpChain` has it. `Poll` and `FinishBatch` are the two sections of
`processBatch`, with the handlers between them, outside the lock. A crash loses the memory of a process and leaves files and lock
behind; file access may fail anywhere. Jobs are values of a function, since the order in the file only says what is handled
first. Left out: `process` with a limit (one batch on request), `close`, and the quarantine of a file that does not parse, which
needs a write from outside the lock.

`QueuePromise` is what the rest of the system relies on: accepted jobs wait, handlers succeed or fail with them, possibly more than
once, and only what has succeeded, failed `MaxAttempts` times or been withdrawn stops waiting. It is the at-least-once queue
that `DeliveryExecution` assumes.

### `PaymentGateways`

A call of capture, refund or cancel is the sequence `executeManualOperation` runs: read the payment, claim the operation (insert
its row, replay it, wait for it, or reclaim it when it failed or its lease ran out), reserve the amount by a compare-and-swap on
the ledger, call the provider, complete in one transaction, or release and fail. The provider is external: it takes money once
per idempotency key, and answers, or does not. `writer[w]` is a webhook job or a poll, which reads the payment, asks, and writes
without a lock. Money is counted in units. What can go wrong is a set of kinds (`Kinds`), because most properties hold as long as
some of them do not happen, and the properties say which.

`CapturePromise` says what all this is for: a slice of the authorization is set aside before it is taken, taken whole and once,
given back only if nothing was taken of it, and settled for good.

Left out: the creation of sessions and its idempotency, the alignment of order amounts.

## 3. What is checked

The passing runs explore their whole state space, within the constraint their configuration names.

| Run | Instance | States | Shows |
|---|---|---|---|
| `flow` | 3 stages in a chain, one with 2 versions; 1 thread, 2 baselines, 1 task | 73 214 | `ActiveIsApproved`, `WorkStaysOnItsSubject`, `BindingsTellTheTruth`, `DecisionsReachDependants`, `ApprovalSettlesFeedback` |
| `tasks_life` | 1 task, 2 attempts, 2 keys, a flow; carried out, or reviewed on 2 revisions | 279 190 | `RegisterMatchesStatus`, `OneResultPerRound`, `ResultsMatchRegister`, `NoLateResult`, `DeliveryOwed`, `ReturnedWorkCanRestart`, `VerifiedOnNewestResult`, `EscalationIsFinal`, and the promise |
| `tasks_graph` | 3 tasks, every graph, 1 attempt each, a gate that opens and closes | 310 656 | `PrerequisitesVerified`, `GraphIsSound`, `EntersWorkThroughGate`, `DoneIsForever`, `BlockReachesAll`, `FreedIsFree` |
| `exec_race` | 1 attempt, 2 callers, 2 jobs, 2 instances | 198 598 | `StartsOnce`, `QueuedWorkIsAwaited`, and the promise of the handover up to the result |
| `exec_delivery` | 1 task, 2 attempts, 2 resume handlers, a flow, 2 baselines, 2 recorders, a scan of 1 row, 1 crash | 69 922 | the promise of the handover from the result on, and with fairness `WaitingWorkflowIsTold` |
| `queue` | a worker and a producer, 2 jobs of 2 attempts, 1 mishap | 126 578 | `MutualExclusion`, `AttemptsBounded`, `CountersAddUp`, `KeepsQueuePromise`, and with fairness `JobsLeave` |
| `pay_captures` | 3 calls, 2 operations, 2 units, 2 webhook jobs or polls, any one kind of mishap | 590 551 | `OneLiveAttempt`, `SettledForGood`, `ClaimedIsHandled`, `LedgerCoversCaptures`, `KeepsCapturePromise` |

`KeepsPromise`, `KeepsHandover`, `KeepsQueuePromise` and `KeepsCapturePromise` are refinements: under the mapping `Phase` (from
status, open attempts, results and rounds) every step of the board is a step of `TaskPromise` or leaves it unchanged, and under
the mapping at the end of `LocalQueue` every step of the queue is one of `QueuePromise` or leaves it unchanged; likewise for the
execution, under `Reached`, and for the payment, whose slices are what the rows have reserved. The captures keep their promise
as long as they are `Undisturbed`; the mishaps that break it are the gaps listed below. `KeepsHandover` is checked twice, with
jobs and without handlers, and with handlers and without jobs.

**Bounds.** `MaxAttempts` of the board is the code's own limit (20) made small: two attempts make every pair of an old and a new
attempt, and what the code does with more is the same case again. Three tasks make chains, forks and diamonds of dependencies
of the kind the rules distinguish. Two callers, two jobs and two handlers are needed for a race. `MaxInstances` bounds how often
an instance is started, `MaxCrashes` how often a resume handler dies in the run with liveness; crashes of jobs and broken calls
are unbounded. A scan that lists one of two pending deliveries (`ScanLimit`) does to the second what one that lists a hundred does
to the hundred and first. `SignalTries` is one (the code: `SIGNAL_RETRY_COUNT`, three): a retry asks the same questions again, which the
next scan does as well. `rounds` needs no bound: a round answers a result, a result needs an attempt. Two attempts per queued job
(the code: three) make a first, a repeated and a last failure. Three stages are the least in which an approval depends on a stage
that is not next to it.

**Constraints** keep a run to what its question needs; no property speaks of what they cut off.

* `tasks_life`, `OneTopic`: a state belongs to the execution of a task (one revision, no manual verdict, limit 1, the gate opening
  and closing) or to its review (two revisions, project tests, a manual check, limit 0 or 1, no workers, workflows or
  reconciliations). The two share reservation, results and rounds.
* `exec_race`, `OneRace`: a second call at work, a second workflow or a second job, one of these at a time.
* `exec_delivery`, `OneTrouble`: of a gate closed by the flow, a newer active baseline, a crash and a second attempt, one at a time;
  the second attempt is looked at when the delivery of the first is stuck before it in the list. A run that leaves the
  constraint is not judged for liveness.
* `pay_captures`, `FewActors`: three calls while nothing is reported, or one or two next to one report, or two reports.
* `flow`, `OneTopic`: the first version of every stage says the same, one stage gets a second version, once the first is
  approved, one verdict at a time is a rejection, requirements are decided before the design, only the scope is edited by hand,
  and comments come while there are at most two artifacts and neither draft nor baseline.

**Deadlock** is checked in every run but those of the payments, where each call is made once and the system may simply be done.

**Symmetry** permutes tasks (only where no task has a manual check), keys, callers, jobs, handlers, operations and webhook runs;
it is not used where liveness is checked.

**Fairness.** `WaitingWorkflowIsTold` is claimed under weak fairness of the progress of each job, of each resume handler and of
the two scans, and strong fairness of taking the resume job of each attempt: the queue runs its handlers and passes over none of
its jobs for good, the scheduler runs its schedules. Nothing obliges anybody to call the bridge, to operate the board or to bring
a result, and nothing forbids a crash within the bound. It is claimed under conditions, for the code makes a delivery only then:

* the workflow waits when the result is pending (`exec_pending_doc` shows a result that comes before that);
* a user recorded the result (`signed`);
* from some time on the project allows the delivery: its gate is open, its baseline is the active one, no other attempt is open;
* from some time on the scan lists it, that is, fewer than `ScanLimit` stuck ones come before it.

The last two are `Deliverable`, and the instance of the run reaches the failure of each of the last three. The claim then allows for
two ends without a delivery: the task is archived, or a signal breaks off half way (flushed as running, no transition taken) and
nobody finds the instance again (`Broken`).

`JobsLeave` is claimed under weak fairness of the steps inside a section, of handlers (they return), of delays and of the aging of
an abandoned lock, and strong fairness of acquiring the lock and of the polls: a waiter sleeps for a random time and tries again
for 30 seconds, so it finds the lock free at some time if it is free again and again; polls are repeated by a timer and a file
watcher. Nothing obliges anybody to enqueue.

**Mutants.** Each property has a mutant in `PROJECT.json`: an operator named `Fault...` beside the original, a slip one could
make in that code (a dropped guard, a propagation that stops at direct dependents, the dispatch mark before the job, a batch that
writes back the file as it found it), under which the property fails.

### Disagreements found

| Run | What happens |
|---|---|
| `exec_pending_doc` | A result imported after the workflow was linked and before it parked stays `pending` for good: the bridge does not go on with an attempt that has a result, and no resume job finds a paused instance. |
| `exec_stuck_doc` | The scan for stuck attempts names itself as the actor, but the command takes uuids only: every reconciliation is refused and the attempt stays claimed. |
| `queue_lock_doc` | Of two waiters that find a lock stale, the slower one can move aside the fresh lock of the faster one: the rename does not serialize them, since the age was read before. |
| `pay_lost_doc` | A capture whose answer is lost gives its reservation back although the provider carried it out; the next capture takes the money again, past the authorization. |
| `flow_plan_doc` | A plan import binds its baseline to the stages approved now and vouches for the draft, also when the parent baseline was never bound to these stages: a baseline of a requirements proposal passes the execution gate. |

Met while modelling, allowed by the models, and without a run of their own:

* The plan of the lifecycle frees a task when no *other blocked ancestor* is left; the code ignores ancestors that only wait
  themselves (`taskLifecycle.ts:198`). The freed task cannot become ready while it has one, so no work starts too early.
* A user may block a task that has results; the table then lets it go to `draft` or `ready` only, where its results keep it from
  being reserved (`taskLifecycle.ts:21`).
* Two calls with one key can both find no instance and both start one (`executionBridge.ts:139`), and two resume handlers can
  both signal one paused instance (`signal-handler.ts:364`); `StartsOnce`, `QueuedWorkIsAwaited` and `KeepsHandover`
  hold with it.
* The ceiling of captures has more gaps than the lost answer, and `Undisturbed` excludes each by name: a retry of a capture
  that the provider has carried out, and that does not get through ("unreachable"), gives the reservation back; a call that
  outlasts its lease ("slow") does so under a later attempt, for the release checks no token; the settlement of a capture of less
  than was asked ("short") writes the ledger as it was read, over what other calls have reserved since; and a call without an
  amount, which read the payment before another attempt of its operation reserved the rest ("overtaken"), asks the provider for
  the whole authorization.
* A poll or webhook checks the transition table against the status it read and writes without a lock (`gateway-service.ts:741`):
  a late one overwrites a terminal status, which `status-machine.ts:12` calls terminal.
* A webhook job that dies, that finds no adapter, or that fails and then fails to give its claim back too (the release,
  `webhook-processor.ts:129`, is a write of its own, likely to meet the outage that failed the job), leaves the row of its event
  behind, and the event is skipped when it is sent again; `ClaimedIsHandled` names all three (`LeftBehind`).
* A delivery stays `pending` for good also when its stage gate stays closed or a newer baseline stays active
  (`attemptQueries.ts:128-137`), when its result was imported by a caller without the id of a user (`resume-attempt.ts:122-126`), or
  when a hundred such deliveries come before it in every scan (`attemptQueries.ts:184`): the stuck ones starve the others.

## 4. What is proved

| Theorem | States | For every |
|---|---|---|
| `FlowTypes`, `ActiveBaselineIsApproved`, `WorkKeepsItsSubject`, `BindingsAreTrue`, `DecisionsReach`, `FeedbackIsSettled` | `Spec => ` the six properties of the run `flow` | template, number of versions, threads, baselines, tasks |
| `BoardTypes`, `StartedOnVerifiedWork` | `Spec => []TypeOK`, `Spec => []PrerequisitesVerified` | number of tasks, attempts, revisions |
| `RegisterAgrees`, `LateResultsAreOut`, `ResultsAreOwed`, `EvidenceMatchesRegister`, `ResultsAreReviewed` | `RegisterMatchesStatus`, `NoLateResult`, `DeliveryOwed`, `ResultsMatchRegister`, `OneResultPerRound` | the same |
| `GraphStaysSound`, `GateIsAlwaysAsked`, `FinishedStays`, `BlocksReachAll`, `FreedAreFree` | `GraphIsSound`, `EntersWorkThroughGate`, `DoneIsForever`, `BlockReachesAll`, `FreedIsFree` | the same, and every graph |
| `EscalationStays`, `ReturnedCanRestart`, `VerifiedOnProof` | `EscalationIsFinal`, `ReturnedWorkCanRestart`, `VerifiedOnNewestResult` | the same |
| `BoardKeepsPromise` | `KeepsPromise`: the board implements `TaskPromise` | the same |
| `ExecTypesHold`, `AttemptStartsOnce` | `ExecSpec => []ExecTypeOK`, `ExecSpec => []StartsOnce` | number of callers, jobs, handlers, crashes |
| `JobsAreAwaited`, `DispatchedHasJob`, `DeliveredHasResumed` | `QueuedWorkIsAwaited`, `DispatchedMeansQueued`, `DeliveredMeansResumed` | the same, and number of instances |
| `ExecutionKeepsHandover`, `HandoverIsComplete` | `KeepsHandover`; a started attempt was claimed, queued and is awaited, a tick has a result and a workflow that went on | the same |
| `ExecutionUsesBoard`, `ExecutionKeepsPrerequisites`, `ExecutionKeepsBoard`, `ExecutionKeepsPromise` | `ExecSpec => Spec`, and from it the invariants, the promise and the action properties of the board for `ExecSpec` | the same |
| `QueueUsesLock` | the queue refines the lock's specification | number of instances and jobs |
| `LockIsKept`, `SectionsExclude` | no holder loses its directory; `MutualExclusion` | number of instances, mishaps; without `Overtakes` and `Stalls` |
| `QueueTypes`, `QueueKeepsItsPromise`, `JobsLeaveForAReason`, `JobsStayOut` | `Spec /\ []MutualExclusion =>` `TypeOK`, `KeepsQueuePromise`; a job is out of the file for a reason, and stays out | number of instances, jobs, mishaps; with or without `Overtakes` and `Stalls` |
| `HandledNoMoreThanAllowed`, `JobsAreCountedOnce` | `Spec /\ []HoldersKeepLock =>` `AttemptsBounded`, `CountersAddUp` | the same |
| `PaymentTypes`, `OneAttemptAtATime`, `SettledOperationsStay`, `ClaimedEventsAreHandled`, `LedgerCoversReservations`, `CapturesKeepPromise` | the properties of `pay_captures`; that claimed events are handled only without the three mishaps of `LeftBehind` | number of calls, operations, events, units, mishaps |
| `TakenMoneyIsReserved`, `CapturesStayWithinAuthorized` | undisturbed, money is taken of reservations only, and never more than was authorized | the same |

The assumptions are the named `ASSUME`s of the modules: the constants are of their kinds, null values are not among the others,
stages depend on earlier ones, there is a workflow to link to. No set needs to be finite, but that of the jobs, whose counters
are cardinalities.

**Flow.** `FlowInv` has the four invariants and `DraftSays`: as long as the draft has a provenance and no plan, the versions it
names exist and it says what they say. A freeze hands that to the baseline, because the provenance must be the current versions
and an open gate means there are some (`OpenGateRefs`); nothing takes it away, because versions only grow and keep what they say
(`VersionsKept`), and rows keep their content. Work keeps its subject because a new version needs idle tasks and everything
else leaves the numbers of versions alone. For `DecisionsReach` an approval has `Settled` of the stage from its own guard and of
everything upstream from the approval of the direct dependencies (`UpstreamUnfolds`, proved from the least closed set); a
rejection or a new version unsettles its stage, and a stage that depends on it needs it settled.

**Prerequisites.** `reserve` looks at the direct dependencies of one task at one moment. The invariant that lasts is
`PrereqInv`: a started task's direct dependencies are verified (`StartedOnDone`), a verified task was started
(`DoneWasStarted`; it needs that results come from attempts, and that nothing exists before creation). Dependencies freeze with
the first attempt, a verified task is only ever deleted, and a deletion is refused while anything depends on the task.
`DoneAllTheWay` then carries the fact from the direct dependencies to everything reachable: the verified tasks are a closed
set.

**Register.** The five invariants about one task are proved together (`RegisterInv`), since each needs the others: only the newest
attempt can be open, and an open attempt has neither a result nor a resolution that would allow one (`AttemptOK`); so a result
that is accepted belongs to the newest attempt and is appended after all others (`ResultsFit`), and a task that executes, was
returned or has lost its run owes exactly one result (`RoundsFit`). A command writes the columns of one task; what it drags
along over the graph waits for others before or after, and never had an attempt with a result (`MoveDrags`).

**Graph and promise.** `BoardInv` joins the register, `PrereqInv`, the soundness of the graph, that a task not created is blank, and
that an escalated one is blocked. New edges of one task close no cycle unless the task reaches itself over them (`NoNewCycle`, from
the least closed set), which is what the cycle check of the code asks. From `BoardInv` every command is shown to be one action of
`TaskPromise` for each task it changes or a stutter, and each action property follows from the guards of the commands that can
take the step it speaks of. Through `ExecutionUsesBoard` all of this holds under automatic execution.

**One start.** `StartsOnce` is not inductive: nothing in it says why a second job cannot start the executor. `ExecInv` adds that
an attempt still reserved has not been started (`UnclaimedNotStarted`), and that a job past its claim finds itself as the worker
of an attempt that is no longer reserved, and not started before that job does (`ClaimsHold`). Two jobs past their claims on one
attempt would both be its worker. It rests on `KeepsRecords`, proved for every command of the board: an attempt once taken from
`reserved` never returns, and keeps its worker.

**Handover.** `HandoverInv` ties the place where a call, a job or a handler stands to what it has seen to: a call past the link has a
linked attempt, one about to enqueue has a workflow past its start, one about to mark has a job; a handler about to tick off, or
that has seen its signal taken, has an instance at its end. These facts last, because instances only move on, jobs keep
their attempt, and no command of the board takes a workflow from an attempt or sets a mark by itself (`RecordsKept`). A
crash only forgets what an actor has seen to.

For the promise, a stage is reached when one fact about the register, the queue, the instances or `starts` holds (`StageOf`).
A step of the execution adds at most one of these facts, for one attempt, and takes none back; `OneStage` turns that into a step
of `HandoverPromise`, provided the stages before it are reached, which is what `HandoverInv` and `ExecInv` say of the actor that
moves. One thing they do not say: that a handler sends its signal only for an attempt with a result, to an instance that has
parked. `AskedInv` adds it. That each stage rests on those before it (`StagesRest`) is then an invariant of the promise
alone, and `HandoverIsComplete` reads it back as columns.

**A use of the board.** Every action of the execution is shown to be an action of the board or to leave it unchanged, from the
invariant that callers, jobs and handlers hold attempts of the register (`ActorsInv`). So what is proved of the board holds
with automatic execution on top; `ExecutionKeepsBoard` and `ExecutionKeepsPromise` say so of the invariants and of the promise.

**Queue.** `HolderMadeIt` says that whoever holds the lock made the directory that is there, and that it is not old; without
`Overtakes` and `Stalls` no step of a waiter touches such a directory. Every step of the queue is a step of the lock or leaves it
alone, so no holder loses its directory (`LockIsKept`) and sections exclude each other (`SectionsExclude`). The code ensures
neither condition, so the theorems about the jobs do not rest on them: they speak of any queue, with overtaking and stalling, and of
those of its behaviours in which no two sections overlap or, where a section lost in silence would count (the number of attempts,
the counters), no holder loses its directory. By `LockIsKept` these are all behaviours where the two conditions hold, and else
those in which the race did not strike; what happens after it has struck is not claimed.

As long as sections exclude each other, what a section has read is still the file when it writes (`SectionsInside`). With
`EnqueuesFresh` (a job about to be enqueued has no past, and one instance enqueues it), `AttemptsHappened` (the attempts in the
file and in the batch are failures that happened) and `BatchAccounts` (what a batch is about to drop has succeeded or failed for
the last time) each write is a step of the promise. `AttemptsCounted` compares, job by job, the attempts in the file and in the batch with
those made: they differ by one while the batch has handled the job and not been written, and by one more for each mishap, which
is what a lost batch costs. That no job leaves without a reason or comes back follows from the promise alone (`PromisedEnds`).
`CountersInv` says that the counters are those of before the batch until its last section has
written them, and that nobody else writes them meanwhile.

**Payments.** `AttemptsOK` says that a call that works on an operation holds its claim, under a lease that has not run out
(`LiveCallsHold`), and that the row of a call about to commit cannot be taken from it (`CommittersHold`, which needs no
assumption about leases); one attempt at a time, and that settled operations stay, follow. `EventsOK` says that an event some run
holds has its row, and that a run past its write has written. `ReservationsOK` ties the money taken under each key to what the row
of the operation reserves, step by step of a call (`RowHolds`, `HeldOK`), with the ledger within the authorization.

The ledger is a sum over operations, and facts about sums by recursion need induction. `Total` therefore counts a set: the units
`<<o, n>>` with `n` up to the amount of `o`, so that what a call adds or gives back is a set of units added or removed
(`TotalSplit`, `TotalChanges`, `TotalMonotone`, from the theorems about cardinality). `LedgerCoversCaptures` alone is not
inductive: `RequestsOK` says that a call works on a row of its own action and that only captures reserve, and `LedgerOK` compares
the ledger with what the rows reserve instead of with what operations have a claim to, which changes its meaning with the state
of the row; `SettledRows` says that the two agree once an operation has succeeded. That the money taken stays within the
authorization, the very sentence `pay_lost_doc` refutes, follows as long as nothing disturbs; and with `LedgerInv` every step
of a call is a step of `CapturePromise`.

**Only model-checked**: liveness (`WaitingWorkflowIsTold`, `JobsLeave`), since the provers do not reason about `ENABLED`. That
sections do not overlap is proved only without `Overtakes` and `Stalls`; with the first the code breaks it (`queue_lock_doc`), and
the theorems about the jobs assume it of the behaviour. Every safety invariant, action property and refinement that a passing run checks is a theorem.

## 5. Plan

1. *Done:* `DeliveryTasks`, `TaskPromise`, `DeliveryExecution`; `QueueLock`, `LocalQueue`, `QueuePromise`; `PaymentGateways`;
   `DeliveryFlow`; their promises (`TaskPromise`, `HandoverPromise`, `QueuePromise`, `CapturePromise`);
   every safety property proved.
2. `PublicationGate`: candidates, deploy and release decisions, consent and publications, on `DeliveryFlow`.
3. `PaymentSessions`: the creation of a session and its idempotency; `WebhookDelivery`: retries, de-duplication, order.
4. `Scheduler`, `DataSync`, `RecordLocks`.
5. Theorems about these, the promise of the queue and that of the board as their assumptions.
