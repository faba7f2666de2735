# Verification of the research runtime

This directory holds TLA+ models of the financial research agent in this repository, the TLC
runs that check them on small instances, and proofs checked by TLAPS. `PROJECT.json` maps every
definition to the source lines it stands for, lists the runs, the findings, the hazards and the
theorems. Paths below are relative to `src/` of the working tree (the repository root); Python
packages are under `src/src/`.

## 1. The system

A user asks for research on an object (a company). The server drafts a scheme and a plan, the
user confirms, and the confirmed plan becomes a *run*: a graph of tasks that agents execute, with
replans, generated code, financial review and a release gate. A browser page follows the run
through a projection (a snapshot) and a stream of events.

| Component | State | Operations | Talks to |
|---|---|---|---|
| Dependency scheduler (`runtime/scheduler.py`, `lifecycle.py`, `output_dependencies.py`, `state.py`) | `RuntimeState`: actual graph, task statuses, attempts, run status | `execute`: promote, gather a wave, checkpoint, close; `_execute_task`: attempts, retries, errors | executor (call), event store, checkpoint store |
| Graph mutation (`runtime/graph.py`) | the actual graph and its version | stage on a copy, validate, swap, audit, roll back | called by executors inside a wave; writes audit events |
| Task executor (`application/execution.py`) | outputs of a task | one research step | scheduler, mutation service, capability builder, models, data |
| Capability builder (`capabilities/generated`) | registry of generated code, task status while it builds | lookup or build, validate, register | executor, event store |
| Run execution (`application/service.py`) | the run aggregate | `execute_run`: schedule, review, release, handle failure | scheduler, event store, repository |
| Event log (`infrastructure/database/postgresql_events.py`, `runtime/events.py`) | `runtime_events`, gap-free per run | emit under an advisory lock, replay, refuse after a terminal event | everyone that emits |
| Publication (`phase4_product/postgresql_backend.py`, `application/persistence.py`) | `research_runs`: payload, status, watermark `projection_sequence`, revision | publish an event, publish the last watermark | event log, readers |
| Event stream (`runtime/sse.py`) | a cursor per connection | preflight, batch, close at the terminal event | publication, browser |
| Run page (`apps/web/src`) | snapshot, patches, pending refresh, connection | load, reduce, subscribe, back off | projection, stream |
| Admission (`phase4_product/postgresql_backend.py`, `durability.py`) | drafts, runs with their scheduler admission, idempotency outcomes; a worker per process | prepare, renew, confirm; poll, lease, start, acknowledge | planner, run execution |
| Draft leases, re-execution (`infrastructure/database/draft_leases.py`, `reexecution.py`) | a lease per incremental draft, one-shot authorizations | renew; authorize, execute again | admission, memory |
| Research memory (`infrastructure/database/research_memory.py`) | versions of an object's view and the pointer to the latest | take a released run in | admission, closure recovery |
| Closure recovery (`application/closure_recovery.py`) | records of one attempt per run | stage, release, write back, complete | runs, memory, event log |
| Specialist recovery (`agentic/recovery.py`, `recovery_policy.py`) | append-only evidence of calls and decisions | routes, checks and switches around one model call | providers, database |
| Financial branches (`runtime/financial_branches.py`, `application/phase3_financial.py`) | results of the calculations of one task | run branches by dependency, publish each outcome | capability builder, event store |
| Evaluator gateway (`evaluator/`, `apps/evaluator_gateway`), key pool (`adapters/fmp`) | one row of counters per credential in SQLite; a key pool per process | issue, revoke; reserve, forward, rotate keys; retry at the client | models, data provider |
| Assurance, output, data, other adapters, tooling, observability, HTTP, web UI | mostly none | pure decisions, rendering, remote calls | the above |

What is hard here:

* **Interleaving.** All coroutines share one `RuntimeState`. A mutation swaps the whole graph
  object while neighbours run; its audit awaits many times and may roll back.
* **Failure between two steps.** Every event is a transaction of its own, followed by a second
  one that makes it public. Each may fail, also after it took effect; the process may stop or be
  cancelled between them.
* **Ordering.** Tasks commit events in one order and publish them in another.
* **Stale state.** Task objects and graph copies are kept across awaits; projections answer
  requests made before the event that asked for them.
* **Repetition.** Requests are repeated with their idempotency key, tasks are delivered again after
  a restart, every process polls the same admissions, and an operator's recovery competes with a
  user's re-execution.
* **Several counters for one thing.** Budgets of a recovery are kept by the detector, the supervisor
  and the policy; what a build did is in a registry, in
  records and in events, written one after the other.
* **Ending.** A run must end; its end must be announced once and reach every reader.

What makes the components correct: a run goes to review only when it has earned it; no work
survives the end of its run; the graph stays acyclic; completed tasks stay completed; log,
checkpoint and status agree; readers see a growing prefix of the log whose status is that of its
last event; a page ends on the run's real outcome. Runs of an object take turns, each confirmed on a lease
that still holds and executed once; memory takes in one run per confirmed scheme. A model call stays
within its budget however often it is delivered, and a task never ends with an operation still
running or a sibling's result unpublished. What a gateway forwards for a credential stays within what
its owner granted, from however many processes, and a key that refused is left alone.

## 2. Modules

| Module | Models | Kind |
|---|---|---|
| `TaskLifecycle` | task statuses and the transition table | definitions |
| `ActualGraph` | the graph as a record, output contracts, promotion, blocking, staging and validation of mutations | pure operators |
| `TaskScheduler` | `execute`, `_execute_task`, `_apply_atomic`, `lookup_or_build`, cancellation | state machine |
| `RunPromise` | what the scheduler promises its caller | abstract specification |
| `RunOutcome` | events by their effect on a reader, outcomes | definitions |
| `RunPublication` | log, row, identity map, projection lock, `execute_run` and its worker | state machine |
| `PublishedRun` | what a reader may rely on | abstract specification |
| `RunViewer` | projection and stream requests, the browser page; composed with `RunPublication` | state machine |
| `ProductStore` | the tables, open transactions, workers and executions of the product | state and types |
| `RunAdmission` | prepare, renew, confirm, the admission worker, processes that stop | actions |
| `RunLineage` | memory writeback, re-execution, closure recovery | actions |
| `ProductRuns` | the two together, from any number of processes | state machine |
| `ExecutionSlot` | what admission promises | abstract specification |
| `AdaptiveRecovery` | `execute_scope`, detector, supervisor, policy, evidence | state machine |
| `CapabilityBuild` | `lookup_or_build`: the registry, what an attempt is in memory, and the writes of its records, each of which may fail | actions |
| `FinancialBranches` | `execute_financial_branches` and its operations; composed with `CapabilityBuild` | state machine |
| `EvaluationGateway` | `authorize`, `dispatch`, the rotation of the provider's keys, the product's client | state machine |
| `EvaluationAllowance` | what a credential is worth | abstract specification |
| `MC...` | plans, mutations, routes, dependencies and symmetry for TLC | instances |
| `..._proofs` | theorems | proofs |

### TaskScheduler

One action runs from one `await` to the next, which is where asyncio may switch coroutines.
`main` is the place of the scheduler's coroutine, `co[t]` that of task `t`'s:

| Actions | Code |
|---|---|
| `Begin`, `RunStarted`, `FormWave`, `WaveAnnounced`, `WaveSettled`, `WaveCheckpointed`, `RunClosed`, `RunSealed` | `DependencyScheduler.execute` between its awaits |
| `BeginAttempt`, `StartAnnounced`, `Publish`, `ExecutorReturns`, `ExecutorRaises`, `CompletionAnnounced`, `FailureAnnounced`, `EmissionRaises` | `_execute_task` |
| `Mutate`, `MutationRefused`, `MutationAudited`, `MutationRolledBack` | `GraphMutationService._apply_atomic` |
| `BeginBuild`, `BuildEnds`, `BuildInterrupted` | `GeneratedCapabilityOrchestrator.lookup_or_build` |
| `CancelRun`, `Abandon`, `CancellationClosed` | cancellation of the run's asyncio task |

The graph object's identity matters, since the builder keeps a `Task` of the graph it found:
`graph.copy` numbers copies and `held[t]` remembers the one the builder holds. The event log is
kept as the facts properties read: who completed or failed, announced versions, the terminal
status. What executors compute is a choice: a set of outputs, then a result or one of three
kinds of error. An emission or a checkpoint may raise at most `MaxFaults` times; an emission that
is interrupted by cancellation may be durable or not. The await of the registry lookup before a
build is folded into `BeginBuild`: it writes nothing.

### RunPublication

`log` is `runtime_events` by kind: "patch" and "refresh" for the two classes of ordinary events,
and the terminal ones. `row` is status, watermark and revision of `research_runs`. `live` is the
status of the aggregate in the repository's identity map, which is what a save writes. An
emission is `Commit` (insert under the advisory lock, refused after a terminal event),
`TakeLock` (the projection lock; `_publish_runtime_event` sets the status), `SaveWithWatermark`.
`LoseCommit` and `LoseSave` are the same operations failing, with or without effect. `exec` is
where `execute_run` and `_execute_started_run` are; `AfterReturn` and `AfterRaise` say where an
emission of theirs leads. `Handle` is the `except` block with its replay of *public* events;
`Persist` is `save_run`; `PublishLatest` is `_publish_latest_projection_watermark`. `Cancel` is
`close()` reaching the scheduler, `Stop` a crash or a cancellation anywhere else. What the
scheduler does between its emissions is left to `TaskScheduler`.

### RunViewer

The page is loading, connecting, following the open stream, waiting to refresh or to retry,
rejected, terminal or lost. `Install` is `loadRun` with `reconcileRunRuntimeState` and four of
its five checks; a snapshot that fails them takes the page away. The check of the graph's version is
left out, as the rows and events of `RunPublication` carry no graph. `Receive` is `reduceRuntimeEvent`: a patch
is applied, anything else stops the transport and asks for a snapshot. `Connect` is the cursor's
preflight. Answers to requests of an earlier `loadRun` are dropped by the epoch, so `Load` voids
them. Requests and connections fail at most `MaxDrops` times.

### ProductRuns

One store, `ProductStore`, holds the rows of the product for one research object, the transactions
that are open between a read and their commit, and each process's worker and executions. A
transaction that holds its locks from beginning to end is one action; where the code waits inside
one (for the generator of a scheme, for the planner) there is an action for each side of the wait,
and `LockedDrafts`, `LockedRuns`, `PointerLocked` are the rows it keeps locked.

| Actions | Code |
|---|---|
| `PrepareBegin`, `PrepareCommit`, `PrepareAbort` | `prepare_run`: no lock, the key's unique index at the end |
| `RenewLease` | `renew_exact_draft` |
| `ConfirmBegin`, `ConfirmCommit`, `PlanAbort` | `confirm_run` under the advisory lock of the scope, around the planner |
| `Poll`, `StartBegin`, `StartCommit`, `StartConflict`, `WorkerFault` | the worker's loop: list what is due, start in a transaction whose snapshot may be old, lose the race, meet a database error |
| `ExecutionEnds`, `Stop`, `StartProcess`, `Tick` | an execution's last status (`RunPublication` has its steps), a process that stops and is started again, the clock |
| `MaterializeMemory`, `Authorize`, `ReexecuteBegin`, `ReexecuteCommit` | writeback of a released run, `authority()`, the two sides of a re-execution's planner |
| `RecoverStart`, `RecoverRelease`, `RecoverMemory`, `RecoverComplete`, `RecoverFail`, `RecoverCrash` | the transactions of `recover_closure`, and the command being killed between any two. The answer to the last commit may be lost: then COMPLETED and FAILED are both recorded (one of the `MaxStops` of a run) |

Two things are as in the code and easily expected to be otherwise. A worker that loses the race for
an admission meets a serialization failure that its loop does not catch: it is `dead` until the
process is started again. And nothing looks for runs that were RUNNING when their process stopped:
they stay so, and with them the execution slot. The repository promises neither recovery, so no
property asks for it; `ExecutionSlot` says what remains true: nothing else enters the slot.

### AdaptiveRecovery

A delivery is one execution of `execute_scope`; several may be of one scope (a task delivered again
after a crash, or by two processes at once). `exec[d]` is its locals, `started`, `completed` and
`terminal` the evidence, `facts` what `capability_provenance` makes of it. `Observe` reads the
evidence, `Enter` decides whether the scope is new, `Begin` and `Complete` are the records before and
after each call, `Pass`, `Fail` and `Timeout` the answers, `Decide` the supervisor's proposal with the
verdict of the independent policy (`Allowed`), `Probe` and `Switch` what follows from it. `setting` is
what a task finds: its kind ("walk": follow-up and synthesis, which try all routes in order;
"generated": the builder's call; "plain": the others), the routes with credentials and what is known
of them. A delivery that is over resets its locals (`Over`): nothing reads them. Digests, tokens,
latencies and health are left out, since no decision reads them.

### CapabilityBuild and FinancialBranches

`build.at` is the place in `lookup_or_build` and in its loop of attempts, `build.lifecycle` what the
present attempt's capability is in memory, `registered` the registry (in memory), `builds`,
`generated` and `registration` the stored records. `Generate`, `Validate`, `Activate` and `Register`
change the lifecycle in memory, the last one the registry too; the records follow in transactions of
their own, one `Record` step each (`Store` says which one is due where). Any of them may fail, with
or without having been stored: inside the `try` (`Reject`), in the `except` block or outside of both
(`StoreFails`). The `except` block writes the generated record ("marking", not for what is
registered), the build record ("failing", always) and the announcement (`Announce`). Validation records and
retained artifacts are left out as data; their failure is one of the place's failures.

Registry and records therefore do not always agree, and `RecordsFollowRegistry` does not say so. If the
build record cannot be written after the registration (`orchestration.py:391`), the capability is
registered, its generated record still says TASK_APPROVED, no registration record exists, and the
`except` block records the build as BUILD_FAILED (464-472); if a later one fails, or the event, less is
missing. The task fails, but another call for it finds the capability in the registry (`Found`) and uses
it. What does hold is one-sided: nothing is recorded as active that is not registered, what is
registered is not itself marked failed, a task resumes only with all three records active, and every
failed attempt is recorded before the next. The comparison at 385 cannot fail with this
registry, which returns a copy of what it was given.

The
terminal flag of the announcement and the loop's own ending are separate expressions in the code
and separate definitions here (`Terminal`; `Breaks`, `LastAttempt`).

A branch has a `worker` (the coroutine in the TaskGroup) and an `operation` (the task the worker
shields). A worker that is cancelled while its operation runs is "draining". The call raises
what `Verdict` says after all workers ended. The lock around commits is left out: it only delays. The
program gives its branches no dependencies today; the function checks and honours them and the
repository's tests use them, hence `Dependencies`. The program's build policy makes one attempt and
the function takes any number, hence `MaxAttempts`. `registered` may be true at the start: an
earlier attempt of the task registered the capability.

### EvaluationGateway

`req[o]` is the request made for operation `o` of a product, by its place in the gateway. A process's
event loop runs one coroutine between awaits (`LoopFree`), and `authorize` never awaits, so a process
that waits for the store or holds its lock does nothing else; other processes do.

| Actions | Code |
|---|---|
| `Issue`, `Revoke`, `Tick` | the owner's console, and the clock in minutes |
| `Ask`, `Respond` | `GatewaySession.request`, and `_request_with_transient_retry` |
| `Enter`, `BeginReservation`, `StoreBusy`, `CheckCredential`, `CommitReservation` | `authorize`: wait for the lock, `BEGIN IMMEDIATE` or the busy timeout, read row and clock, commit |
| `Dispatch`, `ModelAnswers`, `Deadline` | `dispatch` after the reservation |
| `TakeKeys`, `KeyAnswers`, `KeyRefused` | `HttpxFMPTransport.request` and `FMPKeyPool` between the calls to the provider |
| `Crash` | a process stops: its transaction rolls back, its next pool is new |

An answer is "retry" if it is a status the product asks for again, else "final": the gateway's refusals
(403), its 503 and a model's failure are all final. The gateway does not learn that a client gave up, and
whether it did shows in its next step only, so `Respond` may end the operation whatever the answer.
`Reaches` says which processes are behind the URL of a product's session.
A commit writes the counters that were computed when the row was read (`next`), so that a missing lock
would lose one. What is forwarded, granted and refused is kept as history. Bundles and their
encryption, the session endpoint (it reserves nothing), validation and redaction are left out.

## 3. Runs

| Run | Checks | Shows |
|---|---|---|
| `pipeline` | `TypeOK`, `ReviewIsEarned`, `ReturnedRunIsLogged`, `FinalCheckpointIsCurrent`, `FailureIsAnnounced`, `StartsSatisfied` | the research pipeline with the risk replan, one lost write, one cancellation |
| `replans` | `NoOrphanWork`, `ActualGraphWellFormed`, `CompletionSurvivesReplans`, `RunEnds`, `KeepsPromise` | two mutating and building executors in one wave, with a failing audit, retries and a cancellation: the run ends, as `RunPromise` says |
| `viewer` | `KeepsPage`, `Converges`, `PublishesRun` | publication and page together: readers see a growing prefix of the log, a shown run is never given up, and the page ends showing all that is public, which of a run that does not crash is everything |
| `viewer_faults` | `ViewTypeOK`, `OutcomeIsLast`, `OutcomeIsReal` | with lost operations, cancellation and crashes, a stored outcome is the last event's and a shown one is the run's |
| `product_runs` | `TypeOK`, `ExecutedOnce`, `ConfirmedOnItsLease`, `IntentInMemoryOnce`, `CompletedInMemory`, `KeepsSlot` | two processes, expired and renewed leases, a re-execution beside a closure recovery, a stop between any two transactions: admission implements `ExecutionSlot` |
| `recovery` | `TypeOK`, `OneCaller`, `WithinBudget`, `ProposalsPass`, `VerifiedByEvidence`, `WalkInOrder`, `Concludes` | a scope delivered twice, and two scopes, over the four registered routes with any credentials and history |
| `branches` | `TypeOK`, `RecordsFollowRegistry`, `CallIsSettled`, `CallConcludes` | four branches with dependencies, one of them built, and any write failing |
| `gateway` | `TypeOK`, `RefusedOnce`, `CallsArePaid`, `DenialIsThePools`, `KeepsAllowance`, `RequestsEnd` | two gateway processes on one store, with revocation, a busy store and a crash, implement `EvaluationAllowance`; a refused key rests, calls are bounded, and every request ends although no upstream has to answer |

Four runs show where the code departs from what the repository says of it (details and quotations
in `PROJECT.json`, "findings"):

* `lost_completion`: rolling a mutation back restores the whole graph object, and with it discards
  a neighbour's completion. In the same way it discards another mutation that was announced
  meanwhile. The run can still be returned for review: if the graph put back says that the neighbour's
  capability build failed (its retry completed on the graph that was discarded), the neighbour is
  settled, with its TASK_COMPLETED in the log. Hence `ReturnedRunIsLogged` asks the converse, that the log
  has no other completion than the graph, only if no write failed.
  The capability builder suffers from the same cause without any failure: it keeps a `Task` across its
  awaits, and after a neighbour's replan writes to a task of the replaced copy (`held`).
* `early_start`: a READY task that a mutation invalidated is started by its coroutine all the same.
* `lost_publication`: a cancellation between the commit of RUN_FAILED and its publication. The
  handler's replay is filtered by the watermark, so it does not see the event; the second
  RUN_FAILED is refused, `save_run` is skipped, and the last watermark makes the terminal event
  public under a row that says RUNNING. The run stays active and a page following it is lost
  (this is why `viewer` excludes `Cancel`, and `viewer_faults` does not). A lost
  database operation at the same place has the same effect. In the scheduler the same race leaves
  `run_status` CANCELLED beside a log that says FAILED, which is why `FailureIsAnnounced` compares
  the two only for runs nobody cancelled.
* `released_again`: a closure recovery is outside the advisory lock of the scope. With two failed runs of
  one scheme, it can release one while the re-execution of the other waits for its planner; the
  re-execution is admitted although an execution of its scheme is RELEASED. `IntentInMemoryOnce` shows that the
  object's memory still takes in one of them only.

### Bounds

* Plans: four tasks in `replans`, five in `pipeline` (fundamental, risk, peers, synthesis,
  and the follow-up the risk replan inserts). Two members of a wave are enough for the interleavings of
  two mutations, of a mutation and a completion, and of a failure beside running work; a third
  task waits on both.
* `MaxAttempts` 1 or 2: a retry, and the attempt after which none is left.
* `MaxFaults` 1 in the scheduler: which write is lost is free. 2 in the publication: the second may hit
  the handling of the first.
* `MaxBuilds` 1, each mutation once: a second build or use starts from a state like the first's.
* `MaxEvents` 3 or 4 ordinary events: two in flight at once, committed and published in different
  orders, with one before and the terminal one after.
* `MaxDrops` 1, `MaxReloads` 1: a failure during the recovery from a failure.
* `product_runs`: two keys, processes and drafts, so that every pair of requests may collide; three
  runs, one of them a re-execution, so that a run can be built on the memory of an earlier one and be
  executed again; `MaxTime` 1 with leases that last one, so that each is valid, expired or renewed;
  one `stops`, of a process, of the recovery command or of a worker's loop by a database error (a lost race
  ends a loop without it). Keys and processes are interchangeable, hence the
  symmetry. `released_again` needs four runs, two
  authorizations, and neither clock nor stops.
* `recovery`: the four routes of the program and its grants; credentials for all routes or all but
  one; any knowledge of the routes. Two deliveries: a third finds the evidence of two as the second
  finds that of one.
* `branches`: two branches at a time of four, so that one waits for a permit, one for a dependency, and one
  for both a built and a calculated branch.
* `gateway`: two data operations with a retry each on one process, so that one waits for the other's
  rotation over two keys and a retry meets a pool whose keys were refused; a model request on another
  process, of the same credential, so that two transactions meet on one row. A quota and a rate of two, fewer
  than the data requests there may be; two minutes. Expiry is beyond the second minute: it is a guard like revocation,
  and the theorems have it.

### Fairness

`FairSpec` of `TaskScheduler` assumes weak fairness of the scheduler's steps and of each
coroutine's: asyncio runs every ready coroutine, and every executor is bounded by the time limit
of its stage. Cancellation and faults are not fair. `Spec` of `RunPublication` assumes it of
`Progress` for the same reason; losing operations are disjuncts of `Progress`, which only ever
replaces a step by its failing form, at most `MaxFaults` times. `ViewSpec` adds weak fairness of
`Follow`: the page's timers fire
(`window.setTimeout`), and each request is answered or fails. A request that hangs for ever is
not modelled. `Spec` of `ProductRuns` assumes none. `Spec` of `AdaptiveRecovery` assumes it of `Proceed`: the database answers and
the time of a recovery runs out (`asyncio.timeout`), but no provider has to answer. `Spec` of
`FinancialBranches` assumes it of `Progress`: what an operation calls has a deadline of its own.
`FairSpec` of `EvaluationGateway` assumes it of `Serve`: the event loop runs what is ready, and SQLite's busy
timeout (15 s) and `asyncio.timeout(80)` expire. Models and the data provider need not answer.

## 4. Proofs

All theorems hold for every value of the constants that satisfies the named assumptions
(`PlanAssumption`, `SchedulerAssumption`, `PublicationAssumption`, `StoreAssumption`,
`RecoveryAssumption`, `AttemptsAssumption`, `BranchesAssumption`, `ViewerAssumption`, `GatewayAssumption`): any
plan, any mutations, any number of attempts, faults, tasks, events, keys, processes, rows, routes,
deliveries, branches, credentials and operations.

| Theorem | States | By |
|---|---|---|
| `TaskScheduler_proofs!TypeCorrect` | `[]TypeOK` | `TypeOK` is inductive, one lemma for the scheduler's steps and one for a coroutine's |
| `NoWorkOrphaned` | `[]NoOrphanWork` | `IInv`: outside gather nothing is in flight (`Quiet`), and during gather only the wave is. `NoOrphanWork` alone is not inductive: it says nothing of the states from which a run closes |
| `PromiseKept` | `KeepsPromise` | under `IInv` every step maps to a step of `RunPromise` or a stutter |
| `GraphStaysWellFormed` | `[]ActualGraphWellFormed` | `GInv`: the graph and every graph a rollback may restore are acyclic and closed |
| `TaskSchedulerEnds_proofs!FailuresAreAnnounced`, `LastCheckpointIsCurrent` | `[]` of `FailureIsAnnounced`, `FinalCheckpointIsCurrent` | `EndInv`: which status, terminal event and checkpoint go with each place of the scheduler, and that a cancelled result means a cancelled run |
| `ReviewsAreEarned` | `[]ReviewIsEarned` | `RevInv`: while a wave runs, a failed task without a degraded output is excused by its own coroutine, which is failing or over with its error, and that in the graph and in every graph an audit under way may put back (`Restorable`). Both are needed: a rollback restores statuses older than the failures of the wave. `WaveCheckpointed` judges the errors, and after it every failure is recorded |
| `ReturnedRunsAreLogged` | `[]ReturnedRunIsLogged` | `ToldInv`: while a wave runs, a completed task of the graph, or of a graph that may come back, is in the log, or its coroutine is about to emit, or ended with an error that `WaveCheckpointed` finds fatal; `CancelInv`: a cancelled run leaves its wave as CANCELLED; and for the part about runs without a failed write, `CleanInv` |
| `CompletionsSurvive` | `CompletionSurvivesReplans` | `CleanInv`, while no write failed: the task of a coroutine at work is not completed and is in the graph (else a build or a cancellation could overwrite a completion, and a replan could add a task anew), the log has no other completion than the graph, and every task is planned, announced or in an audit under way |
| `StartsAreSatisfied` | `StartsSatisfied`, if `WavesKeepEdges` and `[]ContractsWaitOutside` | `StartInv`: each task of the wave has what it waits for outside the wave (`Startable`), in the graph and in every graph a rollback may put back. The graph alone is not enough, since a failed audit restores older statuses; what a coroutine or a replan does to a graph takes nothing of it away (`Follows`) |
| `RunPublication_proofs!TypeCorrect` | `[]TypeOK` | `PInv` |
| `OutcomeStaysLast` | `[]OutcomeIsLast` | `PInv`: only the last event is terminal, emissions under way know their event, tasks emit ordinary events while the scheduler runs, `execute_run` emits the kind of its place, and the status in memory is RUNNING until a terminal event's emission sets it. All are needed: a save writes the status in memory beside a sequence chosen earlier |
| `RunIsPublished` | `PublishesRun`, if no operation fails and nothing is cancelled | `RInv`: in addition every durable event that is not public is still being published, and the row's status is that of its last public event; then each step is `Advance` or a stutter |
| `RunViewer_proofs!ViewTypeCorrect`, `ShownOutcomesAreReal` | `[]` of `ViewTypeOK`, `OutcomeIsReal` | `VInv`: the row and the log only move on, the row rests once it has an outcome, and what is answered or shown is of the past |
| `ShownRunIsKept` | `KeepsPage`, if no connection fails and nothing is cancelled | `KInv`: what is shown comes from an answer, and row and answer follow it, so each answer projects and reconciles |
| `ProductRuns_proofs!TypeCorrect`, `RunsTakeTurns`, `RunsAreExecutedOnce`, `LeasesHold`, `IntentsEnterOnce`, `CompletionIsReal` | `[]` of `TypeOK`, `OneActiveRun`, `ExecutedOnce`, `ConfirmedOnItsLease`, `IntentInMemoryOnce`, `CompletedInMemory` | one `IInv`. A confirmation in progress is the only one (`OnePlanner`) and was checked against the lease its locked draft still has (`ClaimsHold`); rows are complete when they are there (`RowsAreComplete`, `AuthorizedRunsExist`); a worker's admission exists (`WorkersHandleRuns`); views are released runs, none built on the view the pointer names, and every draft's base is a view (`MemoryInv`): a second run of a scheme in memory could not be taken in on its base any more; a recovery between its transactions has recorded no end (`RecoveryInv`) |
| `KeysPrepareOnce` | `[]OneDraftPerKey` | the unique index at the commit, since two preparations of one key may be open |
| `SlotIsKept` | `KeepsSlot` | under `IInv` every step is `Admit`, a `Move` or a stutter of `ExecutionSlot`; a closure recovery stutters |
| `AdaptiveRecovery_proofs!TypeCorrect`, `OneDeliveryCalls` | `[]TypeOK`, `[]OneCaller` | `IInv`: a delivery that has gone further than its first record owns the scope (`Entries`), a first call is at the initial route (`AtInitial`), and the counters stay within the budget (`Counters`) |
| `PolicyAgrees`, `CertificatesAreEarned` | `[]ProposalsPass`, `[]VerifiedByEvidence` | whatever the supervisor proposes from the detector's candidates is `Allowed` (`ProposalAllowed`, under `Counters`); a view says VERIFIED only of what was so or passed (`Known`) |
| `BudgetHolds` | `[]WithinBudget` | `Tally`: the records of a delivery are no more than its counters say, and different ones have different routes; `OneCaller` carries it to the scope |
| `WalksTakeEveryRoute` | `[]WalkInOrder`, if `RoutesInReach` | `WalkInv`: the records of a walk are the routes it tried, the one it is at among them; each but the first has used up one switch, of provider if it is another provider's; and every route before the present one was tried or was known as quarantined when it was passed by. With switches left for every route, the detector offers the next whenever there is one |
| `FinancialBranches_proofs!TypeCorrect`, `RecordsStayTrue`, `CallsSettle` | `[]` of `TypeOK`, `RecordsFollowRegistry`, `CallIsSettled` | `IInv`: the attempt and its lifecycle in memory follow from the place of the build, and its records from the writes already made there (`BuildInv`: `PlaceInv`, `LifecycleInv`, `StoredInv`), a worker's operation from the worker (`WorkerInv`), the build runs for the generated branch only (`BuildOf`), and the verdict is what the workers came to (`CallInv`) |
| `EvaluationGateway_proofs!TypeCorrect` | `[]TypeOK` | `SInv`: one transaction holds the lock (`LockInv`), so what it is about to write was computed from the row as it is (`WriteInv`); and a request is made only while tries remain (`TryInv`) |
| `QuotaIsKept`, `AllowanceIsKept` | `[]QuotaHolds`, `KeepsAllowance` | `AInv`: the counters of a row are the cardinalities of its grants, no grant is of a later minute than the row's window, and the present try of a request that has not committed is not among them; then a commit is a `Give` and everything else a `TakeBack` or a stutter |
| `ProviderCallsArePaid` | `[]CallsArePaid` | `SentInv`: what is sent was granted for a try that no other request has; `PaidInv`: calls and requests still to call (`Queued`, `Unsent`) are together at most the data operations sent and the pairs of process and refused key. A rotation pays for its next call with the key that refused it, which `KInv` says had not refused before |
| `RefusedKeysRest`, `DenialsArePools` | `[]` of `RefusedOnce`, `DenialIsThePools` | `KInv`: a key was refused as often as it is marked, one request of a process calls with a key, that key is not marked, and those it tried before are |

Two properties are true of the instances checked and not of every value of the constants, so their
theorems have a hypothesis that says of which:

* `StartsAreSatisfied` assumes two properties of the behaviour. `WavesKeepEdges`: no replan, and no
  rollback, changes the edges of a task of the running wave; `early_start` shows a start without its new
  predecessor when one does. `ContractsWaitOutside`: no contracted task is in one wave with a task it waits
  for; without any replan the promote pass forms such a wave when a predecessor leaves BLOCKED in the same pass, and
  the plan lists the contracted task first. Both hold of the pipeline.
* `WalksTakeEveryRoute` assumes `RoutesInReach` of the constants. It is about four routes at most, with one
  provider's before the other's; a route of the first provider ordered after the second's is passed by, for
  the one change of provider is spent. TLC evaluates it for the program's routes, as the assumption
  `RoutesAssumption` of `MCAdaptiveRecovery`.

Only model-checked: liveness (`RunEnds`, `Converges`, `Concludes`,
`CallConcludes`, `RequestsEnd`), which is beyond the prover. `OneActiveRun`, `OneDraftPerKey` and `QuotaHolds` are proved and listed
among no run's properties: `KeepsSlot` has the first and `KeepsAllowance` the last.

## 5. Not modelled

* **The event cursor** decides over one log in one step, with unit tests over its cases, and the logs the
  program writes never make it refuse. The frames a closed run gets after a closure recovery are
  left out of the stream with it.
* **Generated code, assurance and release, normalisation of research data, analysis, projections, reports, prompts, model
  answers**: functions of one value, without state of their own. Their outcomes are choices of the
  models that call them. They are most of the source: `phase4_product/projections.py` and
  `contracts.py` alone are seven thousand lines of data transformation, which a state machine could only
  repeat.
* **HTTP, rendering, telemetry, configuration, migrations**: input and output. In the browser, frame
  parsing and the guard against malformed or conflicting frames are left out, since the modelled server
  sends none; so is the transport's RECOVERING state, which schedules no reload and which that server
  does not bring about.
* **`acceptance/`, `scripts/`**: harnesses that drive the program from outside, like its tests.
* `GraphMutationService.recompute_ready_tasks`, and the release and failure transitions of
  `durability.py`, have no caller in the program. Object, goal and scheme methods of the run service are
  single writes.
* A process that stops after an admission is acknowledged leaves its run RUNNING for ever, and a
  cancellation outside the scheduler writes no terminal event. Both are in the models (`Stop`,
  and `Stop` of `RunPublication`); the repository claims nothing of either, so there is no
  property for them.
* In the gateway: a clock that goes back (its `time.time` may be set), which would let one minute's rate
  be granted twice; the model's clock only advances. Waiting for the lock of the key pool is in any
  order rather than first come first served, which allows more than the code does.
* The lease is not checked again when a confirmation commits, only before planning:
  `ConfirmedOnItsLease` says what does hold.
