---------------------------- MODULE TaskScheduler ----------------------------
(***************************************************************************)
(* DependencyScheduler.execute (src/runtime/scheduler.py) running a task   *)
(* graph in waves, one coroutine per task of the wave, while executors     *)
(* mutate the actual graph (src/runtime/graph.py) and wait for generated   *)
(* capabilities (src/capabilities/generated/orchestration.py).             *)
(*                                                                         *)
(* An action runs from one await to the next: asyncio interleaves the      *)
(* coroutines of a wave only there.  Each durable event emission may fail  *)
(* (at most MaxFaults times) and the whole run may be cancelled once.      *)
(***************************************************************************)
EXTENDS ActualGraph, FiniteSets

CONSTANTS
    MaxAttempts,    \* RetryPolicy.max_attempts
    MaxFaults,      \* bound: event emissions and checkpoint saves that raise
    MaxBuilds,      \* bound: capability builds per task
    Builder,        \* bound: the tasks whose executors ask for a capability
    MayCancel,      \* whether the run is ever cancelled
    Publishable,    \* bound: the sets of outputs an executor may publish
    Mutations       \* bound: the mutations executors may apply, each once

ASSUME SchedulerAssumption ==
    /\ MaxAttempts \in Nat \ {0}
    /\ MaxFaults \in Nat
    /\ MaxBuilds \in Nat
    /\ Builder \subseteq Task
    /\ MayCancel \in BOOLEAN
    /\ Publishable \subseteq SUBSET OutputKind
    /\ Mutations \subseteq MutationType

VARIABLES
    graph,      \* state.actual_graph
    runStatus,  \* state.run_status
    main,       \* where the scheduler coroutine is
    wave,       \* the tasks of the wave being gathered
    co,         \* [Task -> where the task's coroutine is]
    result,     \* [Task -> what the task's coroutine ended with, or will]
    attempts,   \* [Task -> task.attempt_count]
    builds,     \* [Task -> capability builds begun]
    held,       \* [Task -> copy of the graph whose Task the builder holds]
    mutation,   \* [Task -> the mutation its executor is auditing]
    used,       \* mutations already asked for
    copies,     \* number of graph copies made
    events,     \* what the durable event log says
    checkpoint, \* the latest saved checkpoint
    faults,     \* emissions that raised
    cancelled   \* whether cancellation of the run was requested

vars == <<graph, runStatus, main, wave, co, result, attempts, builds, held,
          mutation, used, copies, events, checkpoint, faults, cancelled>>

RunStatus == { "PLANNING", "RUNNING", "REVIEW", "FAILED", "CANCELLED" }
MainPlace == { "admitted", "starting", "loop", "announcing", "gather", "checkpointing",
               "closing", "cancelling", "sealing", "returned", "raised" }
CoPlace   == { "idle", "created", "starting", "executing", "building", "mutating",
               "backoff", "failing", "completing", "ended" }
\* "fatal" is a non-retryable error, "local" a LocalOutputFailure.
ErrorKind == { "error", "fatal", "local" }
Result    == ErrorKind \cup { "none", "ok", "cancelled" }

\* Coroutines that hold a task: begun and not yet waiting to retry or over.
Working == CoPlace \ { "idle", "created", "backoff", "ended" }
Over == { "returned", "raised" }

\* The durable log, as the facts the properties read: tasks with a
\* TASK_COMPLETED, TASK_FAILED, GRAPH_TASK_ADDED event, versions announced by
\* GRAPH_VERSION_CHANGED, and the status carried by the RUN_FAILED event.
EventLog == [ completed : SUBSET Task, failed : SUBSET Task, added : SUBSET Task,
              versions : SUBSET Nat, terminal : { "none", "FAILED", "CANCELLED" } ]

Checkpoint == [ graph : Graph, runStatus : RunStatus ]

\* The mutation of a task that is auditing none.
NoMutation == [original |-> PlannedGraph, added |-> {}]

Idle == [t \in Task |-> "idle"]

Init ==
    /\ graph = PlannedGraph
    /\ runStatus = "PLANNING"
    /\ main = "admitted"
    /\ wave = {}
    /\ co = Idle
    /\ result = [t \in Task |-> "none"]
    /\ attempts = [t \in Task |-> 0]
    /\ builds = [t \in Task |-> 0]
    /\ held = [t \in Task |-> 0]
    /\ mutation = [t \in Task |-> NoMutation]
    /\ used = {}
    /\ copies = 0
    /\ events = [completed |-> {}, failed |-> {}, added |-> {}, versions |-> {},
                 terminal |-> "none"]
    /\ checkpoint = [graph |-> PlannedGraph, runStatus |-> "PLANNING"]
    /\ faults = 0
    /\ cancelled = FALSE

coVars == <<co, result, attempts, builds, held, mutation, used, copies>>

\* An emission or a save raises.
Raises == faults < MaxFaults /\ faults' = faults + 1

-----------------------------------------------------------------------------
(* The scheduler coroutine                                                 *)

Begin ==
    /\ main = "admitted"
    /\ graph' = Admit(graph)
    /\ runStatus' = "RUNNING"
    /\ main' = "starting"
    /\ UNCHANGED <<wave, coVars, events, checkpoint, faults, cancelled>>

\* RUN_STARTED is emitted outside the try block.
RunStarted ==
    /\ main = "starting"
    /\ \/ main' = "loop" /\ UNCHANGED faults
       \/ main' = "raised" /\ Raises
    /\ UNCHANGED <<graph, runStatus, wave, coVars, events, checkpoint, cancelled>>

\* Altered form of FormWave: giving up without telling the log.
FormWaveSilent ==
    /\ main = "loop"
    /\ LET admitted == Admit(graph)
           blocked  == BlockFailedDependents(admitted)
       IN  \E ready \in Promotions(blocked) :
              /\ graph' = WithStatus(blocked, ready, "READY")
              /\ wave' = ready
              /\ runStatus' = IF ready # {} THEN runStatus
                              ELSE IF AllCompleted(admitted) THEN "REVIEW" ELSE "FAILED"
              /\ main' = IF ready # {} THEN "announcing" ELSE "sealing"
    /\ UNCHANGED <<coVars, events, checkpoint, faults, cancelled>>

\* Altered form of FormWave: polling again when nothing is ready.
FormWavePolling ==
    /\ main = "loop"
    /\ LET admitted == Admit(graph)
           blocked  == BlockFailedDependents(admitted)
       IN  \E ready \in Promotions(blocked) :
              /\ graph' = WithStatus(blocked, ready, "READY")
              /\ wave' = ready
              /\ runStatus' = IF AllCompleted(admitted) THEN "REVIEW" ELSE runStatus
              /\ main' = IF AllCompleted(admitted) THEN "closing"
                         ELSE IF ready # {} THEN "announcing" ELSE "loop"
    /\ UNCHANGED <<coVars, events, checkpoint, faults, cancelled>>

\* One pass of the loop up to its first emission: finish, or block, promote
\* and form the next wave, or give up.
FormWave ==
    /\ main = "loop"
    /\ LET admitted == Admit(graph)
           blocked  == BlockFailedDependents(admitted)
       IN  IF AllCompleted(admitted)
           THEN /\ graph' = admitted
                /\ runStatus' = "REVIEW"
                /\ main' = "closing"
                /\ UNCHANGED wave
           ELSE \E ready \in Promotions(blocked) :
                   /\ graph' = WithStatus(blocked, ready, "READY")
                   /\ wave' = ready
                   /\ runStatus' = IF ready # {} THEN runStatus
                                   ELSE IF SettledForReview(blocked) THEN "REVIEW" ELSE "FAILED"
                   /\ main' = IF ready # {} THEN "announcing" ELSE "closing"
    /\ UNCHANGED <<coVars, events, checkpoint, faults, cancelled>>

\* The reports of blocked tasks and the TASK_READY events are out: gather.
WaveAnnounced ==
    /\ main = "announcing"
    /\ \/ /\ main' = "gather"
          /\ co' = [t \in Task |-> IF t \in wave THEN "created" ELSE "idle"]
          /\ result' = [t \in Task |-> "none"]
          /\ UNCHANGED faults
       \/ main' = "raised" /\ Raises /\ UNCHANGED <<co, result>>
    /\ UNCHANGED <<graph, runStatus, wave, attempts, builds, held, mutation, used,
                   copies, events, checkpoint, cancelled>>

\* The handler of CancelledError, up to its RUN_FAILED event.
EnterCancellation ==
    /\ graph' = CancelTasks(graph)
    /\ runStatus' = "CANCELLED"
    /\ main' = "cancelling"

\* Altered form of WaveSettled: gather without return_exceptions.
WaveSettledOnFirstError ==
    /\ main = "gather"
    /\ \/ \A t \in wave : co[t] = "ended"
       \/ \E t \in wave : co[t] = "ended" /\ result[t] # "ok"
    /\ main' = "checkpointing"
    /\ UNCHANGED <<graph, runStatus, wave, coVars, events, checkpoint, faults, cancelled>>

\* gather returns when every coroutine has ended.
WaveSettled ==
    /\ main = "gather"
    /\ \A t \in wave : co[t] = "ended"
    /\ IF cancelled \/ \E t \in wave : result[t] = "cancelled"
       THEN EnterCancellation
       ELSE main' = "checkpointing" /\ UNCHANGED <<graph, runStatus>>
    /\ UNCHANGED <<wave, coVars, events, checkpoint, faults, cancelled>>

\* Altered form of Fatal: every LocalOutputFailure is tolerated.
FatalUnlessLocal(t) == result[t] \in { "error", "fatal" }

\* An error stops the run unless it is a LocalOutputFailure whose task
\* recorded an output that is not COMPLETED.
Fatal(t) ==
    \/ result[t] \in { "error", "fatal" }
    \/ result[t] = "local" /\ "degraded" \notin graph.outputs[t]

SaveCheckpoint == checkpoint' = [graph |-> graph, runStatus |-> runStatus]

WaveCheckpointed ==
    /\ main = "checkpointing"
    /\ \/ /\ SaveCheckpoint
          /\ IF \E t \in wave : Fatal(t)
             THEN /\ graph' = BlockFailedDependents(graph)
                  /\ runStatus' = "FAILED"
                  /\ main' = "closing"
             ELSE main' = "loop" /\ UNCHANGED <<graph, runStatus>>
          /\ wave' = {}
          /\ co' = Idle
          /\ UNCHANGED faults
       \/ main' = "raised" /\ Raises /\ UNCHANGED <<graph, runStatus, wave, co, checkpoint>>
    /\ UNCHANGED <<result, attempts, builds, held, mutation, used, copies, events, cancelled>>

\* RUN_STATUS_CHANGED(REVIEW) or RUN_FAILED(FAILED).
RunClosed ==
    /\ main = "closing"
    /\ \/ /\ main' = "sealing"
          /\ events' = IF runStatus = "FAILED" THEN [events EXCEPT !.terminal = "FAILED"]
                       ELSE events
          /\ UNCHANGED faults
       \/ main' = "raised" /\ Raises /\ UNCHANGED events
    /\ UNCHANGED <<graph, runStatus, wave, coVars, checkpoint, cancelled>>

\* RUN_FAILED(CANCELLED).  The store refuses an event after a terminal one.
CancellationClosed ==
    /\ main = "cancelling"
    /\ \/ /\ events.terminal = "none"
          /\ events' = [events EXCEPT !.terminal = "CANCELLED"]
          /\ main' = "sealing"
          /\ UNCHANGED faults
       \/ /\ events.terminal # "none"
          /\ main' = "raised"
          /\ UNCHANGED <<events, faults>>
       \/ main' = "raised" /\ Raises /\ UNCHANGED events
    /\ UNCHANGED <<graph, runStatus, wave, coVars, checkpoint, cancelled>>

\* Altered form of RunSealed: returning without the last checkpoint.
RunUnsealed ==
    /\ main = "sealing"
    /\ main' = IF runStatus = "REVIEW" THEN "returned" ELSE "raised"
    /\ UNCHANGED <<graph, runStatus, wave, coVars, checkpoint, events, faults, cancelled>>

\* The last checkpoint, then return or raise.
RunSealed ==
    /\ main = "sealing"
    /\ \/ /\ SaveCheckpoint
          /\ main' = IF runStatus = "REVIEW" THEN "returned" ELSE "raised"
          /\ UNCHANGED faults
       \/ main' = "raised" /\ Raises /\ UNCHANGED checkpoint
    /\ UNCHANGED <<graph, runStatus, wave, coVars, events, cancelled>>

SchedulerStep ==
    \/ Begin \/ RunStarted \/ FormWave \/ WaveAnnounced \/ WaveSettled
    \/ WaveCheckpointed \/ RunClosed \/ CancellationClosed \/ RunSealed

-----------------------------------------------------------------------------
(* The coroutine of a task: _execute_task                                  *)

coUnchanged == UNCHANGED <<runStatus, main, wave, checkpoint, cancelled>>

Go(t, place) == co' = [co EXCEPT ![t] = place]

End(t, r) == Go(t, "ended") /\ result' = [result EXCEPT ![t] = r]

\* The head of an attempt, up to the TASK_STARTED event.
BeginAttempt(t) ==
    /\ main = "gather" /\ ~cancelled
    /\ co[t] \in { "created", "backoff" }
    /\ CanTransition(graph.status[t], "READY")
    /\ graph' = SetStatus(graph, t, "RUNNING")
    /\ attempts' = [attempts EXCEPT ![t] = @ + 1]
    /\ Go(t, "starting")
    /\ UNCHANGED <<result, builds, held, mutation, used, copies, events, faults>>
    /\ coUnchanged

\* The TASK_STARTED event is out and the executor runs.
StartAnnounced(t) ==
    /\ ~cancelled
    /\ co[t] = "starting"
    /\ Go(t, "executing")
    /\ UNCHANGED <<graph, result, attempts, builds, held, mutation, used, copies, events, faults>>
    /\ coUnchanged

\* Altered form of EmissionRaises: a lost TASK_COMPLETED is swallowed.
EmissionSwallowed(t) ==
    /\ ~cancelled
    /\ co[t] \in { "starting", "backoff", "failing", "completing" }
    /\ Raises
    /\ End(t, IF co[t] = "completing" THEN "ok" ELSE "error")
    /\ UNCHANGED <<graph, attempts, builds, held, mutation, used, copies, events>>
    /\ coUnchanged

\* An emission of the coroutine outside the executor raises: nothing catches
\* it, the status stays as it is and the error is not a LocalOutputFailure.
EmissionRaises(t) ==
    /\ ~cancelled
    /\ co[t] \in { "starting", "backoff", "failing", "completing" }
    /\ Raises
    /\ End(t, "error")
    /\ UNCHANGED <<graph, attempts, builds, held, mutation, used, copies, events>>
    /\ coUnchanged

\* Altered form of Publish: the raw status is recorded, unclassified.
PublishUnclassified(g, t, outs) == [g EXCEPT !.outputs[t] = @ \cup {"PARTIAL"}]

\* Outputs the executor published on its task before it returned or raised.
Publish(g, t, outs) == [g EXCEPT !.outputs[t] = @ \cup outs]

\* The executor returned: the task completes unless its status forbids it.
ExecutorReturns(t) ==
    /\ ~cancelled
    /\ co[t] = "executing"
    /\ \E outs \in Publishable :
          IF CanTransition(graph.status[t], "COMPLETED")
          THEN /\ graph' = SetStatus(Publish(graph, t, outs), t, "COMPLETED")
               /\ Go(t, "completing")
               /\ UNCHANGED result
          ELSE graph' = Publish(graph, t, outs) /\ End(t, "error")
    /\ UNCHANGED <<attempts, builds, held, mutation, used, copies, events, faults>>
    /\ coUnchanged

CompletionAnnounced(t) ==
    /\ ~cancelled
    /\ co[t] = "completing"
    /\ End(t, "ok")
    /\ events' = [events EXCEPT !.completed = @ \cup {t}]
    /\ UNCHANGED <<graph, attempts, builds, held, mutation, used, copies, faults>>
    /\ coUnchanged

\* The except-Exception handler around the executor, on graph g: a failed
\* capability build keeps its status, a retryable error goes back to READY
\* while attempts remain, any other fails the task; a transition the table
\* forbids ends the coroutine with an error of its own.
HandleError(t, kind, g) ==
    LET s == g.status[t]
        retry == kind = "error" /\ attempts[t] < MaxAttempts
    IN  \/ /\ s = "CAPABILITY_BUILD_FAILED"
           /\ graph' = g
           /\ Go(t, "failing") /\ result' = [result EXCEPT ![t] = kind]
        \/ /\ s # "CAPABILITY_BUILD_FAILED" /\ retry /\ CanTransition(s, "READY")
           /\ graph' = SetStatus(g, t, "READY")
           /\ Go(t, "backoff") /\ UNCHANGED result
        \/ /\ s # "CAPABILITY_BUILD_FAILED" /\ ~retry /\ CanTransition(s, "FAILED")
           /\ graph' = SetStatus(g, t, "FAILED")
           /\ Go(t, "failing") /\ result' = [result EXCEPT ![t] = kind]
        \/ /\ s # "CAPABILITY_BUILD_FAILED"
           /\ ~CanTransition(s, IF retry THEN "READY" ELSE "FAILED")
           /\ graph' = g
           /\ End(t, "error")

ExecutorRaises(t) ==
    /\ ~cancelled
    /\ co[t] = "executing"
    /\ \E kind \in ErrorKind, outs \in Publishable :
          HandleError(t, kind, Publish(graph, t, outs))
    /\ UNCHANGED <<attempts, builds, held, mutation, used, copies, events, faults>>
    /\ coUnchanged

FailureAnnounced(t) ==
    /\ ~cancelled
    /\ co[t] = "failing"
    /\ Go(t, "ended")
    /\ events' = [events EXCEPT !.failed = @ \cup {t}]
    /\ UNCHANGED <<graph, result, attempts, builds, held, mutation, used, copies, faults>>
    /\ coUnchanged

-----------------------------------------------------------------------------
(* Graph mutation from an executor: _apply_atomic                          *)

\* The staged copy replaces the graph; the audit events are next.
Mutate(t, m) ==
    /\ ~cancelled
    /\ co[t] = "executing"
    /\ m.requester = t /\ m \notin used
    /\ Admissible(graph, m)
    /\ graph' = InvalidateReady(Staged(graph, m, copies + 1))
    /\ copies' = copies + 1
    /\ used' = used \cup {m}
    /\ mutation' = [mutation EXCEPT ![t] = [original |-> graph, added |-> m.added]]
    /\ Go(t, "mutating")
    /\ UNCHANGED <<result, attempts, builds, held, events, faults>>
    /\ coUnchanged

\* A mutation refused before it touches the graph raises in the executor.
MutationRefused(t, m) ==
    /\ ~cancelled
    /\ co[t] = "executing"
    /\ m.requester = t /\ m \notin used
    /\ ~Admissible(graph, m)
    /\ used' = used \cup {m}
    /\ HandleError(t, "error", graph)
    /\ UNCHANGED <<attempts, builds, held, mutation, copies, events, faults>>
    /\ coUnchanged

\* Every audit event is out; the last carries the graph's present version.
MutationAudited(t) ==
    /\ ~cancelled
    /\ co[t] = "mutating"
    /\ events' = [events EXCEPT !.added = @ \cup mutation[t].added,
                                !.versions = @ \cup {graph.version}]
    /\ Go(t, "executing")
    /\ mutation' = [mutation EXCEPT ![t] = NoMutation]
    /\ UNCHANGED <<graph, result, attempts, builds, held, used, copies, faults>>
    /\ coUnchanged

\* An audit event cannot be written, after none or some were: the graph this
\* mutation started from is put back and the error leaves the executor.
MutationRolledBack(t) ==
    /\ ~cancelled
    /\ co[t] = "mutating"
    /\ Raises
    /\ \E audited \in { {}, mutation[t].added } :
          events' = [events EXCEPT !.added = @ \cup audited]
    /\ HandleError(t, "error", mutation[t].original)
    /\ mutation' = [mutation EXCEPT ![t] = NoMutation]
    /\ UNCHANGED <<attempts, builds, held, used, copies>>
    /\ coUnchanged

-----------------------------------------------------------------------------
(* Waiting for a generated capability: lookup_or_build.  The builder keeps *)
(* the Task object it found, so it writes to the copy it holds: the graph  *)
(* in place, or one that a mutation in progress may put back.              *)

WriteHeld(t, s) ==
    LET Write(g) == IF g.copy = held[t] THEN SetStatus(g, t, s) ELSE g
    IN  /\ graph' = Write(graph)
        /\ mutation' = [u \in Task |-> [mutation[u] EXCEPT !.original = Write(@)]]

BeginBuild(t) ==
    /\ ~cancelled
    /\ co[t] = "executing"
    /\ graph.status[t] = "RUNNING"
    /\ t \in Builder /\ builds[t] < MaxBuilds
    /\ builds' = [builds EXCEPT ![t] = @ + 1]
    /\ held' = [held EXCEPT ![t] = graph.copy]
    /\ graph' = SetStatus(graph, t, "WAITING_FOR_CAPABILITY")
    /\ Go(t, "building")
    /\ UNCHANGED <<result, attempts, mutation, used, copies, events, faults>>
    /\ coUnchanged

\* The build ends and control returns to the executor, with the capability
\* active (READY, then RUNNING), the sandbox unavailable (RUNNING), or the
\* build failed.
BuildEnds(t) ==
    /\ ~cancelled
    /\ co[t] = "building"
    /\ \E s \in { "RUNNING", "CAPABILITY_BUILD_FAILED" } : WriteHeld(t, s)
    /\ held' = [held EXCEPT ![t] = 0]
    /\ Go(t, "executing")
    /\ UNCHANGED <<result, attempts, builds, used, copies, events, faults>>
    /\ coUnchanged

\* The gap, a build record or an audit event cannot be stored: the builder
\* raises out of the executor and the status stays WAITING_FOR_CAPABILITY.
BuildInterrupted(t) ==
    /\ ~cancelled
    /\ co[t] = "building"
    /\ Raises
    /\ HandleError(t, "error", graph)
    /\ held' = [held EXCEPT ![t] = 0]
    /\ UNCHANGED <<attempts, builds, mutation, used, copies, events>>
    /\ coUnchanged

-----------------------------------------------------------------------------
(* Cancellation                                                            *)

\* The run's task is cancelled at one of its awaits.  During gather the
\* coroutines are cancelled first; a CancelledError at RUN_STARTED is outside
\* the try block; an emission under way may already be durable.
CancelRun ==
    /\ MayCancel /\ ~cancelled
    /\ cancelled' = TRUE
    /\ \/ main = "starting" /\ main' = "raised" /\ UNCHANGED <<graph, runStatus, events>>
       \/ main = "gather" /\ UNCHANGED <<main, graph, runStatus, events>>
       \/ /\ main \in { "announcing", "checkpointing", "sealing" }
          /\ EnterCancellation
          /\ UNCHANGED events
       \/ /\ main = "closing"
          /\ EnterCancellation
          /\ events' \in { events,
                           IF runStatus = "FAILED" THEN [events EXCEPT !.terminal = "FAILED"]
                           ELSE events }
    /\ UNCHANGED <<wave, coVars, checkpoint, faults>>

\* CancelledError reaches a coroutine at its await.  The executor's handler
\* marks the task; elsewhere the status stays.
Abandon(t) ==
    /\ cancelled /\ main = "gather"
    /\ co[t] \notin { "idle", "ended" }
    /\ End(t, "cancelled")
    /\ graph' = IF co[t] \in { "executing", "building", "mutating" }
                THEN SetStatus(graph, t, "CANCELLED") ELSE graph
    /\ events' \in { events,
                     CASE co[t] = "completing" -> [events EXCEPT !.completed = @ \cup {t}]
                       [] co[t] = "failing"    -> [events EXCEPT !.failed = @ \cup {t}]
                       [] co[t] = "mutating"   -> [events EXCEPT !.added = @ \cup mutation[t].added]
                       [] OTHER                -> events }
    /\ mutation' = [mutation EXCEPT ![t] = NoMutation]
    /\ held' = [held EXCEPT ![t] = 0]
    /\ UNCHANGED <<attempts, builds, used, copies, faults>>
    /\ coUnchanged

-----------------------------------------------------------------------------
(* The next-state relation                                                 *)

CoroutineStep(t) ==
    \/ BeginAttempt(t) \/ StartAnnounced(t) \/ EmissionRaises(t)
    \/ ExecutorReturns(t) \/ CompletionAnnounced(t)
    \/ ExecutorRaises(t) \/ FailureAnnounced(t)
    \/ \E m \in Mutations : Mutate(t, m) \/ MutationRefused(t, m)
    \/ MutationAudited(t) \/ MutationRolledBack(t)
    \/ BeginBuild(t) \/ BuildEnds(t) \/ BuildInterrupted(t)
    \/ Abandon(t)

\* The run's task is over: execute returned or raised.
Finished == main \in Over /\ UNCHANGED vars

Next == SchedulerStep \/ CancelRun \/ Finished \/ \E t \in Task : CoroutineStep(t)

Spec == Init /\ [][Next]_vars

\* The event loop keeps running ready coroutines, and every executor ends
\* within its stage's time limit.  Nothing obliges anyone to cancel the run.
Fairness == WF_vars(SchedulerStep) /\ \A t \in Task : WF_vars(CoroutineStep(t))

FairSpec == Spec /\ Fairness

-----------------------------------------------------------------------------
(* Properties                                                              *)

\* Types of RuntimeState, of the coroutines of execute and _execute_task, and
\* of what the event log and the checkpoint store hold of the run.
TypeOK ==
    /\ graph \in Graph
    /\ runStatus \in RunStatus
    /\ main \in MainPlace
    /\ wave \in SUBSET Task
    /\ co \in [Task -> CoPlace]
    /\ result \in [Task -> Result]
    /\ attempts \in [Task -> Nat]
    /\ builds \in [Task -> Nat]
    /\ held \in [Task -> Nat]
    /\ mutation \in [Task -> [original : Graph, added : SUBSET Task]]
    /\ used \in SUBSET Mutations
    /\ copies \in Nat
    /\ events \in EventLog
    /\ checkpoint \in Checkpoint
    /\ faults \in Nat
    /\ cancelled \in BOOLEAN

\* When execute has returned or raised, no coroutine of the run is still
\* holding a task: gather waits for every one, also on failure and
\* cancellation, so no late answer reaches a closed run.
NoOrphanWork ==
    main \in Over \cup { "closing", "cancelling", "sealing" } =>
        \A t \in Task : co[t] \in { "idle", "ended" }

\* A run goes to review only when every task is completed, or when all are
\* settled and each failed one recorded its degraded output: an integrity
\* error or a crashed task never reaches review.
ReviewIsEarned ==
    runStatus = "REVIEW" =>
        \/ AllCompleted(graph)
        \/ /\ SettledForReview(graph)
           /\ \A t \in graph.tasks :
                graph.status[t] = "FAILED" => "degraded" \in graph.outputs[t]

\* No sequence of approved mutations, failed audits and rollbacks leaves an
\* actual graph with a cycle or an edge to a task it does not have.
ActualGraphWellFormed == WellFormed(graph.tasks, graph.deps)

\* A run returned for review has told the log: the TASK_COMPLETED of each
\* completed task is durable.  If no write failed, no other task's is, the log
\* names every task that _apply_atomic added, and no later version than the
\* graph's.
ReturnedRunIsLogged ==
    main = "returned" =>
        /\ InStatus(graph, {"COMPLETED"}) \subseteq events.completed
        /\ faults = 0 =>
              /\ events.completed \subseteq InStatus(graph, {"COMPLETED"})
              /\ graph.tasks = Planned \cup events.added
              /\ \A v \in events.versions : v <= graph.version

\* The checkpoint a returned or cleanly failed run leaves is its final state.
FinalCheckpointIsCurrent ==
    (main = "returned" \/ (main = "raised" /\ faults = 0 /\ ~cancelled)) =>
        checkpoint = [graph |-> graph, runStatus |-> runStatus]

\* A run that execute gave up on, without losing an emission, has its
\* terminal event in the log; that of a run nobody cancelled carries its status.
FailureIsAnnounced ==
    (main = "raised" /\ faults = 0 /\ runStatus # "RUNNING") =>
        /\ events.terminal # "none"
        /\ ~cancelled => events.terminal = runStatus

\* While every emission succeeds, a completed task stays completed, whatever
\* its neighbours' executors do to the graph between its awaits.
CompletionSurvivesReplans ==
    [][ faults' = 0 =>
            \A t \in Task : graph.status[t] = "COMPLETED" => graph'.status[t] = "COMPLETED" ]_vars

\* What t waits for is there: every predecessor completed or, under an output
\* contract, over, with each hard input available.
Satisfied(t) ==
    \A p \in graph.deps[t] :
        IF t \in Required
        THEN graph.status[p] \in Settled
                /\ \A a \in HardInput[t] : "available" \in graph.outputs[a]
        ELSE graph.status[p] = "COMPLETED"

\* A task starts only when its edges and its output contract are satisfied
\* in the graph as it is at that moment, replans included.
StartsSatisfied ==
    [][ \A t \in Task : attempts'[t] # attempts[t] => Satisfied(t) ]_vars

\* COMPLETED has no successor in the transition table.
CompletedIsFinal ==
    [][ \A t \in Task : graph.status[t] = "COMPLETED" => graph'.status[t] = "COMPLETED" ]_vars

\* The scheduler keeps the promise of RunPromise.
Promise == INSTANCE RunPromise WITH
    open <- main \notin Over,
    live <- { t \in Task : co[t] \in Working },
    done <- events.completed

KeepsPromise == Promise!Spec

\* Every run ends.
RunEnds == <>(main \in Over)

=============================================================================
