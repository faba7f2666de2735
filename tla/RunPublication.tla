---------------------------- MODULE RunPublication ----------------------------
(***************************************************************************)
(* The execution of one started run, as its readers see it: the durable    *)
(* event log (src/infrastructure/database/postgresql_events.py), the       *)
(* aggregate row with the status and the watermark up to which events are  *)
(* public (src/application/persistence.py), and the code that moves both:  *)
(* ResearchApplicationService.execute_run and the publishing event store   *)
(* of src/phase4_product/postgresql_backend.py.                            *)
(*                                                                         *)
(* An emission is four steps of its coroutine: the event is committed to   *)
(* the log, the projection lock is taken, the row is saved together with   *)
(* the watermark, the lock is released.  TaskScheduler details what the    *)
(* scheduler does meanwhile.                                               *)
(***************************************************************************)
EXTENDS RunOutcome, Naturals, Sequences

CONSTANTS
    Task,       \* coroutines of the scheduler that emit events
    Main,       \* the coroutine of execute_run
    MaxEvents,  \* bound: events besides the terminal one
    MaxFaults,  \* bound: database operations that fail
    MayCancel,  \* whether close() may cancel the execution in its scheduler
    MayCrash    \* whether the process may stop anywhere

Proc == Task \cup {Main}
NoProc == "nobody"

ASSUME PublicationAssumption ==
    /\ Main \notin Task
    /\ NoProc \notin Proc
    /\ MaxEvents \in Nat \ {0}
    /\ MaxFaults \in Nat
    /\ MayCancel \in BOOLEAN
    /\ MayCrash \in BOOLEAN

VARIABLES
    log,        \* runtime_events: the kind of each event, by sequence
    row,        \* the run's row in research_runs
    live,       \* aggregate.run.status in the repository's identity map
    exec,       \* where execute_run and its caller are
    at,         \* [Proc -> where the coroutine's emission is]
    entry,      \* [Proc -> the event being emitted]
    lock,       \* holder of _projection_lock
    faults      \* database operations that failed

serverVars == <<log, row, live, exec, at, entry, lock, faults>>

EmissionPlace == { "idle", "inserting", "waiting", "saving" }
ExecPlace == { "scheduling", "failing", "sealing", "cancelling", "reviewing", "releasing",
               "handling", "terminating", "persisting", "publishing", "done", "stopped" }

LastEvent == log[Len(log)]
Published == SubSeq(log, 1, row.sequence)

\* RUN_STARTED is published in the transaction that starts the run.
Init ==
    /\ log = <<"patch">>
    /\ row = [status |-> "RUNNING", sequence |-> 1, revision |-> 1]
    /\ live = "RUNNING"
    /\ exec = "scheduling"
    /\ at = [p \in Proc |-> "idle"]
    /\ entry = [p \in Proc |-> [kind |-> "patch", sequence |-> 0]]
    /\ lock = NoProc
    /\ faults = 0

-----------------------------------------------------------------------------
(* Emissions                                                               *)

\* Where execute_run goes when an emission of its own returns or raises.
\* An error in the handler of a cancellation replaces the cancellation.
AfterReturn == [reviewing |-> "reviewing", failing |-> "sealing", releasing |-> "persisting",
                terminating |-> "persisting", cancelling |-> "stopped"]
AfterRaise  == [reviewing |-> "handling", failing |-> "handling", releasing |-> "handling",
                terminating |-> "publishing", cancelling |-> "handling"]

Emit(p, kind) ==
    /\ at[p] = "idle"
    /\ at' = [at EXCEPT ![p] = "inserting"]
    /\ entry' = [entry EXCEPT ![p] = [kind |-> kind, sequence |-> 0]]

Return(p) ==
    /\ at' = [at EXCEPT ![p] = "idle"]
    /\ exec' = IF p = Main THEN AfterReturn[exec] ELSE exec

Raise(p) ==
    /\ at' = [at EXCEPT ![p] = "idle"]
    /\ exec' = IF p = Main THEN AfterRaise[exec] ELSE exec

Fault == faults < MaxFaults /\ faults' = faults + 1

\* Altered form of Refused: only a completed run is closed.
RefusedIfCompleted == LastEvent = "completed"

\* _reject_post_terminal_write, under the run's advisory lock.
Refused == IsTerminal(LastEvent)

Commit(p) ==
    /\ at[p] = "inserting"
    /\ IF Refused
       THEN /\ Raise(p)
            /\ UNCHANGED <<log, entry>>
       ELSE /\ log' = Append(log, entry[p].kind)
            /\ entry' = [entry EXCEPT ![p].sequence = Len(log) + 1]
            /\ at' = [at EXCEPT ![p] = "waiting"]
            /\ UNCHANGED exec
    /\ UNCHANGED <<row, live, lock, faults>>

\* The insert fails, or it succeeds and its answer is lost.
LoseCommit(p) ==
    /\ at[p] = "inserting"
    /\ ~Refused
    /\ Fault
    /\ log' \in { log, Append(log, entry[p].kind) }
    /\ Raise(p)
    /\ UNCHANGED <<row, live, entry, lock>>

\* Altered form of LiveAfter: leaving the status to the caller of emit.
LiveUntouched(kind) == live

\* The status _publish_runtime_event gives the aggregate.
LiveAfter(kind) == IF kind \in {"failed", "cancelled"} THEN Outcome[kind] ELSE live

TakeLock(p) ==
    /\ at[p] = "waiting"
    /\ lock = NoProc
    /\ lock' = p
    /\ live' = LiveAfter(entry[p].kind)
    /\ at' = [at EXCEPT ![p] = "saving"]
    /\ UNCHANGED <<log, row, exec, entry, faults>>

\* Altered form of SavedRow: the watermark follows the last save.
SavedRowUnordered(n) == [status |-> live, sequence |-> n, revision |-> row.revision + 1]

\* save_run_with_projection_watermark: an event that is already public saves nothing.
SavedRow(n) ==
    IF n <= row.sequence THEN row
    ELSE [status |-> live, sequence |-> n, revision |-> row.revision + 1]

SaveWithWatermark(p) ==
    /\ at[p] = "saving"
    /\ row' = SavedRow(entry[p].sequence)
    /\ lock' = NoProc
    /\ Return(p)
    /\ UNCHANGED <<log, live, entry, faults>>

LoseSave(p) ==
    /\ at[p] = "saving"
    /\ Fault
    /\ row' \in { row, SavedRow(entry[p].sequence) }
    /\ lock' = NoProc
    /\ Raise(p)
    /\ UNCHANGED <<log, live, entry>>

-----------------------------------------------------------------------------
(* execute_run and _execute_started_run                                    *)

EmitOrdinary(p) ==
    /\ exec = IF p = Main THEN "reviewing" ELSE "scheduling"
    /\ Len(log) < MaxEvents
    /\ \E kind \in Ordinary : Emit(p, kind)
    /\ UNCHANGED <<log, row, live, exec, lock, faults>>

TasksIdle == \A t \in Task : at[t] = "idle"

SchedulerReturns ==
    /\ exec = "scheduling"
    /\ TasksIdle
    /\ exec' = "reviewing"
    /\ UNCHANGED <<log, row, live, at, entry, lock, faults>>

\* The scheduler gives up: it writes RUN_FAILED and raises.
SchedulerFails ==
    /\ exec = "scheduling"
    /\ TasksIdle
    /\ exec' = "failing"
    /\ Emit(Main, "failed")
    /\ UNCHANGED <<log, row, live, lock, faults>>

\* The scheduler's last checkpoint, after which it raises.
Sealed ==
    /\ exec = "sealing"
    /\ exec' = "handling"
    /\ UNCHANGED <<log, row, live, at, entry, lock, faults>>

\* _assure_and_release raises: the review or the release gate blocks the run.
ReviewRaises ==
    /\ exec = "reviewing"
    /\ at[Main] = "idle"
    /\ exec' = "handling"
    /\ UNCHANGED <<log, row, live, at, entry, lock, faults>>

Release ==
    /\ exec = "reviewing"
    /\ live' = "RELEASED"
    /\ exec' = "releasing"
    /\ Emit(Main, "completed")
    /\ UNCHANGED <<log, row, lock, faults>>

\* The except block: it replays the public events, and writes RUN_FAILED
\* unless the last of them is one.
Handle ==
    /\ exec = "handling"
    /\ LET last == log[row.sequence] IN
       IF last \in {"failed", "cancelled"}
       THEN live' = Outcome[last] /\ exec' = "persisting" /\ UNCHANGED <<at, entry>>
       ELSE live' = "FAILED" /\ exec' = "terminating" /\ Emit(Main, "failed")
    /\ UNCHANGED <<log, row, lock, faults>>

LoseReplay ==
    /\ exec = "handling"
    /\ Fault
    /\ exec' = "publishing"
    /\ UNCHANGED <<log, row, live, at, entry, lock>>

\* save_run; _execute_started_run swallows its exception too.
Persist ==
    /\ exec = "persisting"
    /\ \/ row' = [row EXCEPT !.status = live] /\ UNCHANGED faults
       \/ row' = row /\ Fault
    /\ exec' = "publishing"
    /\ UNCHANGED <<log, live, at, entry, lock>>

\* _publish_latest_projection_watermark
PublishLatest ==
    /\ exec = "publishing"
    /\ \/ /\ row' = [row EXCEPT !.sequence = Len(log), !.revision = @ + 1]
          /\ UNCHANGED faults
       \/ row' = row /\ Fault
    /\ exec' = "done"
    /\ UNCHANGED <<log, live, at, entry, lock>>

-----------------------------------------------------------------------------
(* Shutdown                                                                *)

DropEmissions ==
    /\ at' = [p \in Proc |-> "idle"]
    /\ lock' = NoProc

\* close() cancels the execution while the scheduler runs, which then writes
\* RUN_FAILED with status CANCELLED; elsewhere a cancellation only stops it.
Cancel ==
    /\ MayCancel
    /\ exec \in {"scheduling", "failing", "sealing"}
    /\ exec' = "cancelling"
    /\ at' = [p \in Proc |-> IF p = Main THEN "inserting" ELSE "idle"]
    /\ entry' = [entry EXCEPT ![Main] = [kind |-> "cancelled", sequence |-> 0]]
    /\ lock' = NoProc
    /\ UNCHANGED <<log, row, live, faults>>

\* A crash, or a cancellation outside the scheduler.  No later start of the
\* process lists a run whose admission is ACKNOWLEDGED.
Stop ==
    /\ MayCrash
    /\ exec \notin {"done", "stopped"}
    /\ exec' = "stopped"
    /\ DropEmissions
    /\ UNCHANGED <<log, row, live, entry, faults>>

EmissionStep(p) ==
    Commit(p) \/ LoseCommit(p) \/ TakeLock(p) \/ SaveWithWatermark(p) \/ LoseSave(p)

ExecutionStep ==
    SchedulerReturns \/ SchedulerFails \/ Sealed \/ ReviewRaises \/ Release \/ Handle
    \/ LoseReplay \/ Persist \/ PublishLatest

Progress == ExecutionStep \/ \E p \in Proc : EmissionStep(p) \/ EmitOrdinary(p)

Next == Progress \/ Cancel \/ Stop

\* asyncio runs every coroutine that can run, and the scheduler's loop ends.
Spec == Init /\ [][Next]_serverVars /\ WF_serverVars(Progress)

-----------------------------------------------------------------------------
(* Properties                                                              *)

\* Types of the server's state: log and row of research_runs, the aggregate
\* of the identity map, emissions and the projection lock.
TypeOK ==
    /\ log \in Seq(Kind)
    /\ row \in [status : RunStatus, sequence : 1..Len(log), revision : Nat \ {0}]
    /\ live \in RunStatus
    /\ exec \in ExecPlace
    /\ at \in [Proc -> EmissionPlace]
    /\ entry \in [Proc -> [kind : Kind, sequence : 0..Len(log)]]
    /\ lock \in Proc \cup {NoProc}
    /\ \A p \in Proc : lock = p <=> at[p] = "saving"
    /\ faults \in 0..MaxFaults

\* While no database operation fails and nothing is cancelled, what row and log
\* show of the run implements PublishedRun: concurrent emissions and crashes
\* included, _publish_runtime_event makes status and terminal event public
\* together, once, and they stay.
View == INSTANCE PublishedRun WITH view <- Published, status <- row.status
PublishesRun == View!Spec

\* A run that is not stopped ends with all its events public and a terminal
\* status: _publish_latest_projection_watermark leaves no event behind.
RunPublished ==
    <>[](\/ exec = "done" /\ row.sequence = Len(log) /\ row.status \in Terminal
         \/ exec = "stopped")

\* Whatever fails, is cancelled or crashes, a terminal status that execute_run or
\* _publish_runtime_event stored is the outcome of the run's last event, and
\* that event is public: no reader finds a finished run that is still moving.
OutcomeIsLast ==
    row.status \in Terminal =>
        /\ row.sequence = Len(log)
        /\ IsTerminal(LastEvent)
        /\ row.status = Outcome[LastEvent]

\* When the worker publishes the last watermark, and with it the terminal event,
\* the FAILED aggregate has been saved too (comment of _execute_started_run).
AggregateIsPersisted ==
    exec = "done" /\ IsTerminal(log[row.sequence]) => row.status \in Terminal
=============================================================================
