------------------------------ MODULE RunPromise ------------------------------
(***************************************************************************)
(* What the scheduler promises its caller about a run, whatever its graph, *)
(* replans, retries, failed emissions and cancellation: tasks are worked   *)
(* on only while the run is open, a completion is logged by a task that    *)
(* was being worked on and is never unlogged, and the run closes once,     *)
(* with nothing in flight.                                                 *)
(***************************************************************************)
CONSTANT Task

VARIABLES
    open,   \* the run is being executed
    live,   \* tasks some coroutine is working on
    done    \* tasks whose completion the log holds

promiseVars == <<open, live, done>>

Init == open = TRUE /\ live = {} /\ done = {}

Start(t) ==
    /\ open /\ t \notin live
    /\ live' = live \cup {t}
    /\ UNCHANGED <<open, done>>

Complete(t) ==
    /\ open /\ t \in live
    /\ live' = live \ {t}
    /\ done' = done \cup {t}
    /\ UNCHANGED open

\* A failure, an interrupted emission or a cancellation; a retry is a new
\* Start.
GiveUp(t) ==
    /\ open /\ t \in live
    /\ live' = live \ {t}
    /\ UNCHANGED <<open, done>>

Close ==
    /\ open /\ live = {}
    /\ open' = FALSE
    /\ UNCHANGED <<live, done>>

Next == Close \/ \E t \in Task : Start(t) \/ Complete(t) \/ GiveUp(t)

Spec == Init /\ [][Next]_promiseVars

=============================================================================
