----------------------------- MODULE PublishedRun -----------------------------
(***************************************************************************)
(* What a reader of one run may rely on: the published events only grow,   *)
(* the run's status becomes terminal in the step that publishes the        *)
(* terminal event, that event is the last, and the outcome then stays.     *)
(***************************************************************************)
EXTENDS RunOutcome, Sequences, Naturals

VARIABLES
    view,       \* the events published so far
    status      \* the published status of the run

StatusAfter(s) == IF IsTerminal(s[Len(s)]) THEN Outcome[s[Len(s)]] ELSE "RUNNING"

Open(s) == s # <<>> /\ \A i \in 1..(Len(s) - 1) : ~IsTerminal(s[i])

Init == Open(view) /\ status = StatusAfter(view)

Extends(t, s) == Len(t) > Len(s) /\ SubSeq(t, 1, Len(s)) = s

Advance ==
    /\ ~IsTerminal(view[Len(view)])
    /\ Extends(view', view)
    /\ Open(view')
    /\ status' = StatusAfter(view')

Spec == Init /\ [][Advance]_<<view, status>>
=============================================================================
