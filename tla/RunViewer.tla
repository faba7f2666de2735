------------------------------- MODULE RunViewer -------------------------------
(***************************************************************************)
(* A browser page that follows one run: loadRun of                         *)
(* apps/web/src/Phase4Application.tsx with its reducer                     *)
(* (state/runtimeEventReducer.ts) and transport                            *)
(* (runtime/SSERuntimeTransport.ts), against the projection and the event  *)
(* stream (src/runtime/sse.py) that the server of RunPublication offers.   *)
(*                                                                         *)
(* The page loads a snapshot, subscribes at its watermark, applies patches *)
(* and, on any other event, loads a newer snapshot; connections and        *)
(* requests fail at most MaxDrops times, and the user or an "online" event *)
(* reloads at most MaxReloads times.                                       *)
(***************************************************************************)
EXTENDS RunPublication

CONSTANTS
    MaxDrops,   \* bound: requests and connections that fail
    MaxReloads  \* bound: reloads nobody asked the page for

ASSUME ViewerAssumption == MaxDrops \in Nat /\ MaxReloads \in Nat

VARIABLES
    page,       \* what the page is doing
    shown,      \* runtimeState: the snapshot with the patches applied to it
    reply,      \* answer to the outstanding projection request
    sent,       \* last event the open stream has sent
    drops,      \* failed requests and connections
    reloads     \* reloads so far

viewVars == <<page, shown, reply, sent, drops, reloads>>
allVars == <<serverVars, viewVars>>

Page == { "loading", "connecting", "open", "refreshing", "backoff", "rejected",
          "terminal", "lost" }

\* base is the snapshot's sequence, sequence the last patch applied to it,
\* pending the event that asked for a new snapshot (0: none).
Nothing == [base |-> 0, sequence |-> 0, revision |-> 0, status |-> "RUNNING", pending |-> 0]
NoReply == [row |-> [status |-> "RUNNING", sequence |-> 0, revision |-> 0], valid |-> FALSE]

ViewInit ==
    /\ Init
    /\ page = "loading"
    /\ shown = Nothing
    /\ reply = NoReply
    /\ sent = 0
    /\ drops = 0
    /\ reloads = 0

Drop == drops < MaxDrops /\ drops' = drops + 1

-----------------------------------------------------------------------------
(* Loading a snapshot                                                      *)

\* loadRun: a new epoch; the stream and answers to earlier requests are void.
Load ==
    /\ page' = "loading"
    /\ reply' = NoReply
    /\ sent' = 0

\* _build_projection raises on a row whose status is not that of its last event.
Projectable(r) ==
    r.status \in Terminal => IsTerminal(log[r.sequence]) /\ r.status = Outcome[log[r.sequence]]

ServeProjection ==
    /\ page = "loading"
    /\ reply = NoReply
    /\ reply' = [row |-> row, valid |-> Projectable(row)]
    /\ UNCHANGED <<serverVars, page, shown, sent, drops, reloads>>

LaterOf(m, n) == IF m > n THEN m ELSE n

\* reconcileRunRuntimeState accepts the snapshot r.  Its check that the snapshot
\* has the graph version of the event that asked for it is left out: the events
\* and rows of RunPublication carry no graph.
Reconciles(r) ==
    /\ r.sequence >= LaterOf(shown.sequence, shown.pending)
    /\ r.revision >= shown.revision
    /\ r.sequence > shown.base => r.revision > shown.revision
    /\ shown.pending # 0 /\ IsTerminal(log[shown.pending]) => r.status \in Terminal

\* A refused snapshot or a non-retryable answer takes the page away.
Install ==
    /\ page = "loading"
    /\ reply # NoReply
    /\ LET r == reply.row IN
       IF reply.valid /\ (shown = Nothing \/ Reconciles(r))
       THEN /\ shown' = [base |-> r.sequence, sequence |-> r.sequence,
                         revision |-> r.revision, status |-> r.status, pending |-> 0]
            /\ page' = IF r.status \in Terminal THEN "terminal" ELSE "connecting"
       ELSE shown' = Nothing /\ page' = "lost"
    /\ reply' = NoReply
    /\ UNCHANGED <<serverVars, sent, drops, reloads>>

\* The request fails in transit: what is shown is kept, if there is anything.
LoseProjection ==
    /\ page = "loading"
    /\ Drop
    /\ page' = IF shown = Nothing THEN "lost" ELSE "backoff"
    /\ reply' = NoReply
    /\ UNCHANGED <<serverVars, shown, sent, reloads>>

\* The timers behind a refresh event and behind a lost connection.
Refresh ==
    /\ page \in {"refreshing", "backoff"}
    /\ Load
    /\ UNCHANGED <<serverVars, shown, drops, reloads>>

\* An "online" event, or the retry button of a lost page.
Reload ==
    /\ page = "lost" \/ shown # Nothing
    /\ reloads < MaxReloads
    /\ reloads' = reloads + 1
    /\ Load
    /\ UNCHANGED <<serverVars, shown, drops>>

-----------------------------------------------------------------------------
(* Following the stream                                                    *)

\* Altered form of Watermark: the whole durable log.
WatermarkUnfiltered == Len(log)

\* What the publishing store lets a stream read.
Watermark == row.sequence

\* runtime_event_stream is admitted unless the cursor is ahead of what is
\* public; at a terminal event it only says so, and the page loads again.
Connect ==
    /\ page = "connecting"
    /\ IF shown.sequence > Watermark
       THEN page' = "rejected" /\ UNCHANGED <<reply, sent>>
       ELSE IF IsTerminal(log[shown.sequence])
       THEN Load
       ELSE page' = "open" /\ sent' = shown.sequence /\ UNCHANGED reply
    /\ UNCHANGED <<serverVars, shown, drops, reloads>>

\* The stream sends events that are public; after a terminal one it closes.
Send ==
    /\ page = "open"
    /\ \E n \in (sent + 1)..Watermark : sent' = n
    /\ UNCHANGED <<serverVars, page, shown, reply, drops, reloads>>

\* Altered form of Receive: a refresh event is only counted.
ReceiveCounting ==
    /\ page = "open"
    /\ shown.sequence < sent
    /\ shown' = [shown EXCEPT !.sequence = @ + 1]
    /\ UNCHANGED <<serverVars, page, reply, sent, drops, reloads>>

\* The page takes the next frame.  Anything but a patch stops the transport.
Receive ==
    /\ page = "open"
    /\ shown.sequence < sent
    /\ LET n == shown.sequence + 1 IN
       IF log[n] = "patch"
       THEN shown' = [shown EXCEPT !.sequence = n] /\ UNCHANGED page
       ELSE shown' = [shown EXCEPT !.pending = n] /\ page' = "refreshing"
    /\ UNCHANGED <<serverVars, reply, sent, drops, reloads>>

Disconnect ==
    /\ page \in {"connecting", "open"}
    /\ Drop
    /\ page' = "backoff"
    /\ UNCHANGED <<serverVars, shown, reply, sent, reloads>>

Follow == ServeProjection \/ Install \/ Refresh \/ Connect \/ Send \/ Receive

ViewStep == Follow \/ LoseProjection \/ Reload \/ Disconnect

ViewNext == (Next /\ UNCHANGED viewVars) \/ ViewStep

\* The page's timers fire and its requests are answered, or fail for good.
ViewSpec ==
    /\ ViewInit
    /\ [][ViewNext]_allVars
    /\ WF_allVars(Progress /\ UNCHANGED viewVars)
    /\ WF_allVars(Follow)

-----------------------------------------------------------------------------
(* Properties                                                              *)

\* Types of the run's state and of the page's, and that nothing is shown before it
\* is public.
ViewTypeOK ==
    /\ TypeOK
    /\ page \in Page
    /\ shown \in [base : Nat, sequence : Nat, revision : Nat, status : RunStatus, pending : Nat]
    /\ shown.base <= shown.sequence /\ LaterOf(shown.sequence, shown.pending) <= row.sequence
    /\ reply \in [row : [status : RunStatus, sequence : Nat, revision : Nat], valid : BOOLEAN]
    /\ sent \in 0..row.sequence
    /\ drops \in 0..MaxDrops /\ reloads \in 0..MaxReloads

\* A run that is shown stays shown: no snapshot the page loads because of an
\* event contradicts that event (reconcileRunRuntimeState never raises), even
\* when the process stops or connections fail.
KeepsPage == [][shown # Nothing => shown' # Nothing]_shown

\* An outcome that is shown is the run's, and its terminal event was durable,
\* whatever the database, the network and the user did meanwhile.
OutcomeIsReal ==
    shown.status \in Terminal =>
        shown.status = row.status /\ Outcome[log[shown.base]] = shown.status

\* A run that is not stopped ends public, and the page ends showing all that is
\* public of the run, the status included, or was lost before anything was shown
\* and waits for the user: no event that stops the transport leaves it without
\* the timer that loads a new snapshot.
Converges ==
    /\ RunPublished
    /\ <>[](\/ shown.sequence = row.sequence /\ shown.status = row.status
            \/ page = "lost")
=============================================================================
