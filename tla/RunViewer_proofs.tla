---------------------------- MODULE RunViewer_proofs ----------------------------
(***************************************************************************)
(* Proofs about RunViewer, for every set of tasks and every bound: that    *)
(* nothing is shown before it is public; that an outcome the page shows is *)
(* the run's, whatever fails; and that, while no database operation fails  *)
(* and nothing is cancelled, a page never gives a shown run up.            *)
(***************************************************************************)
EXTENDS RunViewer, RunPublication_proofs

-----------------------------------------------------------------------------
(* What a step of the server does to the row, and the page to nothing      *)

\* Row and log only move on, and rest once the row has an outcome.
MovesOn ==
    /\ row'.sequence >= row.sequence /\ row'.revision >= row.revision
    /\ row'.sequence > row.sequence => row'.revision > row.revision
    /\ Len(log') >= Len(log) /\ \A i \in 1..Len(log) : log'[i] = log[i]
    /\ row.status \in Terminal => row'.status = row.status /\ log' = log

LEMMA SavedMovesOn ==
    ASSUME PInv, NEW p \in Proc, at[p] = "saving", row' \in {row, SavedRow(entry[p].sequence)},
           UNCHANGED log
    PROVE  MovesOn
  <1>1. entry[p].sequence \in 1..Len(log)
    BY DEF PInv, EmissionInv, EntriesAreCommitted
  <1>2. row \in [status : RunStatus, sequence : 1..Len(log), revision : Nat \ {0}]
    BY DEF PInv, TypeOK
  <1>3. row.status \in Terminal => row.sequence = Len(log)
    BY DEF PInv, LogInv, OutcomeIsLast
  <1>4. Len(log) \in Nat
    BY DEF PInv, TypeOK
  <1>5. QED
    BY <1>1, <1>2, <1>3, <1>4 DEF MovesOn, SavedRow

LEMMA ServerMovesOn ==
    ASSUME PInv, [Next]_serverVars
    PROVE  MovesOn
  <1>1. /\ row \in [status : RunStatus, sequence : 1..Len(log), revision : Nat \ {0}]
        /\ Len(log) \in Nat
    BY DEF PInv, TypeOK
  <1>2. row.status \in Terminal =>
            row.sequence = Len(log) /\ Refused /\ row.status = Outcome[LastEvent]
    BY DEF PInv, LogInv, OutcomeIsLast, Refused
  <1>3. CASE UNCHANGED <<log, row>>
    BY <1>1, <1>3 DEF MovesOn
  <1>4. CASE row' = row /\ \E p \in Proc : ~Refused /\ log' = Append(log, entry[p].kind)
    <2>1. Len(log') >= Len(log) /\ \A i \in 1..Len(log) : log'[i] = log[i]
      BY <1>4, Appended
    <2>2. QED
      BY <1>1, <1>2, <1>4, <2>1 DEF MovesOn
  <1>5. ASSUME NEW p \in Proc, SaveWithWatermark(p) \/ LoseSave(p)
        PROVE  MovesOn
    BY <1>5, SavedMovesOn DEF SaveWithWatermark, LoseSave
  <1>6. CASE Persist
    <2>1. row.status \in Terminal => live = row.status
      BY <1>2, <1>6 DEF Persist, PInv, LogInv, PersistsOutcome
    <2>2. QED
      BY <1>1, <1>6, <2>1 DEF Persist, MovesOn
  <1>7. CASE PublishLatest
    <2>1. CASE row' = row
      BY <1>1, <1>7, <2>1 DEF PublishLatest, MovesOn
    <2>2. CASE row' = [row EXCEPT !.sequence = Len(log), !.revision = @ + 1]
      <3>1. /\ row'.sequence = Len(log) /\ row'.revision = row.revision + 1
            /\ row'.status = row.status
        BY <1>1, <2>2
      <3>2. QED
        BY <1>1, <1>7, <3>1 DEF PublishLatest, MovesOn
    <2>3. QED
      BY <1>7, <2>1, <2>2 DEF PublishLatest
  <1>8. QED
    BY <1>3, <1>4, <1>5, <1>6, <1>7
    DEF serverVars, Next, Progress, ExecutionStep, EmissionStep, Commit, LoseCommit, TakeLock,
        EmitOrdinary, SchedulerReturns, SchedulerFails, Sealed, ReviewRaises, Release, Handle,
        LoseReplay, Cancel, Stop

-----------------------------------------------------------------------------
(* The inductive invariant: what is shown or answered is of the past       *)

\* An answer is a row that was there.
ReplyIsPast == reply.row.sequence <= row.sequence

\* An outcome that is answered or shown is the row's, with the last event.
ReplyIsReal ==
    reply.row.status \in Terminal =>
        reply.row.status = row.status /\ reply.row.sequence = Len(log)

ShownIsReal ==
    shown.status \in Terminal => shown.status = row.status /\ shown.base = Len(log)

VInv == PInv /\ ViewTypeOK /\ ReplyIsPast /\ ReplyIsReal /\ ShownIsReal

LEMMA InitVInv == ViewInit => VInv
  <1> SUFFICES ASSUME ViewInit PROVE VInv
    OBVIOUS
  <1>1. PInv
    BY InitPInv DEF ViewInit
  <1>2. row.sequence = 1
    BY DEF ViewInit, Init
  <1>3. "RUNNING" \in RunStatus /\ "RUNNING" \notin Terminal
    BY DEF RunStatus, Terminal
  <1>4. ViewTypeOK
    BY <1>1, <1>2, <1>3, ViewerAssumption
    DEF ViewInit, ViewTypeOK, PInv, Page, Nothing, NoReply, LaterOf
  <1>5. QED
    BY <1>1, <1>2, <1>3, <1>4
    DEF ViewInit, VInv, ReplyIsPast, ReplyIsReal, ShownIsReal, Nothing, NoReply

\* A step of the server leaves the page what it has.
LEMMA ServerKeepsView ==
    ASSUME VInv, [Next]_serverVars, UNCHANGED viewVars
    PROVE  VInv'
  <1>1. PInv' /\ TypeOK'
    BY NextPInv DEF VInv, PInv
  <1>2. MovesOn
    BY ServerMovesOn DEF VInv
  <1>3. row.sequence \in Nat /\ row'.sequence \in Nat
    BY <1>1 DEF VInv, PInv, TypeOK
  <1>4. /\ shown \in [base : Nat, sequence : Nat, revision : Nat, status : RunStatus, pending : Nat]
        /\ reply \in [row : [status : RunStatus, sequence : Nat, revision : Nat], valid : BOOLEAN]
    BY DEF VInv, ViewTypeOK
  <1>5. LaterOf(shown.sequence, shown.pending) <= row'.sequence
    BY <1>2, <1>3, <1>4 DEF VInv, ViewTypeOK, MovesOn, LaterOf
  <1>6. sent \in Nat /\ sent <= row'.sequence
    BY <1>2, <1>3 DEF VInv, ViewTypeOK, MovesOn
  <1>7. ViewTypeOK'
    BY <1>1, <1>5, <1>6 DEF VInv, ViewTypeOK, viewVars, LaterOf
  <1>8. ReplyIsPast'
    BY <1>2, <1>3, <1>4 DEF VInv, ReplyIsPast, MovesOn, viewVars
  <1>9. ReplyIsReal' /\ ShownIsReal'
    BY <1>2 DEF VInv, ReplyIsReal, ShownIsReal, MovesOn, viewVars
  <1>10. QED
    BY <1>1, <1>7, <1>8, <1>9 DEF VInv

-----------------------------------------------------------------------------
(* Steps of the page                                                       *)

\* The types of what a step of the page reads.
ViewFacts ==
    /\ row \in [status : RunStatus, sequence : 1..Len(log), revision : Nat \ {0}]
    /\ Len(log) \in Nat
    /\ shown \in [base : Nat, sequence : Nat, revision : Nat, status : RunStatus, pending : Nat]
    /\ shown.base <= shown.sequence
    /\ shown.sequence <= row.sequence /\ shown.pending <= row.sequence
    /\ reply \in [row : [status : RunStatus, sequence : Nat, revision : Nat], valid : BOOLEAN]
    /\ sent \in Nat /\ sent <= row.sequence

LEMMA FactsOfView == VInv => ViewFacts
  BY DEF VInv, PInv, TypeOK, ViewTypeOK, LaterOf, ViewFacts

LEMMA Unserved ==
    /\ NoReply \in [row : [status : RunStatus, sequence : Nat, revision : Nat], valid : BOOLEAN]
    /\ NoReply.row.sequence = 0 /\ NoReply.row.status \notin Terminal
  BY DEF NoReply, RunStatus, Terminal

LEMMA Unshown ==
    /\ Nothing \in [base : Nat, sequence : Nat, revision : Nat, status : RunStatus, pending : Nat]
    /\ Nothing.base = 0 /\ Nothing.sequence = 0 /\ Nothing.pending = 0
    /\ Nothing.status \notin Terminal
  BY DEF Nothing, RunStatus, Terminal

\* Server and page show the same as before, but for what the page waits for: the
\* answer of NoReply or of the row.
LEMMA PageStep ==
    ASSUME VInv, UNCHANGED <<serverVars, shown>>, page' \in Page,
           reply' \in {reply, NoReply} \/ reply' = [row |-> row, valid |-> Projectable(row)],
           sent' \in 0..row.sequence, drops' \in 0..MaxDrops, reloads' \in 0..MaxReloads
    PROVE  VInv'
  <1>1. PInv'
    BY NextPInv DEF VInv
  <1>2. ViewFacts
    BY FactsOfView
  <1>3. /\ reply' \in [row : [status : RunStatus, sequence : Nat, revision : Nat], valid : BOOLEAN]
        /\ reply'.row.sequence <= row.sequence
        /\ reply'.row.status \in Terminal =>
               reply'.row.status = row.status /\ reply'.row.sequence = Len(log)
    <2>1. CASE reply' = reply
      BY <1>2, <2>1 DEF VInv, ReplyIsPast, ReplyIsReal, ViewFacts
    <2>2. CASE reply' = NoReply
      BY <1>2, <2>2, Unserved DEF ViewFacts
    <2>3. CASE reply' = [row |-> row, valid |-> Projectable(row)]
      <3>1. Projectable(row) \in BOOLEAN
        BY DEF Projectable
      <3>2. row.status \in Terminal => row.sequence = Len(log)
        BY DEF VInv, PInv, LogInv, OutcomeIsLast
      <3>3. QED
        BY <1>2, <2>3, <3>1, <3>2 DEF ViewFacts
    <2>4. QED
      BY <2>1, <2>2, <2>3
  <1>4. UNCHANGED <<log, row, shown>>
    BY DEF serverVars
  <1>5. ViewTypeOK'
    BY <1>1, <1>2, <1>3, <1>4 DEF VInv, ViewTypeOK, PInv, LaterOf
  <1>6. ReplyIsPast' /\ ReplyIsReal' /\ ShownIsReal'
    BY <1>3, <1>4 DEF VInv, ReplyIsPast, ReplyIsReal, ShownIsReal
  <1>7. QED
    BY <1>1, <1>5, <1>6 DEF VInv

\* What is shown becomes the answer, nothing, or one frame later.
LEMMA ShownStep ==
    ASSUME VInv, UNCHANGED <<serverVars, drops, reloads>>, page' \in Page,
           reply' \in {reply, NoReply}, sent' = sent,
           shown' \in [base : Nat, sequence : Nat, revision : Nat, status : RunStatus, pending : Nat],
           shown'.base <= shown'.sequence,
           shown'.sequence <= row.sequence, shown'.pending <= row.sequence,
           shown'.status \in Terminal => shown'.status = row.status /\ shown'.base = Len(log)
    PROVE  VInv'
  <1>1. PInv'
    BY NextPInv DEF VInv
  <1>2. ViewFacts
    BY FactsOfView
  <1>3. UNCHANGED <<log, row>>
    BY DEF serverVars
  <1>4. /\ reply' \in [row : [status : RunStatus, sequence : Nat, revision : Nat], valid : BOOLEAN]
        /\ reply'.row.sequence <= row.sequence
        /\ reply'.row.status \in Terminal =>
               reply'.row.status = row.status /\ reply'.row.sequence = Len(log)
    BY <1>2, Unserved DEF VInv, ReplyIsPast, ReplyIsReal, ViewFacts
  <1>5. LaterOf(shown'.sequence, shown'.pending) <= row.sequence
    BY DEF LaterOf
  <1>6. ViewTypeOK'
    BY <1>1, <1>3, <1>4, <1>5 DEF VInv, ViewTypeOK, PInv, LaterOf
  <1>7. ReplyIsPast' /\ ReplyIsReal' /\ ShownIsReal'
    BY <1>3, <1>4 DEF ReplyIsPast, ReplyIsReal, ShownIsReal
  <1>8. QED
    BY <1>1, <1>6, <1>7 DEF VInv

LEMMA ViewStepVInv ==
    ASSUME VInv, ViewStep
    PROVE  VInv'
  <1>1. ViewFacts
    BY FactsOfView
  <1>2. page \in Page /\ drops \in 0..MaxDrops /\ reloads \in 0..MaxReloads
    BY DEF VInv, ViewTypeOK
  <1>3. CASE ServeProjection
    BY <1>1, <1>2, <1>3, PageStep DEF ServeProjection, ViewFacts
  <1>4. CASE Install
    <2>1. CASE reply.valid /\ (shown = Nothing \/ Reconciles(reply.row))
      <3>1. shown' = [base |-> reply.row.sequence, sequence |-> reply.row.sequence,
                      revision |-> reply.row.revision, status |-> reply.row.status, pending |-> 0]
        BY <1>4, <2>1 DEF Install
      <3>2. page' \in Page /\ reply' = NoReply /\ UNCHANGED <<serverVars, sent, drops, reloads>>
        BY <1>4, <2>1 DEF Install, Page
      <3>3. QED
        BY <1>1, <3>1, <3>2, ShownStep DEF VInv, ReplyIsPast, ReplyIsReal, ViewFacts
    <2>2. CASE ~(reply.valid /\ (shown = Nothing \/ Reconciles(reply.row)))
      <3>1. /\ shown' = Nothing /\ page' \in Page /\ reply' = NoReply
            /\ UNCHANGED <<serverVars, sent, drops, reloads>>
        BY <1>4, <2>2 DEF Install, Page
      <3>2. QED
        BY <1>1, <3>1, Unshown, ShownStep DEF ViewFacts
    <2>3. QED
      BY <2>1, <2>2
  <1>5. CASE LoseProjection \/ Disconnect
    <2>1. drops' \in 0..MaxDrops
      BY <1>2, <1>5, ViewerAssumption DEF LoseProjection, Disconnect, Drop
    <2>2. QED
      BY <1>1, <1>2, <1>5, <2>1, PageStep DEF LoseProjection, Disconnect, Page, ViewFacts
  <1>6. CASE Refresh
    BY <1>1, <1>2, <1>6, PageStep DEF Refresh, Load, Page, ViewFacts
  <1>7. CASE Reload
    <2>1. reloads' \in 0..MaxReloads
      BY <1>2, <1>7, ViewerAssumption DEF Reload
    <2>2. QED
      BY <1>1, <1>2, <1>7, <2>1, PageStep DEF Reload, Load, Page, ViewFacts
  <1>8. CASE Connect
    <2>1. page' \in Page /\ reply' \in {reply, NoReply} /\ sent' \in {sent, 0, shown.sequence}
      BY <1>8 DEF Connect, Load, Page
    <2>2. sent' \in 0..row.sequence
      BY <1>1, <2>1 DEF ViewFacts
    <2>3. QED
      BY <1>2, <1>8, <2>1, <2>2, PageStep DEF Connect
  <1>9. CASE Send
    <2>1. sent' \in 0..row.sequence
      BY <1>1, <1>9 DEF Send, Watermark, ViewFacts
    <2>2. QED
      BY <1>2, <1>9, <2>1, PageStep DEF Send
  <1>10. CASE Receive
    <2>1. shown.sequence + 1 <= row.sequence
      BY <1>1, <1>10 DEF Receive, ViewFacts
    <2>2. \/ shown' = [shown EXCEPT !.sequence = shown.sequence + 1]
          \/ shown' = [shown EXCEPT !.pending = shown.sequence + 1]
      BY <1>10 DEF Receive
    <2>3. /\ shown' \in [base : Nat, sequence : Nat, revision : Nat, status : RunStatus, pending : Nat]
          /\ shown'.base <= shown'.sequence
          /\ shown'.sequence <= row.sequence /\ shown'.pending <= row.sequence
          /\ shown'.base = shown.base /\ shown'.status = shown.status
      BY <1>1, <2>1, <2>2 DEF ViewFacts
    <2>4. shown'.status \in Terminal => shown'.status = row.status /\ shown'.base = Len(log)
      BY <2>3 DEF VInv, ShownIsReal
    <2>5. page' \in Page /\ UNCHANGED <<serverVars, reply, sent, drops, reloads>>
      BY <1>2, <1>10 DEF Receive, Page
    <2>6. QED
      BY <2>3, <2>4, <2>5, ShownStep
  <1>11. QED
    BY <1>3, <1>4, <1>5, <1>6, <1>7, <1>8, <1>9, <1>10 DEF ViewStep, Follow

LEMMA NextVInv == VInv /\ [ViewNext]_allVars => VInv'
  <1>1. ASSUME VInv, Next, UNCHANGED viewVars PROVE VInv'
    BY <1>1, ServerKeepsView
  <1>2. ASSUME VInv, UNCHANGED allVars PROVE VInv'
    BY <1>2, ServerKeepsView DEF allVars
  <1>3. QED
    BY <1>1, <1>2, ViewStepVInv DEF ViewNext

LEMMA AlwaysVInv == ViewSpec => []VInv
  BY InitVInv, NextVInv, PTL DEF ViewSpec

\* loadRun and the reducer keep the types of the page's state, and whatever fails
\* they show, await and stream nothing that the publishing store has not made
\* public.
THEOREM ViewTypeCorrect == ViewSpec => []ViewTypeOK
  <1>1. VInv => ViewTypeOK
    BY DEF VInv
  <1>2. QED
    BY <1>1, AlwaysVInv, PTL

\* An outcome that the page shows is the run's and its terminal event is durable:
\* a snapshot that was answered before, or a page that missed events, does not
\* contradict what execute_run stored, whatever fails, crashes or is cancelled.
THEOREM ShownOutcomesAreReal == ViewSpec => []OutcomeIsReal
  <1>1. VInv => OutcomeIsReal
    BY DEF VInv, ShownIsReal, OutcomeIsReal, PInv, LogInv, OutcomeIsLast, LastEvent
  <1>2. QED
    BY <1>1, AlwaysVInv, PTL

-----------------------------------------------------------------------------
(* Undisturbed, the page keeps the run it shows                            *)

Row == [status : RunStatus, sequence : Nat, revision : Nat]

\* r is at least as new as what reached sequence and revision, and newer by its
\* revision if it is by its sequence.
Follows(r, sequence, revision) ==
    r.revision >= revision /\ (r.sequence > sequence => r.revision > revision)

\* What is shown comes from an answer, and row and answer follow it; the answer
\* is one that projects and reconciles.
PageInv ==
    /\ shown = Nothing \/ shown.base # 0
    /\ page \in {"connecting", "open"} => shown.base # 0
    /\ Follows(row, shown.base, shown.revision)
    /\ Follows(row, reply.row.sequence, reply.row.revision)
    /\ reply # NoReply =>
           /\ page = "loading"
           /\ reply.valid /\ reply.row.sequence # 0
           /\ reply.row.sequence >= shown.sequence /\ reply.row.sequence >= shown.pending
           /\ Follows(reply.row, shown.base, shown.revision)
           /\ IsTerminal(log[reply.row.sequence]) => reply.row.status \in Terminal

KInv == VInv /\ RInv /\ PageInv

LEMMA NextRInv ==
    ASSUME MaxFaults = 0, MayCancel = FALSE, RInv, [Next]_serverVars
    PROVE  RInv'
  <1>1. CASE Next
    BY <1>1, StepRInv
  <1>2. CASE UNCHANGED serverVars
    <2>1. PInv'
      BY NextPInv DEF RInv
    <2>2. QED
      BY <1>2, <2>1 DEF serverVars, RInv, NoEventForgotten, StatusIsPublic
  <1>3. QED
    BY <1>1, <1>2

LEMMA InitKInv == ViewInit => KInv
  <1> SUFFICES ASSUME ViewInit PROVE KInv
    OBVIOUS
  <1>1. VInv /\ RInv
    BY InitVInv, InitRInv DEF ViewInit
  <1>2. row.sequence = 1 /\ row.revision = 1
    BY DEF ViewInit, Init
  <1>3. PageInv
    BY <1>2 DEF ViewInit, PageInv, Follows, Nothing, NoReply
  <1>4. QED
    BY <1>1, <1>3 DEF KInv

\* A row that moves on follows what it followed.
LEMMA FollowsOn ==
    ASSUME NEW sequence \in Nat, NEW revision \in Nat, Follows(row, sequence, revision),
           row \in Row, row' \in Row, MovesOn
    PROVE  Follows(row', sequence, revision)
  BY DEF Follows, MovesOn, Row

LEMMA ServerKeepsPage ==
    ASSUME KInv, [Next]_serverVars, UNCHANGED viewVars
    PROVE  PageInv'
  <1>1. MovesOn
    BY ServerMovesOn DEF KInv, RInv
  <1>2. VInv'
    BY ServerKeepsView DEF KInv
  <1>3. row \in Row /\ row' \in Row
    BY <1>2 DEF KInv, VInv, PInv, TypeOK, Row
  <1>4. ViewFacts
    BY FactsOfView DEF KInv
  <1>5. /\ Follows(row', shown.base, shown.revision)
        /\ Follows(row', reply.row.sequence, reply.row.revision)
    <2>1. /\ shown.base \in Nat /\ shown.revision \in Nat
          /\ reply.row.sequence \in Nat /\ reply.row.revision \in Nat
      BY <1>4 DEF ViewFacts
    <2>2. QED
      BY <1>1, <1>3, <2>1, FollowsOn DEF KInv, PageInv
  <1>6. reply # NoReply => log'[reply.row.sequence] = log[reply.row.sequence]
    BY <1>1, <1>4 DEF KInv, PageInv, VInv, ReplyIsPast, MovesOn, ViewFacts
  <1>7. QED
    BY <1>5, <1>6 DEF KInv, PageInv, viewVars, Follows

\* The page accepts every answer it waits for.
LEMMA AnswerIsAccepted ==
    ASSUME KInv, reply # NoReply
    PROVE  reply.valid /\ Reconciles(reply.row)
  <1>1. ViewFacts
    BY FactsOfView DEF KInv
  <1>2. /\ reply.valid /\ Follows(reply.row, shown.base, shown.revision)
        /\ reply.row.sequence >= shown.sequence /\ reply.row.sequence >= shown.pending
        /\ IsTerminal(log[reply.row.sequence]) => reply.row.status \in Terminal
    BY DEF KInv, PageInv
  <1>3. ASSUME shown.pending # 0, IsTerminal(log[shown.pending])
        PROVE  reply.row.status \in Terminal
    <2>1. shown.pending = Len(log)
      BY <1>1, <1>3 DEF KInv, RInv, PInv, LogInv, LogIsClosed, ViewFacts
    <2>2. reply.row.sequence = shown.pending
      BY <1>1, <1>2, <2>1 DEF KInv, VInv, ReplyIsPast, ViewFacts
    <2>3. QED
      BY <1>2, <1>3, <2>2
  <1>4. reply.row.sequence >= LaterOf(shown.sequence, shown.pending)
    BY <1>2 DEF LaterOf
  <1>5. QED
    BY <1>2, <1>3, <1>4 DEF Reconciles, Follows

\* The row projects.
LEMMA RowProjects ==
    ASSUME RInv
    PROVE  /\ Projectable(row)
           /\ IsTerminal(log[row.sequence]) => row.status \in Terminal
  <1>1. \A k : IsTerminal(k) => Outcome[k] \in Terminal
    BY DEF IsTerminal, Outcome, Terminal
  <1>2. "RUNNING" \notin Terminal
    BY DEF Terminal
  <1>3. QED
    BY <1>1, <1>2 DEF RInv, StatusIsPublic, Projectable

LEMMA ViewStepKeepsPage ==
    ASSUME KInv, ViewStep
    PROVE  PageInv' /\ (shown # Nothing => shown' # Nothing)
  <1>1. ViewFacts
    BY FactsOfView DEF KInv
  <1>2. CASE ServeProjection
    <2>1. /\ reply' = [row |-> row, valid |-> Projectable(row)]
          /\ page' = "loading" /\ UNCHANGED <<log, row, shown>>
      BY <1>2 DEF ServeProjection, serverVars
    <2>2. /\ Projectable(row) /\ row.sequence # 0
          /\ row.sequence >= shown.sequence /\ row.sequence >= shown.pending
          /\ Follows(row, shown.base, shown.revision) /\ Follows(row, row.sequence, row.revision)
          /\ IsTerminal(log[row.sequence]) => row.status \in Terminal
      BY <1>1, RowProjects DEF KInv, PageInv, Follows, ViewFacts
    <2>3. QED
      BY <2>1, <2>2 DEF KInv, PageInv, Follows
  <1>3. CASE Install
    <2>1. reply # NoReply /\ reply.valid /\ Reconciles(reply.row)
      BY <1>3, AnswerIsAccepted DEF Install
    <2>2. /\ shown' = [base |-> reply.row.sequence, sequence |-> reply.row.sequence,
                       revision |-> reply.row.revision, status |-> reply.row.status, pending |-> 0]
          /\ reply' = NoReply /\ UNCHANGED <<log, row>>
      BY <1>3, <2>1 DEF Install, serverVars
    <2>3. shown'.base # 0 /\ shown' # Nothing
      BY <2>1, <2>2 DEF KInv, PageInv, Nothing
    <2>4. Follows(row, 0, 0)
      BY <1>1 DEF Follows, ViewFacts
    <2>5. NoReply.row.sequence = 0 /\ NoReply.row.revision = 0
      BY DEF NoReply
    <2>6. QED
      BY <2>2, <2>3, <2>4, <2>5 DEF KInv, PageInv, Follows
  <1>4. CASE Receive
    <2>1. reply = NoReply /\ shown'.base = shown.base /\ shown'.revision = shown.revision
          /\ UNCHANGED <<log, row, reply>>
      BY <1>1, <1>4 DEF Receive, serverVars, ViewFacts, KInv, PageInv
    <2>2. shown.base # 0
      BY <1>4 DEF Receive, KInv, PageInv
    <2>3. shown' # Nothing
      BY <2>1, <2>2 DEF Nothing
    <2>4. QED
      BY <2>1, <2>2, <2>3 DEF KInv, PageInv, Follows
  <1>5. CASE /\ UNCHANGED <<serverVars, shown>>
             /\ reply' = NoReply
             /\ page' \in {"connecting", "open"} => shown.base # 0
    <2>1. Follows(row, 0, 0)
      BY <1>1 DEF Follows, ViewFacts
    <2>2. NoReply.row.sequence = 0 /\ NoReply.row.revision = 0
      BY DEF NoReply
    <2>3. QED
      BY <1>5, <2>1, <2>2 DEF KInv, PageInv, Follows, serverVars
  <1>6. CASE LoseProjection \/ Refresh \/ Reload
    BY <1>5, <1>6 DEF LoseProjection, Refresh, Reload, Load
  <1>7. CASE Connect \/ Send \/ Disconnect
    BY <1>5, <1>7 DEF Connect, Send, Disconnect, Load, KInv, PageInv
  <1>8. QED
    BY <1>2, <1>3, <1>4, <1>6, <1>7 DEF ViewStep, Follow

LEMMA NextKInv ==
    ASSUME MaxFaults = 0, MayCancel = FALSE, KInv, [ViewNext]_allVars
    PROVE  KInv' /\ (shown # Nothing => shown' # Nothing)
  <1>1. VInv'
    BY NextVInv DEF KInv
  <1>2. [Next]_serverVars
    BY DEF ViewNext, allVars, ViewStep, Follow, ServeProjection, Install, Refresh, Connect, Send,
           Receive, LoseProjection, Reload, Disconnect
  <1>3. RInv'
    BY <1>2, NextRInv DEF KInv
  <1>4. CASE UNCHANGED viewVars
    <2>1. PageInv' /\ shown' = shown
      BY <1>2, <1>4, ServerKeepsPage DEF viewVars
    <2>2. QED
      BY <1>1, <1>3, <2>1 DEF KInv
  <1>5. CASE ViewStep
    BY <1>1, <1>3, <1>5, ViewStepKeepsPage DEF KInv
  <1>6. QED
    BY <1>4, <1>5 DEF ViewNext, allVars

\* When no database operation fails and nothing is cancelled, loadRun never gives
\* a shown run up: every snapshot it asks for because of an event, a lost
\* connection or a reload passes reconcileRunRuntimeState, although the server may
\* stop anywhere and connections and requests fail at any time.
THEOREM ShownRunIsKept ==
    ASSUME MaxFaults = 0, MayCancel = FALSE
    PROVE  ViewSpec => KeepsPage
  <1>1. KInv /\ [ViewNext]_allVars => KInv'
    BY NextKInv
  <1>2. KInv /\ [ViewNext]_allVars => [shown # Nothing => shown' # Nothing]_shown
    BY NextKInv
  <1>3. QED
    BY <1>1, <1>2, InitKInv, PTL DEF ViewSpec, KeepsPage

=============================================================================
