------------------------ MODULE RunPublication_proofs ------------------------
(***************************************************************************)
(* Proofs about RunPublication, for every set of tasks and every bound:    *)
(* the types of its state; that a terminal status in the row is the        *)
(* outcome of the last event, whatever fails, is cancelled or crashes; and *)
(* that without failures and cancellations it implements PublishedRun.     *)
(***************************************************************************)
EXTENDS RunPublication, SequenceTheorems, TLAPS

-----------------------------------------------------------------------------
(* The inductive invariant                                                 *)

\* Only the last event of the log is terminal.
LogIsClosed == \A i \in 1..Len(log) : IsTerminal(log[i]) => i = Len(log)

\* An emission past its commit knows where its event is.
EntriesAreCommitted ==
    \A p \in Proc : at[p] \in {"waiting", "saving"} =>
        /\ entry[p].sequence \in 1..Len(log)
        /\ log[entry[p].sequence] = entry[p].kind

\* The scheduler's tasks emit ordinary events, and only while it runs.
TasksEmitOrdinary ==
    \A t \in Task : at[t] # "idle" => exec = "scheduling" /\ entry[t].kind \in Ordinary

\* The kinds execute_run emits, by its place.
MainKinds == [reviewing |-> Ordinary, failing |-> {"failed"}, releasing |-> {"completed"},
              terminating |-> {"failed"}, cancelling |-> {"cancelled"}]

MainEmitsItsKind ==
    at[Main] # "idle" => exec \in DOMAIN MainKinds /\ entry[Main].kind \in MainKinds[exec]

\* The aggregate's status is RUNNING until a terminal event sets it, or
\* execute_run sets it for the one it is about to emit.
LiveFollowsExec ==
    /\ exec \in {"scheduling", "reviewing"} => live = "RUNNING"
    /\ exec = "releasing" => live = "RELEASED"
    /\ exec = "terminating" => live = "FAILED"
    /\ exec = "failing" /\ at[Main] = "saving" => live = "FAILED"
    /\ exec = "cancelling" /\ at[Main] = "saving" => live = "CANCELLED"

\* The last save_run writes the outcome of a last event that is already public.
PersistsOutcome ==
    exec = "persisting" =>
        /\ row.sequence = Len(log)
        /\ IsTerminal(LastEvent)
        /\ live = Outcome[LastEvent]

LogInv == log # <<>> /\ LogIsClosed /\ OutcomeIsLast /\ PersistsOutcome

EmissionInv == EntriesAreCommitted /\ TasksEmitOrdinary /\ MainEmitsItsKind /\ LiveFollowsExec

PInv == TypeOK /\ LogInv /\ EmissionInv

-----------------------------------------------------------------------------
(* Every step preserves it                                                 *)

LEMMA KindFacts ==
    /\ Kind = {"patch", "refresh", "completed", "failed", "cancelled"}
    /\ \A k : IsTerminal(k) <=> k \in {"completed", "failed", "cancelled"}
    /\ Outcome["completed"] = "RELEASED"
    /\ Outcome["failed"] = "FAILED"
    /\ Outcome["cancelled"] = "CANCELLED"
  BY DEF Kind, IsTerminal, Outcome, Ordinary

LEMMA LogGrows ==
    ASSUME NEW s \in Seq(Kind), NEW k \in Kind
    PROVE  /\ Append(s, k) \in Seq(Kind)
           /\ Append(s, k) # <<>>
           /\ Len(s) \in Nat
           /\ Len(Append(s, k)) = Len(s) + 1
           /\ \A i \in 1..Len(s) : Append(s, k)[i] = s[i]
           /\ Append(s, k)[Len(s) + 1] = k
  OBVIOUS

\* What an event written after PInv leaves the log in.
LEMMA Appended ==
    ASSUME PInv, NEW p \in Proc, ~Refused, log' = Append(log, entry[p].kind)
    PROVE  /\ log' \in Seq(Kind) /\ log' # <<>>
           /\ Len(log) \in Nat \ {0} /\ Len(log') = Len(log) + 1
           /\ \A i \in 1..Len(log) : log'[i] = log[i] /\ ~IsTerminal(log[i])
           /\ log'[Len(log')] = entry[p].kind
           /\ row.status = "RUNNING" /\ exec # "persisting"
  <1>1. log \in Seq(Kind) /\ log # <<>> /\ entry[p].kind \in Kind
    BY DEF PInv, TypeOK
  <1>2. \A i \in 1..Len(log) : log'[i] = log[i] /\ ~IsTerminal(log[i])
    BY <1>1 DEF PInv, LogInv, LogIsClosed, Refused, LastEvent
  <1>3. row.status = "RUNNING" /\ exec # "persisting"
    BY DEF PInv, LogInv, OutcomeIsLast, PersistsOutcome, Refused, TypeOK, RunStatus
  <1>4. QED
    BY <1>1, <1>2, <1>3

LEMMA InitPInv == Init => PInv
  BY KindFacts, PublicationAssumption
  DEF Init, Proc, Terminal, RunStatus, ExecPlace, EmissionPlace, LogIsClosed, OutcomeIsLast,
      PersistsOutcome, EntriesAreCommitted, TasksEmitOrdinary, MainEmitsItsKind,
      LiveFollowsExec, LogInv, EmissionInv, PInv, TypeOK

\* One step per action, and under it one per group of conjuncts.
LEMMA StepPInv ==
    ASSUME PInv, Next
    PROVE  PInv'
  <1>1. ASSUME NEW p \in Proc, Commit(p)
        PROVE  PInv'
    <2>1. CASE Refused
      <3>1. TypeOK'
        BY <1>1, <2>1, KindFacts, PublicationAssumption, LogGrows
        DEF Commit, Refused, Raise, Proc, Terminal, RunStatus, ExecPlace, EmissionPlace,
            AfterRaise, MainKinds, LastEvent, LogIsClosed, OutcomeIsLast, PersistsOutcome,
            EntriesAreCommitted, TasksEmitOrdinary, MainEmitsItsKind, LiveFollowsExec,
            LogInv, EmissionInv, PInv, TypeOK
      <3>2. LogInv'
        BY <1>1, <2>1
        DEF Commit, Raise, AfterRaise, MainKinds, LastEvent, LogIsClosed, OutcomeIsLast,
            PersistsOutcome, MainEmitsItsKind, LogInv, EmissionInv, PInv
      <3>3. EmissionInv'
        BY <1>1, <2>1
        DEF Commit, Raise, Proc, AfterRaise, MainKinds, EntriesAreCommitted,
            TasksEmitOrdinary, MainEmitsItsKind, LiveFollowsExec, EmissionInv, PInv, TypeOK
      <3>4. QED
        BY <3>1, <3>2, <3>3 DEF PInv
    <2>2. CASE ~Refused
      <3>1. /\ log' \in Seq(Kind) /\ log' # <<>>
            /\ Len(log) \in Nat \ {0} /\ Len(log') = Len(log) + 1
            /\ \A i \in 1..Len(log) : log'[i] = log[i] /\ ~IsTerminal(log[i])
            /\ log'[Len(log')] = entry[p].kind
            /\ row.status = "RUNNING" /\ exec # "persisting"
        BY <1>1, <2>2, Appended DEF Commit
      <3>2. entry' \in [Proc -> [kind : Kind, sequence : 0..Len(log')]]
        <4>1. entry[p] \in [kind : Kind, sequence : 0..Len(log)] /\ p \in DOMAIN entry
          BY <1>1, <2>2, <3>1 DEF PInv, TypeOK
        <4>2. entry' = [entry EXCEPT ![p] = [entry[p] EXCEPT !.sequence = Len(log) + 1]]
          BY <1>1, <2>2, <3>1 DEF Commit
        <4>3. [entry[p] EXCEPT !.sequence = Len(log) + 1] \in [kind : Kind, sequence : 0..Len(log')]
          BY <1>1, <2>2, <3>1, <4>1
        <4>4. \A q \in Proc : entry[q] \in [kind : Kind, sequence : 0..Len(log')]
          BY <1>1, <2>2, <3>1, <4>1 DEF PInv, TypeOK
        <4>5. QED
          BY <4>1, <4>2, <4>3, <4>4 DEF PInv, TypeOK
      <3>3. TypeOK'
        <4>1. row \in [status : RunStatus, sequence : 1..Len(log'), revision : Nat \ {0}]
          BY <3>1 DEF PInv, TypeOK
        <4>2. at' \in [Proc -> EmissionPlace] /\ \A q \in Proc : lock' = q <=> at'[q] = "saving"
          BY <1>1, <2>2 DEF Commit, PInv, TypeOK, EmissionPlace
        <4>3. QED
          BY <1>1, <2>2, <3>1, <3>2, <4>1, <4>2 DEF Commit, PInv, TypeOK
      <3>4. LogInv'
        BY <1>1, <2>2, <3>1, KindFacts
        DEF Commit, Refused, Proc, MainKinds, LogIsClosed, OutcomeIsLast, PersistsOutcome,
            LiveFollowsExec, LogInv, PInv
      <3>5. EmissionInv'
        <4>1. EntriesAreCommitted'
          <5> SUFFICES ASSUME NEW q \in Proc, at'[q] \in {"waiting", "saving"}
                       PROVE  /\ entry'[q].sequence \in 1..Len(log')
                              /\ log'[entry'[q].sequence] = entry'[q].kind
            BY DEF EntriesAreCommitted
          <5>1. CASE q = p
            BY <1>1, <2>2, <3>1, <5>1 DEF Commit, PInv, TypeOK
          <5>2. CASE q # p
            BY <1>1, <2>2, <3>1, <5>2
            DEF Commit, PInv, TypeOK, EmissionInv, EntriesAreCommitted
          <5>3. QED
            BY <5>1, <5>2
        <4>2. TasksEmitOrdinary' /\ MainEmitsItsKind'
          BY <1>1, <2>2, <3>1, <3>2, KindFacts
          DEF Commit, Proc, Terminal, ExecPlace, EmissionPlace, MainKinds, LastEvent,
              LogIsClosed, OutcomeIsLast, PersistsOutcome, TasksEmitOrdinary,
              MainEmitsItsKind, LiveFollowsExec, LogInv, EmissionInv, PInv, TypeOK
        <4>3. LiveFollowsExec'
          BY <1>1, <2>2, <3>1, <3>2
          DEF Commit, Proc, LiveFollowsExec, EmissionInv, PInv, TypeOK
        <4>4. QED
          BY <4>1, <4>2, <4>3 DEF EmissionInv
      <3>6. QED
        BY <3>3, <3>4, <3>5 DEF PInv
    <2>3. QED
      BY <1>1, <2>1, <2>2 DEF Commit
  <1>2. ASSUME NEW p \in Proc, LoseCommit(p)
        PROVE  PInv'
    <2>1. CASE log' = log
      <3>1. TypeOK'
        BY <1>2, <2>1, PublicationAssumption
        DEF LoseCommit, Raise, Fault, ExecPlace, EmissionPlace, AfterRaise, MainKinds,
            MainEmitsItsKind, EmissionInv, PInv, TypeOK
      <3>2. LogInv'
        BY <1>2, <2>1
        DEF LoseCommit, Raise, AfterRaise, MainKinds, LastEvent, LogIsClosed, OutcomeIsLast,
            PersistsOutcome, MainEmitsItsKind, LogInv, EmissionInv, PInv
      <3>3. EmissionInv'
        BY <1>2, <2>1
        DEF LoseCommit, Raise, AfterRaise, MainKinds, EntriesAreCommitted,
            TasksEmitOrdinary, MainEmitsItsKind, LiveFollowsExec, EmissionInv, PInv, TypeOK
      <3>4. QED
        BY <3>1, <3>2, <3>3 DEF PInv
    <2>2. CASE log' = Append(log, entry[p].kind)
      <3>1. /\ log' \in Seq(Kind) /\ log' # <<>>
            /\ Len(log) \in Nat \ {0} /\ Len(log') = Len(log) + 1
            /\ \A i \in 1..Len(log) : log'[i] = log[i] /\ ~IsTerminal(log[i])
            /\ log'[Len(log')] = entry[p].kind
            /\ row.status = "RUNNING" /\ exec # "persisting"
        BY <1>2, <2>2, Appended DEF LoseCommit
      <3>2. TypeOK'
        BY <1>2, <2>2, <3>1, PublicationAssumption
        DEF LoseCommit, Raise, Fault, ExecPlace, EmissionPlace, AfterRaise, MainKinds,
            MainEmitsItsKind, EmissionInv, PInv, TypeOK
      <3>3. LogInv'
        BY <1>2, <2>2, <3>1
        DEF LoseCommit, Raise, AfterRaise, MainKinds, LastEvent, LogIsClosed, OutcomeIsLast,
            PersistsOutcome, MainEmitsItsKind, LogInv, EmissionInv, PInv
      <3>4. EmissionInv'
        BY <1>2, <2>2, <3>1
        DEF LoseCommit, Raise, AfterRaise, MainKinds, EntriesAreCommitted,
            TasksEmitOrdinary, MainEmitsItsKind, LiveFollowsExec, EmissionInv, PInv, TypeOK
      <3>5. QED
        BY <3>2, <3>3, <3>4 DEF PInv
    <2>3. QED
      BY <1>2, <2>1, <2>2 DEF LoseCommit
  <1>3. ASSUME NEW p \in Proc, TakeLock(p)
        PROVE  PInv'
    <2>1. TypeOK'
      BY <1>3, KindFacts, PublicationAssumption
      DEF TakeLock, LiveAfter, Terminal, RunStatus, EmissionPlace, PInv, TypeOK
    <2>2. LogInv'
      BY <1>3
      DEF TakeLock, Proc, ExecPlace, MainKinds, LastEvent, LogIsClosed, OutcomeIsLast,
          PersistsOutcome, TasksEmitOrdinary, MainEmitsItsKind, LogInv, EmissionInv, PInv
    <2>3. EntriesAreCommitted'
      BY <1>3 DEF TakeLock, EntriesAreCommitted, EmissionInv, PInv
    <2>4. TasksEmitOrdinary'
      BY <1>3 DEF TakeLock, TasksEmitOrdinary, EmissionInv, PInv
    <2>5. MainEmitsItsKind'
      BY <1>3 DEF TakeLock, MainEmitsItsKind, EmissionInv, PInv
    <2>6. LiveFollowsExec'
      <3>1. CASE p = Main
        BY <1>3, <3>1, KindFacts
        DEF TakeLock, LiveAfter, Proc, Ordinary, MainKinds, MainEmitsItsKind,
            LiveFollowsExec, EmissionInv, PInv
      <3>2. CASE p \in Task
        BY <1>3, <3>2
        DEF TakeLock, LiveAfter, Ordinary, AfterReturn, AfterRaise, EntriesAreCommitted,
            TasksEmitOrdinary, LiveFollowsExec, EmissionInv, PInv
      <3>3. QED
        BY <3>1, <3>2 DEF Proc
    <2>7. QED
      BY <2>1, <2>2, <2>3, <2>4, <2>5, <2>6 DEF PInv, EmissionInv
  <1>4. ASSUME NEW p \in Proc, SaveWithWatermark(p)
        PROVE  PInv'
    <2>1. TypeOK'
      BY <1>4, PublicationAssumption
      DEF SaveWithWatermark, SavedRow, Return, ExecPlace, EmissionPlace, AfterReturn,
          MainKinds, MainEmitsItsKind, EmissionInv, PInv, TypeOK
    <2>2. LogInv'
      BY <1>4, KindFacts
      DEF SaveWithWatermark, SavedRow, Return, Proc, RunStatus, AfterReturn, MainKinds,
          LastEvent, LogIsClosed, OutcomeIsLast, PersistsOutcome, EntriesAreCommitted,
          TasksEmitOrdinary, MainEmitsItsKind, LiveFollowsExec, LogInv, EmissionInv, PInv,
          TypeOK
    <2>3. EmissionInv'
      BY <1>4
      DEF SaveWithWatermark, Return, AfterReturn, MainKinds, EntriesAreCommitted,
          TasksEmitOrdinary, MainEmitsItsKind, LiveFollowsExec, EmissionInv, PInv, TypeOK
    <2>4. QED
      BY <2>1, <2>2, <2>3 DEF PInv
  <1>5. ASSUME NEW p \in Proc, LoseSave(p)
        PROVE  PInv'
    <2>1. TypeOK'
      BY <1>5, PublicationAssumption
      DEF LoseSave, SavedRow, Raise, Fault, ExecPlace, EmissionPlace, AfterRaise, MainKinds,
          MainEmitsItsKind, EmissionInv, PInv, TypeOK
    <2>2. LogInv'
      BY <1>5, KindFacts
      DEF LoseSave, SavedRow, Raise, Proc, RunStatus, EmissionPlace, AfterRaise, MainKinds,
          LastEvent, LogIsClosed, OutcomeIsLast, PersistsOutcome, EntriesAreCommitted,
          TasksEmitOrdinary, MainEmitsItsKind, LiveFollowsExec, LogInv, EmissionInv, PInv,
          TypeOK
    <2>3. EmissionInv'
      BY <1>5
      DEF LoseSave, Raise, AfterRaise, MainKinds, EntriesAreCommitted, TasksEmitOrdinary,
          MainEmitsItsKind, LiveFollowsExec, EmissionInv, PInv, TypeOK
    <2>4. QED
      BY <2>1, <2>2, <2>3 DEF PInv
  <1>6. ASSUME NEW p \in Proc, EmitOrdinary(p)
        PROVE  PInv'
    <2>1. TypeOK'
      BY <1>6, KindFacts DEF EmitOrdinary, Emit, EmissionPlace, Ordinary, PInv, TypeOK
    <2>2. LogInv'
      BY <1>6
      DEF EmitOrdinary, LastEvent, LogIsClosed, OutcomeIsLast, PersistsOutcome, LogInv, PInv
    <2>3. EmissionInv'
      BY <1>6, PublicationAssumption
      DEF EmitOrdinary, Emit, MainKinds, EntriesAreCommitted, TasksEmitOrdinary,
          MainEmitsItsKind, LiveFollowsExec, EmissionInv, PInv, TypeOK
    <2>4. QED
      BY <2>1, <2>2, <2>3 DEF PInv
  <1>7. ASSUME SchedulerReturns
        PROVE  PInv'
    <2>1. TypeOK'
      BY <1>7 DEF SchedulerReturns, ExecPlace, PInv, TypeOK
    <2>2. LogInv'
      BY <1>7
      DEF SchedulerReturns, LastEvent, LogIsClosed, OutcomeIsLast, PersistsOutcome, LogInv,
          PInv
    <2>3. EmissionInv'
      BY <1>7
      DEF SchedulerReturns, TasksIdle, MainKinds, EntriesAreCommitted, TasksEmitOrdinary,
          MainEmitsItsKind, LiveFollowsExec, EmissionInv, PInv
    <2>4. QED
      BY <2>1, <2>2, <2>3 DEF PInv
  <1>8. ASSUME SchedulerFails
        PROVE  PInv'
    <2>1. TypeOK'
      BY <1>8, KindFacts
      DEF SchedulerFails, Emit, Proc, ExecPlace, EmissionPlace, PInv, TypeOK
    <2>2. LogInv'
      BY <1>8
      DEF SchedulerFails, LastEvent, LogIsClosed, OutcomeIsLast, PersistsOutcome, LogInv,
          PInv
    <2>3. EmissionInv'
      BY <1>8, PublicationAssumption
      DEF SchedulerFails, Emit, TasksIdle, MainKinds, EntriesAreCommitted,
          TasksEmitOrdinary, MainEmitsItsKind, LiveFollowsExec, EmissionInv, PInv, TypeOK
    <2>4. QED
      BY <2>1, <2>2, <2>3 DEF PInv
  <1>9. ASSUME Sealed
        PROVE  PInv'
    <2>1. TypeOK'
      BY <1>9 DEF Sealed, ExecPlace, PInv, TypeOK
    <2>2. LogInv'
      BY <1>9
      DEF Sealed, LastEvent, LogIsClosed, OutcomeIsLast, PersistsOutcome, LogInv, PInv
    <2>3. EmissionInv'
      BY <1>9
      DEF Sealed, MainKinds, EntriesAreCommitted, TasksEmitOrdinary, MainEmitsItsKind,
          LiveFollowsExec, EmissionInv, PInv
    <2>4. QED
      BY <2>1, <2>2, <2>3 DEF PInv
  <1>10. ASSUME ReviewRaises
         PROVE  PInv'
    <2>1. TypeOK'
      BY <1>10 DEF ReviewRaises, ExecPlace, PInv, TypeOK
    <2>2. LogInv'
      BY <1>10
      DEF ReviewRaises, LastEvent, LogIsClosed, OutcomeIsLast, PersistsOutcome, LogInv, PInv
    <2>3. EmissionInv'
      BY <1>10
      DEF ReviewRaises, EntriesAreCommitted, TasksEmitOrdinary, MainEmitsItsKind,
          LiveFollowsExec, EmissionInv, PInv
    <2>4. QED
      BY <2>1, <2>2, <2>3 DEF PInv
  <1>11. ASSUME Release
         PROVE  PInv'
    <2>1. TypeOK'
      BY <1>11, KindFacts
      DEF Release, Emit, Proc, Terminal, RunStatus, ExecPlace, EmissionPlace, PInv, TypeOK
    <2>2. LogInv'
      BY <1>11
      DEF Release, LastEvent, LogIsClosed, OutcomeIsLast, PersistsOutcome, LogInv, PInv
    <2>3. EmissionInv'
      BY <1>11, PublicationAssumption
      DEF Release, Emit, MainKinds, EntriesAreCommitted, TasksEmitOrdinary,
          MainEmitsItsKind, LiveFollowsExec, EmissionInv, PInv, TypeOK
    <2>4. QED
      BY <2>1, <2>2, <2>3 DEF PInv
  <1>12. ASSUME Handle
         PROVE  PInv'
    <2>1. TypeOK'
      BY <1>12, KindFacts
      DEF Handle, Emit, Proc, Terminal, RunStatus, ExecPlace, EmissionPlace, PInv, TypeOK
    <2>2. LogInv'
      BY <1>12, KindFacts
      DEF Handle, LastEvent, LogIsClosed, OutcomeIsLast, PersistsOutcome, LogInv, PInv,
          TypeOK
    <2>3. EmissionInv'
      BY <1>12, PublicationAssumption
      DEF Handle, Emit, Proc, MainKinds, EntriesAreCommitted, TasksEmitOrdinary,
          MainEmitsItsKind, LiveFollowsExec, EmissionInv, PInv, TypeOK
    <2>4. QED
      BY <2>1, <2>2, <2>3 DEF PInv
  <1>13. ASSUME LoseReplay
         PROVE  PInv'
    <2>1. TypeOK'
      BY <1>13, PublicationAssumption DEF LoseReplay, Fault, ExecPlace, PInv, TypeOK
    <2>2. LogInv'
      BY <1>13
      DEF LoseReplay, LastEvent, LogIsClosed, OutcomeIsLast, PersistsOutcome, LogInv, PInv
    <2>3. EmissionInv'
      BY <1>13
      DEF LoseReplay, MainKinds, EntriesAreCommitted, TasksEmitOrdinary, MainEmitsItsKind,
          LiveFollowsExec, EmissionInv, PInv
    <2>4. QED
      BY <2>1, <2>2, <2>3 DEF PInv
  <1>14. ASSUME Persist
         PROVE  PInv'
    <2>1. TypeOK'
      BY <1>14, PublicationAssumption
      DEF Persist, Fault, RunStatus, ExecPlace, EmissionPlace, EntriesAreCommitted, PInv,
          TypeOK
    <2>2. LogInv'
      BY <1>14
      DEF Persist, LastEvent, LogIsClosed, OutcomeIsLast, PersistsOutcome, LogInv, PInv,
          TypeOK
    <2>3. EmissionInv'
      BY <1>14
      DEF Persist, MainKinds, EntriesAreCommitted, TasksEmitOrdinary, MainEmitsItsKind,
          LiveFollowsExec, EmissionInv, PInv
    <2>4. QED
      BY <2>1, <2>2, <2>3 DEF PInv
  <1>15. ASSUME PublishLatest
         PROVE  PInv'
    <2>1. Len(log) \in 1..Len(log) /\ row.revision + 1 \in Nat \ {0}
      BY DEF PInv, TypeOK
    <2>2. row' \in [status : RunStatus, sequence : 1..Len(log), revision : Nat \ {0}]
      BY <1>15, <2>1 DEF PublishLatest, PInv, TypeOK
    <2>3. TypeOK'
      BY <1>15, <2>2, PublicationAssumption
      DEF PublishLatest, Fault, PInv, TypeOK, ExecPlace
    <2>4. LogInv'
      BY <1>15, <2>1
      DEF PublishLatest, LastEvent, LogIsClosed, OutcomeIsLast, PersistsOutcome, LogInv,
          PInv, TypeOK
    <2>5. EmissionInv'
      BY <1>15, <2>1
      DEF PublishLatest, MainKinds, EntriesAreCommitted, TasksEmitOrdinary,
          MainEmitsItsKind, LiveFollowsExec, EmissionInv, PInv
    <2>6. QED
      BY <2>3, <2>4, <2>5 DEF PInv
  <1>16. ASSUME Cancel
         PROVE  PInv'
    <2>1. TypeOK'
      BY <1>16, KindFacts, PublicationAssumption
      DEF Cancel, Proc, ExecPlace, EmissionPlace, PInv, TypeOK
    <2>2. LogInv'
      BY <1>16
      DEF Cancel, LastEvent, LogIsClosed, OutcomeIsLast, PersistsOutcome, LogInv, PInv
    <2>3. EmissionInv'
      BY <1>16, PublicationAssumption
      DEF Cancel, Proc, MainKinds, EntriesAreCommitted, TasksEmitOrdinary, MainEmitsItsKind,
          LiveFollowsExec, EmissionInv, PInv, TypeOK
    <2>4. QED
      BY <2>1, <2>2, <2>3 DEF PInv
  <1>17. ASSUME Stop
         PROVE  PInv'
    <2>1. TypeOK'
      BY <1>17, PublicationAssumption
      DEF Stop, DropEmissions, ExecPlace, EmissionPlace, PInv, TypeOK
    <2>2. LogInv'
      BY <1>17
      DEF Stop, LastEvent, LogIsClosed, OutcomeIsLast, PersistsOutcome, LogInv, PInv
    <2>3. EmissionInv'
      BY <1>17
      DEF Stop, DropEmissions, Proc, EntriesAreCommitted, TasksEmitOrdinary,
          MainEmitsItsKind, LiveFollowsExec, EmissionInv, PInv
    <2>4. QED
      BY <2>1, <2>2, <2>3 DEF PInv
  <1>18. QED
    BY <1>1, <1>2, <1>3, <1>4, <1>5, <1>6, <1>7, <1>8, <1>9, <1>10, <1>11, <1>12, <1>13,
       <1>14, <1>15, <1>16, <1>17
    DEF Next, Progress, ExecutionStep, EmissionStep

\* Nor does a stuttering step disturb it.
LEMMA NextPInv == PInv /\ [Next]_serverVars => PInv'
  <1>1. CASE Next
    BY <1>1, StepPInv
  <1>2. CASE UNCHANGED serverVars
    BY <1>2
    DEF serverVars, PInv, TypeOK, LogInv, EmissionInv, LogIsClosed, OutcomeIsLast,
        PersistsOutcome, EntriesAreCommitted, TasksEmitOrdinary, MainEmitsItsKind,
        LiveFollowsExec, LastEvent
  <1>3. QED
    BY <1>1, <1>2

\* What execute_run, _publish_runtime_event and the repository keep has its
\* types: a public sequence is that of a durable event, and the lock of the
\* aggregate is held by the one emission that is saving it.
THEOREM TypeCorrect == Spec => []TypeOK
  <1>1. PInv => TypeOK
    BY DEF PInv
  <1>2. QED
    BY <1>1, InitPInv, NextPInv, PTL DEF Spec

\* A terminal status that save_run or save_run_with_watermark leaves in the row
\* is the outcome of the last event append_event committed, whatever database
\* operation fails, whenever the run is cancelled or the server stops.
THEOREM OutcomeStaysLast == Spec => []OutcomeIsLast
  <1>1. PInv => OutcomeIsLast
    BY DEF PInv, LogInv
  <1>2. QED
    BY <1>1, InitPInv, NextPInv, PTL DEF Spec

-----------------------------------------------------------------------------
(* Undisturbed, a run is published as PublishedRun promises                *)

\* An event that is durable but not public yet is still being published.
NoEventForgotten ==
    exec # "stopped" =>
        \A i \in 1..Len(log) : i > row.sequence =>
            \E p \in Proc : at[p] \in {"waiting", "saving"} /\ entry[p].sequence = i

\* The status in the row is that of the last public event.
StatusIsPublic ==
    row.status = IF IsTerminal(log[row.sequence]) THEN Outcome[log[row.sequence]] ELSE "RUNNING"

RInv == PInv /\ NoEventForgotten /\ StatusIsPublic

LEMMA InitRInv == Init => RInv
  BY InitPInv, KindFacts DEF Init, RInv, NoEventForgotten, StatusIsPublic

\* A step leaves the row, or it publishes: the events up to some later one
\* become public with the status of that one.
Publishes ==
    /\ row'.sequence \in (row.sequence + 1)..Len(log)
    /\ ~IsTerminal(log[row.sequence])
    /\ row'.status = IF IsTerminal(log[row'.sequence])
                     THEN Outcome[log[row'.sequence]] ELSE "RUNNING"
    /\ log' = log

KeepsRow == row'.sequence = row.sequence /\ row'.status = row.status

\* Which events are durable, public or being published after the steps that
\* neither commit nor save one.
Elsewhere ==
    /\ UNCHANGED <<log, row>>
    /\ \A p \in Proc : at[p] \in {"waiting", "saving"} =>
          at'[p] \in {"waiting", "saving"} /\ entry'[p].sequence = entry[p].sequence

LEMMA ElsewhereRInv ==
    ASSUME RInv, Next, Elsewhere, exec # "stopped"
    PROVE  RInv' /\ KeepsRow
  <1>1. PInv'
    BY StepPInv DEF RInv
  <1>2. NoEventForgotten'
    BY DEF RInv, NoEventForgotten, Elsewhere
  <1>3. StatusIsPublic' /\ KeepsRow
    BY DEF RInv, StatusIsPublic, Elsewhere, KeepsRow
  <1>4. QED
    BY <1>1, <1>2, <1>3 DEF RInv

LEMMA StepRInv ==
    ASSUME MaxFaults = 0, MayCancel = FALSE, RInv, Next
    PROVE  RInv' /\ (KeepsRow \/ Publishes)
  <1>1. PInv'
    BY StepPInv DEF RInv
  <1>2. ~Fault
    BY PublicationAssumption DEF Fault, RInv, PInv, TypeOK
  <1>3. ASSUME NEW p \in Proc, Commit(p)
        PROVE  RInv' /\ KeepsRow
    <2>1. exec # "stopped"
      BY <1>3, PublicationAssumption
      DEF Commit, RInv, PInv, EmissionInv, TasksEmitOrdinary, MainEmitsItsKind, MainKinds,
          Proc
    <2>2. CASE Refused
      <3>1. Elsewhere
        BY <1>3, <2>2 DEF Commit, Raise, Elsewhere, RInv, PInv, TypeOK
      <3>2. QED
        BY <2>1, <3>1, ElsewhereRInv
    <2>3. CASE ~Refused
      <3>1. /\ Len(log) \in Nat \ {0} /\ Len(log') = Len(log) + 1
            /\ \A i \in 1..Len(log) : log'[i] = log[i]
            /\ log \in Seq(Kind) /\ row.sequence \in 1..Len(log)
        BY <1>3, <2>3, Appended DEF Commit, RInv, PInv, TypeOK
      <3>2. /\ at'[p] = "waiting" /\ entry'[p].sequence = Len(log')
            /\ \A q \in Proc : q # p => at'[q] = at[q] /\ entry'[q] = entry[q]
            /\ UNCHANGED <<row, exec>>
        BY <1>3, <2>3, <3>1 DEF Commit, RInv, PInv, TypeOK
      <3>3. at[p] = "inserting"
        BY <1>3 DEF Commit
      <3>4. NoEventForgotten'
        <4> SUFFICES ASSUME NEW i \in 1..Len(log'), i > row'.sequence
                     PROVE  \E q \in Proc : at'[q] \in {"waiting", "saving"}
                                            /\ entry'[q].sequence = i
          BY <3>2 DEF NoEventForgotten
        <4>1. CASE i = Len(log')
          BY <3>2, <4>1
        <4>2. CASE i # Len(log')
          <5>1. i \in 1..Len(log)
            BY <3>1, <4>2
          <5>2. PICK q \in Proc : at[q] \in {"waiting", "saving"} /\ entry[q].sequence = i
            BY <2>1, <3>2, <5>1 DEF RInv, NoEventForgotten
          <5>3. QED
            BY <3>2, <3>3, <5>2
        <4>3. QED
          BY <4>1, <4>2
      <3>5. StatusIsPublic' /\ KeepsRow
        BY <3>1, <3>2 DEF RInv, StatusIsPublic, KeepsRow
      <3>6. QED
        BY <1>1, <3>4, <3>5 DEF RInv
    <2>4. QED
      BY <2>2, <2>3
  <1>4. ASSUME NEW p \in Proc, SaveWithWatermark(p)
        PROVE  RInv' /\ (KeepsRow \/ Publishes)
    <2> DEFINE n == entry[p].sequence
    <2>1. n \in 1..Len(log) /\ log[n] = entry[p].kind
      BY <1>4 DEF SaveWithWatermark, RInv, PInv, EmissionInv, EntriesAreCommitted
    <2>2. live = IF IsTerminal(log[n]) THEN Outcome[log[n]] ELSE "RUNNING"
      BY <1>4, <2>1, KindFacts, PublicationAssumption
      DEF SaveWithWatermark, RInv, PInv, EmissionInv, TasksEmitOrdinary, MainEmitsItsKind,
          LiveFollowsExec, MainKinds, Ordinary, Proc
    <2>3. row.sequence \in 1..Len(log) /\ Len(log) \in Nat
      BY DEF RInv, PInv, TypeOK
    <2>4. KeepsRow \/ Publishes
      <3>1. CASE n <= row.sequence
        BY <1>4, <3>1 DEF SaveWithWatermark, SavedRow, KeepsRow
      <3>2. CASE n > row.sequence
        <4>1. ~IsTerminal(log[row.sequence])
          BY <2>1, <2>3, <3>2 DEF RInv, PInv, LogInv, LogIsClosed
        <4>2. row'.sequence = n /\ row'.status = live /\ log' = log
          BY <1>4, <2>1, <2>3, <3>2 DEF SaveWithWatermark, SavedRow
        <4>3. QED
          BY <2>1, <2>2, <2>3, <3>2, <4>1, <4>2 DEF Publishes
      <3>3. QED
        BY <2>1, <2>3, <3>1, <3>2
    <2>5. StatusIsPublic'
      BY <1>4, <2>4 DEF KeepsRow, Publishes, StatusIsPublic, RInv, SaveWithWatermark
    <2>6. row'.sequence >= n /\ row'.sequence >= row.sequence
      BY <1>4, <2>1, <2>3 DEF SaveWithWatermark, SavedRow
    <2>7. NoEventForgotten'
      <3> SUFFICES ASSUME NEW i \in 1..Len(log'), i > row'.sequence
                   PROVE  \E q \in Proc : at'[q] \in {"waiting", "saving"}
                                          /\ entry'[q].sequence = i
        BY DEF NoEventForgotten
      <3>1. log' = log /\ entry' = entry /\ \A q \in Proc : q # p => at'[q] = at[q]
        BY <1>4 DEF SaveWithWatermark, Return, RInv, PInv, TypeOK
      <3>2. exec # "stopped"
        BY <1>4, PublicationAssumption
        DEF SaveWithWatermark, RInv, PInv, EmissionInv, TasksEmitOrdinary, MainEmitsItsKind,
            MainKinds, Proc
      <3>3. row' \in [status : RunStatus, sequence : 1..Len(log'), revision : Nat \ {0}]
        BY <1>1 DEF PInv, TypeOK
      <3>4. i > row.sequence /\ i # n
        BY <2>1, <2>3, <2>6, <3>1, <3>3
      <3>5. PICK q \in Proc : at[q] \in {"waiting", "saving"} /\ entry[q].sequence = i
        BY <3>1, <3>2, <3>4 DEF RInv, NoEventForgotten
      <3>6. QED
        BY <3>1, <3>4, <3>5
    <2>8. QED
      BY <1>1, <2>4, <2>5, <2>7 DEF RInv
  <1>5. ASSUME NEW p \in Proc, LoseCommit(p) \/ LoseSave(p)
        PROVE  FALSE
    BY <1>2, <1>5 DEF LoseCommit, LoseSave
  <1>6. ASSUME NEW p \in Proc, TakeLock(p) \/ EmitOrdinary(p)
        PROVE  RInv' /\ KeepsRow
    <2>1. exec # "stopped"
      BY <1>6, PublicationAssumption
      DEF TakeLock, EmitOrdinary, RInv, PInv, EmissionInv, TasksEmitOrdinary,
          MainEmitsItsKind, MainKinds, Proc
    <2>2. Elsewhere
      BY <1>6 DEF TakeLock, EmitOrdinary, Emit, Elsewhere, RInv, PInv, TypeOK
    <2>3. QED
      BY <2>1, <2>2, ElsewhereRInv
  <1>7. CASE SchedulerReturns \/ SchedulerFails \/ Sealed \/ ReviewRaises \/ Release \/ Handle
    <2>1. exec # "stopped"
      BY <1>7 DEF SchedulerReturns, SchedulerFails, Sealed, ReviewRaises, Release, Handle
    <2>2. Elsewhere
      BY <1>7
      DEF SchedulerReturns, SchedulerFails, Sealed, ReviewRaises, Release, Handle, Emit,
          Elsewhere, RInv, PInv, TypeOK
    <2>3. QED
      BY <2>1, <2>2, ElsewhereRInv
  <1>8. CASE LoseReplay
    BY <1>2, <1>8 DEF LoseReplay
  <1>9. ASSUME Persist \/ PublishLatest
        PROVE  RInv' /\ KeepsRow
    <2>1. exec \in {"persisting", "publishing"} /\ UNCHANGED <<log, at, entry>>
      BY <1>9 DEF Persist, PublishLatest
    <2>2. \A p \in Proc : at[p] = "idle"
      BY <2>1
      DEF RInv, PInv, EmissionInv, TasksEmitOrdinary, MainEmitsItsKind, MainKinds, Proc
    <2>3. row.sequence = Len(log)
      BY <2>1, <2>2 DEF RInv, NoEventForgotten, PInv, TypeOK
    <2>4. KeepsRow
      <3>1. CASE Persist
        BY <1>2, <2>3, <3>1
        DEF Persist, KeepsRow, RInv, StatusIsPublic, PInv, LogInv, PersistsOutcome,
            LastEvent, TypeOK
      <3>2. CASE PublishLatest
        BY <1>2, <2>3, <3>2 DEF PublishLatest, KeepsRow, RInv, PInv, TypeOK
      <3>3. QED
        BY <1>9, <3>1, <3>2
    <2>5. NoEventForgotten' /\ StatusIsPublic'
      BY <1>1, <2>1, <2>3, <2>4
      DEF NoEventForgotten, StatusIsPublic, KeepsRow, RInv, PInv, TypeOK
    <2>6. QED
      BY <1>1, <2>4, <2>5 DEF RInv
  <1>10. CASE Cancel
    BY <1>10 DEF Cancel
  <1>11. ASSUME Stop
         PROVE  RInv' /\ KeepsRow
    BY <1>1, <1>11 DEF Stop, RInv, NoEventForgotten, StatusIsPublic, KeepsRow
  <1>12. QED
    BY <1>3, <1>4, <1>5, <1>6, <1>7, <1>8, <1>9, <1>10, <1>11
    DEF Next, Progress, ExecutionStep, EmissionStep

LEMMA LogOnlyGrows ==
    ASSUME PInv, Next
    PROVE  /\ Len(log') >= Len(log)
           /\ \A i \in 1..Len(log) : log'[i] = log[i]
  <1>1. CASE log' = log
    BY <1>1 DEF PInv, TypeOK
  <1>2. CASE \E p \in Proc : ~Refused /\ log' = Append(log, entry[p].kind)
    BY <1>2, Appended
  <1>3. QED
    BY <1>1, <1>2
    DEF Next, Progress, ExecutionStep, EmissionStep, Commit, LoseCommit, TakeLock,
        SaveWithWatermark, LoseSave, EmitOrdinary, SchedulerReturns, SchedulerFails, Sealed,
        ReviewRaises, Release, Handle, LoseReplay, Persist, PublishLatest, Cancel, Stop

LEMMA PublishedEvents ==
    ASSUME PInv
    PROVE  /\ Published \in Seq(Kind)
           /\ Len(Published) = row.sequence
           /\ \A i \in 1..row.sequence : Published[i] = log[i]
  <1>1. row.sequence \in 1..Len(log) /\ \A i \in 1..row.sequence : log[i] \in Kind
    BY DEF PInv, TypeOK
  <1>2. QED
    BY <1>1, SubSeqProperties DEF Published

LEMMA PublishedStatus ==
    ASSUME PInv, StatusIsPublic
    PROVE  row.status = View!StatusAfter(Published) /\ View!Open(Published)
  <1>1. row.sequence \in 1..Len(log)
    BY DEF PInv, TypeOK
  <1>2. row.status = View!StatusAfter(Published)
    BY <1>1, PublishedEvents
    DEF StatusIsPublic, View!StatusAfter, IsTerminal, View!IsTerminal, Outcome, View!Outcome
  <1>3. View!Open(Published)
    BY <1>1, PublishedEvents
    DEF View!Open, PInv, LogInv, LogIsClosed, IsTerminal, View!IsTerminal, Outcome,
        View!Outcome
  <1>4. QED
    BY <1>2, <1>3

\* With no failing database operation and no cancellation, for every set of
\* tasks: what _publish_runtime_event and the watermark make of the run
\* implements PublishedRun, crashes included.
THEOREM RunIsPublished ==
    ASSUME MaxFaults = 0, MayCancel = FALSE
    PROVE  Spec => PublishesRun
  <1>1. Init => RInv
    BY InitRInv
  <1>2. RInv /\ [Next]_serverVars => RInv'
    <2>1. CASE Next
      BY <2>1, StepRInv
    <2>2. CASE UNCHANGED serverVars
      <3>1. RInv /\ [Next]_serverVars => PInv'
        BY NextPInv DEF RInv
      <3>2. QED
        BY <2>2, <3>1 DEF serverVars, RInv, NoEventForgotten, StatusIsPublic
    <2>3. QED
      BY <2>1, <2>2
  <1>3. RInv => View!StatusAfter(Published) = row.status /\ View!Open(Published)
    BY PublishedStatus DEF RInv
  <1>4. Init => View!Init
    BY <1>1, <1>3, PublishedStatus DEF RInv, View!Init
  <1>5. RInv /\ RInv' /\ [Next]_serverVars => [View!Advance]_<<Published, row.status>>
    <2> SUFFICES ASSUME RInv, RInv', [Next]_serverVars
                 PROVE  [View!Advance]_<<Published, row.status>>
      OBVIOUS
    <2>1. CASE UNCHANGED serverVars
      BY <2>1 DEF serverVars, Published
    <2>2. CASE Next
      <3>1. /\ Published \in Seq(Kind) /\ Len(Published) = row.sequence
            /\ \A i \in 1..row.sequence : Published[i] = log[i]
        BY PublishedEvents DEF RInv
      <3>2. /\ Published' \in Seq(Kind) /\ Len(Published') = row'.sequence
            /\ \A i \in 1..row'.sequence : Published'[i] = log'[i]
        <4>1. PInv'
          BY DEF RInv
        <4>2. row'.sequence \in 1..Len(log') /\ \A i \in 1..row'.sequence : log'[i] \in Kind
          BY <4>1 DEF PInv, TypeOK
        <4>3. QED
          BY <4>2, SubSeqProperties DEF Published
      <3>3. /\ row.sequence \in 1..Len(log) /\ Len(log') >= Len(log)
            /\ \A i \in 1..Len(log) : log'[i] = log[i]
        BY <2>2, LogOnlyGrows DEF RInv, PInv, TypeOK
      <3>4. CASE KeepsRow
        <4>1. Published' = Published
          BY <3>1, <3>2, <3>3, <3>4, SeqEqual DEF KeepsRow
        <4>2. QED
          BY <3>4, <4>1 DEF KeepsRow
      <3>5. CASE Publishes
        <4>1. ~IsTerminal(Published[Len(Published)])
          BY <3>1, <3>3, <3>5 DEF Publishes
        <4>2. SubSeq(Published', 1, Len(Published)) = Published
          <5>1. row'.sequence > row.sequence
            BY <3>3, <3>5 DEF Publishes
          <5>2. \A i \in 1..row.sequence : Published'[i] = Published[i] /\ Published'[i] \in Kind
            BY <3>1, <3>2, <3>3, <5>1
          <5>3. /\ SubSeq(Published', 1, row.sequence) \in Seq(Kind)
                /\ Len(SubSeq(Published', 1, row.sequence)) = row.sequence
                /\ \A i \in 1..row.sequence : SubSeq(Published', 1, row.sequence)[i] = Published'[i]
            BY <3>3, <5>2, SubSeqProperties
          <5>4. QED
            BY <3>1, <5>2, <5>3, SeqEqual
        <4>3. Len(Published') > Len(Published)
          BY <3>1, <3>2, <3>3, <3>5 DEF Publishes
        <4>4. row'.status = View!StatusAfter(Published') /\ View!Open(Published')
          <5>1. row'.sequence \in 1..Len(log')
            BY DEF RInv, PInv, TypeOK
          <5>2. row'.status = View!StatusAfter(Published')
            BY <3>2, <5>1
            DEF RInv, StatusIsPublic, View!StatusAfter, IsTerminal, View!IsTerminal,
                Outcome, View!Outcome
          <5>3. View!Open(Published')
            <6>1. Len(log') \in Nat /\ \A i \in 1..Len(log') : IsTerminal(log'[i]) => i = Len(log')
              BY DEF RInv, PInv, LogInv, LogIsClosed, TypeOK
            <6>2. \A i \in 1..(row'.sequence - 1) : ~IsTerminal(log'[i])
              BY <5>1, <6>1
            <6>3. Published' # <<>>
              BY <3>2, <5>1
            <6>4. QED
              BY <3>2, <5>1, <6>2, <6>3
              DEF View!Open, IsTerminal, View!IsTerminal, Outcome, View!Outcome
          <5>4. QED
            BY <5>2, <5>3
        <4>5. QED
          BY <4>1, <4>2, <4>3, <4>4
          DEF View!Advance, View!Extends, IsTerminal, View!IsTerminal, Outcome, View!Outcome
      <3>6. QED
        BY <2>2, <3>4, <3>5, StepRInv
    <2>3. QED
      BY <2>1, <2>2
  <1>6. QED
    BY <1>1, <1>2, <1>4, <1>5, PTL DEF Spec, PublishesRun, View!Spec
=============================================================================
