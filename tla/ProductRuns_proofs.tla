-------------------------- MODULE ProductRuns_proofs --------------------------
(***************************************************************************)
(* Proofs about ProductRuns, for every number of processes, keys, drafts,  *)
(* runs and authorizations and every bound: types, one active run, one     *)
(* execution of each run, leases, memory and closure recovery from one     *)
(* inductive invariant, and that admission implements ExecutionSlot.       *)
(***************************************************************************)
EXTENDS ProductRuns, TLAPS

-----------------------------------------------------------------------------
(* The inductive invariant                                                 *)

\* The advisory lock: one transaction waits for the planner at a time, and
\* while it waits no run is active.
OnePlanner ==
    /\ \A t, u \in planning : t = u
    /\ planning # {} => ActiveRuns = {}

\* What a transaction was checked against still holds when it commits.
ClaimsHold == \A t \in planning :
    \/ /\ t.draft # 0 /\ t.key # 0 /\ t.auth = 0
       /\ drafts[t.draft] # NoDraft /\ drafts[t.draft].run = 0
       /\ drafts[t.draft].expires = t.checked
       /\ \A r \in Run : runs[r].key # t.key
    \/ /\ t.draft = 0 /\ t.key = 0 /\ t.auth # 0
       /\ auths[t.auth].prior # 0 /\ auths[t.auth].run = 0
       /\ \A r \in Run : runs[r].auth # t.auth

\* A run is there from its admission, with one kind of claim and its draft's base.
Complete(r) ==
    /\ runs[r].intent # 0
    /\ drafts[runs[r].intent] # NoDraft /\ drafts[runs[r].intent].run # 0
    /\ runs[r].base = drafts[runs[r].intent].base
    /\ \/ /\ runs[r].key # 0 /\ runs[r].auth = 0
          /\ drafts[runs[r].intent].run = r
          /\ drafts[runs[r].intent].expires = runs[r].checked
       \/ /\ runs[r].key = 0 /\ runs[r].auth # 0
          /\ auths[runs[r].auth].run = r

RowsAreComplete == \A r \in Run :
    /\ runs[r] = NoRun \/ Complete(r)
    /\ runs[r].status = "ABSENT" <=> runs[r] = NoRun
    /\ runs[r].delivery = "NONE" <=> runs[r] = NoRun
    /\ runs[r].delivery = "PENDING" <=> runs[r].status = "PLANNING"
    /\ runs[r].delivery = "PENDING" => runs[r].starts = 0

\* An authorization names a run that is there.
AuthorizedRunsExist == \A a \in Auth :
    auths[a] = NoAuth \/ (auths[a].prior # 0 /\ runs[auths[a].prior] # NoRun)

\* A worker holds the admission of a run that is there.
WorkersHandleRuns == \A p \in Process :
    worker[p] \in {"due", "starting"} => due[p] # 0 /\ runs[due[p]] # NoRun

\* Views are behind the pointer, and bases behind the views.
MemoryInv ==
    /\ pointer = 0 => views = {}
    /\ \A d \in Draft : drafts[d].base \in views \cup {0}
    /\ \A p \in Process : preparing[p].base \in views \cup {0}
    /\ \A r \in views : runs[r].status = "RELEASED" /\ runs[r].base # pointer

\* A recovery under way has not ended, and knows what it wrote.
RecoveryInv == \A r \in Run :
    recovering[r] # "none" =>
        /\ closure[r] \cap {"COMPLETED", "FAILED"} = {}
        /\ recovering[r] = "materialized" => r \in views

\* The inductive invariant: the properties and what they rest on.
IInv ==
    /\ TypeOK
    /\ OnePlanner /\ ClaimsHold
    /\ RowsAreComplete /\ AuthorizedRunsExist
    /\ OneActiveRun
    /\ WorkersHandleRuns /\ ExecutedOnce
    /\ MemoryInv /\ IntentInMemoryOnce
    /\ RecoveryInv /\ CompletedInMemory

-----------------------------------------------------------------------------
(* Rows                                                                    *)

\* 0 stands for no row.
LEMMA NoRowIsZero == 0 \notin Draft /\ 0 \notin Run /\ 0 \notin Auth
  BY StoreAssumption DEF Draft, Run, Auth

\* Empty rows are rows.
LEMMA EmptyRows ==
    /\ NoRun \in RunRow /\ NoRun.status = "ABSENT" /\ NoRun.delivery = "NONE" /\ NoRun.starts = 0
    /\ NoRun.key = 0 /\ NoRun.auth = 0 /\ NoRun.intent = 0
    /\ NoDraft \in DraftRow /\ NoDraft.run = 0 /\ NoDraft.base = 0
    /\ NoAuth \in AuthRow /\ NoAuth.run = 0 /\ NoAuth.prior = 0
    /\ NoPrepare \in Prepare /\ NoPrepare.base = 0
  BY DEF NoRun, RunRow, NoDraft, DraftRow, NoAuth, AuthRow, NoPrepare, Prepare


\* The row of a run that is admitted.
AddsRun(r) ==
    /\ runs[r] = NoRun /\ ActiveRuns = {} /\ planning' = {}
    /\ runs' \in [Run -> RunRow]
    /\ runs'[r] # NoRun
    /\ runs'[r].status = "PLANNING" /\ runs'[r].delivery = "PENDING" /\ runs'[r].starts = 0
    /\ \A q \in Run \ {r} : runs'[q] = runs[q]

\* The run of a draft, under the key of its confirmation.
Confirms(t, r) ==
    /\ t.draft \in Draft /\ t.key \in Key
    /\ drafts[t.draft] # NoDraft /\ drafts[t.draft].run = 0
    /\ drafts[t.draft].expires = t.checked
    /\ \A q \in Run : runs[q].key # t.key
    /\ runs'[r].intent = t.draft /\ runs'[r].key = t.key /\ runs'[r].auth = 0
    /\ runs'[r].base = drafts[t.draft].base /\ runs'[r].checked = t.checked

\* The run of an authorization, on the intent and base of the run before it.
Reexecutes(t, r) ==
    LET prior == auths[t.auth].prior
    IN  /\ t.auth \in Auth /\ auths[t.auth] # NoAuth /\ auths[t.auth].run = 0
        /\ \A q \in Run : runs[q].auth # t.auth
        /\ prior \in Run /\ runs[prior] # NoRun
        /\ runs'[r].intent = runs[prior].intent /\ runs'[r].key = 0 /\ runs'[r].auth = t.auth
        /\ runs'[r].base = runs[prior].base

\* The row of a run whose status changes: its claims and base are what they were.
SameRun(q) ==
    /\ (runs'[q] = NoRun) <=> (runs[q] = NoRun)
    /\ runs'[q].intent = runs[q].intent /\ runs'[q].key = runs[q].key
    /\ runs'[q].auth = runs[q].auth /\ runs'[q].base = runs[q].base
    /\ runs'[q].checked = runs[q].checked

\* One run changes its status.
MovesRun(r, from, to) ==
    /\ runs[r] # NoRun /\ runs[r].status = from
    /\ runs' \in [Run -> RunRow]
    /\ runs'[r].status = to
    /\ runs'[r].delivery = IF from = "PLANNING" THEN "ACKNOWLEDGED" ELSE runs[r].delivery
    /\ \A q \in Run : SameRun(q)
    /\ \A q \in Run \ {r} : runs'[q] = runs[q]

\* The row a confirmation inserts.
ConfirmedRow(i, k, b, c) ==
    [NoRun EXCEPT !.status = "PLANNING", !.delivery = "PENDING", !.intent = i, !.key = k,
                  !.base = b, !.checked = c]

LEMMA ConfirmedRowType ==
    ASSUME NEW i \in Draft, NEW k \in Key, NEW b \in Run \cup {0}, NEW c \in Nat
    PROVE  ConfirmedRow(i, k, b, c) \in RunRow
  BY DEF ConfirmedRow, NoRun, RunRow, RunStatus, Active

LEMMA ConfirmedRowFields ==
    ASSUME NEW i, NEW k, NEW b, NEW c, NEW row, row = ConfirmedRow(i, k, b, c)
    PROVE  /\ row.status = "PLANNING" /\ row.delivery = "PENDING" /\ row.starts = 0
           /\ row.intent = i /\ row.key = k /\ row.auth = 0
           /\ row.base = b /\ row.checked = c
  <1>1. row.status = "PLANNING" /\ row.delivery = "PENDING" /\ row.starts = 0
    BY DEF ConfirmedRow, NoRun
  <1>2. row.intent = i /\ row.key = k /\ row.auth = 0
    BY DEF ConfirmedRow, NoRun
  <1>3. row.base = b /\ row.checked = c
    BY DEF ConfirmedRow, NoRun
  <1>4. QED
    BY <1>1, <1>2, <1>3

\* What the insertion of a confirmed run does to the table of runs.
LEMMA ConfirmAddsRun ==
    ASSUME IInv, NEW t \in planning, NEW r \in Run, ConfirmCommit(t, r)
    PROVE  AddsRun(r) /\ Confirms(t, r)
  <1> DEFINE row == ConfirmedRow(t.draft, t.key, drafts[t.draft].base, t.checked)
  <1>1. /\ t \in Transaction /\ t.draft \in Draft /\ t.key \in Key
        /\ drafts[t.draft] # NoDraft /\ drafts[t.draft].run = 0
        /\ drafts[t.draft].expires = t.checked
        /\ \A q \in Run : runs[q].key # t.key
    <2>1. /\ t \in Transaction /\ t.draft \in Draft /\ drafts[t.draft].run = 0
          /\ drafts[t.draft] # NoDraft /\ drafts[t.draft].expires = t.checked
          /\ t.key # 0 /\ \A q \in Run : runs[q].key # t.key
      BY DEF IInv, TypeOK, ClaimsHold, ConfirmCommit, Transaction
    <2>2. QED
      BY <2>1 DEF Transaction
  <1>2. runs[r] = NoRun /\ ActiveRuns = {} /\ planning' = {}
    BY DEF IInv, OnePlanner, ConfirmCommit, IsFresh
  <1>3. drafts[t.draft].base \in Run \cup {0}
    BY <1>1 DEF IInv, TypeOK, DraftRow
  <1>4. /\ row \in RunRow
        /\ row.status = "PLANNING" /\ row.delivery = "PENDING" /\ row.starts = 0
        /\ row.intent = t.draft /\ row.key = t.key /\ row.auth = 0
        /\ row.base = drafts[t.draft].base /\ row.checked = t.checked
    <2>1. t.draft \in Draft /\ t.key \in Key /\ t.checked \in Nat
      BY <1>1 DEF Transaction
    <2>2. ConfirmedRow(t.draft, t.key, drafts[t.draft].base, t.checked) \in RunRow
      BY <1>3, <2>1, ConfirmedRowType
    <2>3. QED
      BY <2>2, ConfirmedRowFields
  <1>5. runs' = [runs EXCEPT ![r] = row]
    BY DEF ConfirmCommit, ConfirmedRow
  <1> HIDE DEF row
  <1>6. QED
    BY <1>1, <1>2, <1>4, <1>5, EmptyRows DEF IInv, TypeOK, AddsRun, Confirms

\* What the insertion of a re-executed run does to the table of runs.
LEMMA ReexecuteAddsRun ==
    ASSUME IInv, NEW t \in planning, NEW r \in Run, ReexecuteCommit(t, r)
    PROVE  AddsRun(r) /\ Reexecutes(t, r)
  <1> DEFINE prior == auths[t.auth].prior
             row == [NoRun EXCEPT !.status = "PLANNING", !.delivery = "PENDING",
                         !.intent = runs[prior].intent, !.auth = t.auth, !.of = prior,
                         !.base = runs[prior].base]
  <1>1. /\ t.auth \in Auth
        /\ auths[t.auth] # NoAuth /\ auths[t.auth].run = 0
        /\ \A q \in Run : runs[q].auth # t.auth
    BY EmptyRows DEF IInv, TypeOK, ClaimsHold, ReexecuteCommit, Transaction
  <1>2. prior \in Run /\ runs[prior] # NoRun
    BY <1>1 DEF IInv, TypeOK, AuthorizedRunsExist, AuthRow
  <1>3. runs[r] = NoRun /\ ActiveRuns = {} /\ planning' = {}
    BY DEF IInv, OnePlanner, ReexecuteCommit, IsFresh
  <1>4. runs[prior].intent \in Draft \cup {0} /\ runs[prior].base \in Run \cup {0}
    BY <1>2 DEF IInv, TypeOK, RunRow
  <1>5. /\ row \in RunRow
        /\ row.status = "PLANNING" /\ row.delivery = "PENDING" /\ row.starts = 0
        /\ row.intent = runs[prior].intent /\ row.key = 0 /\ row.auth = t.auth
        /\ row.base = runs[prior].base
    BY ZenonT(40), <1>1, <1>2, <1>4 DEF NoRun, RunRow, RunStatus, Active
  <1>6. runs' = [runs EXCEPT ![r] = row]
    BY DEF ReexecuteCommit
  <1> HIDE DEF row
  <1>7. QED
    BY <1>1, <1>2, <1>3, <1>5, <1>6, EmptyRows DEF IInv, TypeOK, AddsRun, Reexecutes

\* A worker that starts a run moves it from PLANNING to RUNNING.
LEMMA StartMovesRun ==
    ASSUME IInv, NEW p \in Process, StartCommit(p)
    PROVE  /\ due[p] \in Run /\ MovesRun(due[p], "PLANNING", "RUNNING") /\ runs'[due[p]].starts = 1
           /\ \A o \in Process : due[p] \notin executing[o]
  <1> DEFINE r == due[p]
             row == [runs[r] EXCEPT !.status = "RUNNING", !.delivery = "ACKNOWLEDGED",
                                    !.starts = @ + 1]
  <1>1. /\ r \in Run /\ runs[r] # NoRun
        /\ runs[r].status = "PLANNING" /\ runs[r].starts = 0
        /\ \A o \in Process : r \notin executing[o]
    BY NoRowIsZero DEF IInv, TypeOK, WorkersHandleRuns, RowsAreComplete, ExecutedOnce,
       StartCommit
  <1>2. /\ row \in RunRow
        /\ row.status = "RUNNING" /\ row.delivery = "ACKNOWLEDGED" /\ row.starts = 1
        /\ row.intent = runs[r].intent /\ row.key = runs[r].key /\ row.auth = runs[r].auth
        /\ row.base = runs[r].base /\ row.checked = runs[r].checked
    <2>1. runs[r] \in RunRow /\ runs[r].starts + 1 = 1
      BY <1>1 DEF IInv, TypeOK
    <2>2. row = [runs[r] EXCEPT !.status = "RUNNING", !.delivery = "ACKNOWLEDGED", !.starts = 1]
      BY <2>1, Zenon
    <2> HIDE DEF row
    <2>3. QED
      BY <2>1, <2>2 DEF RunRow, RunStatus, Active
  <1>3. runs' = [runs EXCEPT ![r] = row]
    BY DEF StartCommit
  <1>4. row # NoRun
    BY <1>2, EmptyRows
  <1> HIDE DEF row
  <1>5. QED
    BY <1>1, <1>2, <1>3, <1>4 DEF IInv, TypeOK, MovesRun, SameRun

\* The end of an execution moves a run out of RUNNING.
LEMMA EndMovesRun ==
    ASSUME IInv, NEW p \in Process, NEW r \in Run,
           NEW status \in {"RELEASED", "FAILED", "CANCELLED"}, NEW gated \in BOOLEAN,
           ExecutionEnds(p, r, status, gated)
    PROVE  /\ MovesRun(r, "RUNNING", status)
           /\ \A o \in Process \ {p} : r \notin executing[o]
  <1> DEFINE row == [runs[r] EXCEPT !.status = status, !.gated = gated]
  <1>1. /\ runs[r] # NoRun /\ runs[r].status = "RUNNING"
        /\ \A o \in Process \ {p} : r \notin executing[o]
    BY EmptyRows DEF IInv, RowsAreComplete, ExecutedOnce, ExecutionEnds
  <1>2. /\ row \in RunRow
        /\ row.status = status /\ row.delivery = runs[r].delivery
        /\ row.intent = runs[r].intent /\ row.key = runs[r].key /\ row.auth = runs[r].auth
        /\ row.base = runs[r].base /\ row.checked = runs[r].checked
    <2>1. runs[r] \in RunRow /\ status \in RunStatus
      BY DEF IInv, TypeOK, RunStatus
    <2>2. QED
      BY <2>1 DEF RunRow
  <1>3. runs' = [runs EXCEPT ![r] = row]
    BY DEF ExecutionEnds
  <1>4. row # NoRun
    BY <1>2, EmptyRows
  <1> HIDE DEF row
  <1>5. QED
    BY <1>1, <1>2, <1>3, <1>4 DEF IInv, TypeOK, MovesRun, SameRun

\* Closure recovery moves a FAILED run to RELEASED.
LEMMA RecoveryMovesRun ==
    ASSUME IInv, NEW r \in Run, RecoverRelease(r)
    PROVE  MovesRun(r, "FAILED", "RELEASED")
  <1> DEFINE row == [runs[r] EXCEPT !.status = "RELEASED"]
  <1>1. runs[r] # NoRun /\ runs[r].status = "FAILED"
    BY EmptyRows DEF RecoverRelease
  <1>2. /\ row \in RunRow
        /\ row.status = "RELEASED" /\ row.delivery = runs[r].delivery
        /\ row.intent = runs[r].intent /\ row.key = runs[r].key /\ row.auth = runs[r].auth
        /\ row.base = runs[r].base /\ row.checked = runs[r].checked
    BY DEF IInv, TypeOK, RunRow, RunStatus, Active
  <1>3. runs' = [runs EXCEPT ![r] = row]
    BY DEF RecoverRelease
  <1>4. row # NoRun
    BY <1>2, EmptyRows
  <1> HIDE DEF row
  <1>5. QED
    BY <1>1, <1>2, <1>3, <1>4 DEF IInv, TypeOK, MovesRun, SameRun

\* A run that moves keeps what the rows say of each other.
LEMMA MoveKeepsRows ==
    ASSUME IInv, NEW r \in Run, NEW from \in RunStatus, NEW to \in RunStatus, MovesRun(r, from, to),
           from = "PLANNING" <=> runs[r].delivery = "PENDING", to # "PLANNING",
           UNCHANGED <<drafts, auths, planning>>
    PROVE  ClaimsHold' /\ RowsAreComplete' /\ AuthorizedRunsExist'
  <1>1. \A q \in Run : SameRun(q)
    BY DEF MovesRun
  <1>2. ClaimsHold'
    BY <1>1 DEF IInv, ClaimsHold, SameRun
  <1>3. AuthorizedRunsExist'
    BY <1>1, NoRowIsZero DEF IInv, AuthorizedRunsExist, SameRun, TypeOK, AuthRow
  <1>4. \A q \in Run : runs'[q] = NoRun \/ Complete(q)'
    BY <1>1 DEF IInv, RowsAreComplete, Complete, SameRun
  <1>5. RowsAreComplete'
    BY <1>1, <1>4 DEF IInv, RowsAreComplete, MovesRun, SameRun, RunStatus, Active
  <1>6. QED
    BY <1>2, <1>3, <1>5

-----------------------------------------------------------------------------
(* Every step preserves the invariant                                      *)

\* The empty store satisfies the invariant.
LEMMA InitIInv == Init => IInv
  <1> SUFFICES ASSUME Init PROVE IInv
    OBVIOUS
  <1> USE StoreAssumption, NoRowIsZero, EmptyRows DEF Init
  <1>1. TypeOK
    BY DEF TypeOK
  <1>2. OnePlanner /\ OneActiveRun /\ ClaimsHold
    BY DEF OnePlanner, OneActiveRun, ClaimsHold, ActiveRuns, Active
  <1>3. RowsAreComplete /\ AuthorizedRunsExist
    BY DEF RowsAreComplete, AuthorizedRunsExist
  <1>4. WorkersHandleRuns /\ ExecutedOnce
    BY DEF WorkersHandleRuns, ExecutedOnce
  <1>5. MemoryInv /\ IntentInMemoryOnce /\ RecoveryInv /\ CompletedInMemory
    BY DEF MemoryInv, IntentInMemoryOnce, RecoveryInv, CompletedInMemory
  <1>6. QED
    BY <1>1, <1>2, <1>3, <1>4, <1>5 DEF IInv

\* Each transaction and each crash keeps the invariant.
LEMMA StepIInv ==
    ASSUME IInv, [Next]_storeVars
    PROVE  IInv'
  <1> USE StoreAssumption, NoRowIsZero, EmptyRows DEF RunStatus, Active
  <1>1. ASSUME NEW p \in Process, NEW k \in Key, NEW base \in {0} \cup Run,
               PrepareBegin(p, k, base)
        PROVE  IInv'
    <2>1. TypeOK'
      BY <1>1 DEF IInv, TypeOK, PrepareBegin, tables, workers, Prepare, Expiry
    <2>2. MemoryInv'
      BY <1>1 DEF IInv, TypeOK, MemoryInv, PrepareBegin, tables, Prepare
    <2>3. /\ OnePlanner' /\ ClaimsHold' /\ RowsAreComplete' /\ AuthorizedRunsExist'
          /\ OneActiveRun' /\ WorkersHandleRuns' /\ ExecutedOnce' /\ IntentInMemoryOnce'
          /\ RecoveryInv' /\ CompletedInMemory'
      BY <1>1 DEF IInv, PrepareBegin, tables, workers, OnePlanner, ActiveRuns, ClaimsHold,
         RowsAreComplete, Complete, AuthorizedRunsExist, OneActiveRun, WorkersHandleRuns,
         ExecutedOnce, IntentInMemoryOnce, RecoveryInv, CompletedInMemory
    <2>4. QED
      BY <2>1, <2>2, <2>3 DEF IInv
  <1>2. ASSUME NEW p \in Process, NEW d \in Draft,
               PrepareCommit(p, d)
        PROVE  IInv'
    <2>1. TypeOK'
      BY <1>2 DEF IInv, TypeOK, PrepareCommit, workers, DraftRow, Prepare
    <2>2. ClaimsHold'
      BY <1>2 DEF IInv, TypeOK, ClaimsHold, PrepareCommit, IsFresh, DraftRow, Prepare
    <2>3. RowsAreComplete'
      BY <1>2 DEF IInv, TypeOK, RowsAreComplete, Complete, PrepareCommit, IsFresh, DraftRow,
         Prepare
    <2>4. MemoryInv'
      BY <1>2 DEF IInv, TypeOK, MemoryInv, PrepareCommit, DraftRow, Prepare
    <2>5. /\ OnePlanner' /\ AuthorizedRunsExist' /\ OneActiveRun' /\ WorkersHandleRuns'
          /\ ExecutedOnce' /\ IntentInMemoryOnce' /\ RecoveryInv' /\ CompletedInMemory'
      BY <1>2 DEF IInv, PrepareCommit, workers, OnePlanner, ActiveRuns, AuthorizedRunsExist,
         OneActiveRun, WorkersHandleRuns, ExecutedOnce, IntentInMemoryOnce, RecoveryInv,
         CompletedInMemory
    <2>6. QED
      BY <2>1, <2>2, <2>3, <2>4, <2>5 DEF IInv
  <1>3. ASSUME NEW p \in Process,
               PrepareAbort(p)
        PROVE  IInv'
    <2>1. TypeOK'
      BY <1>3 DEF IInv, TypeOK, PrepareAbort, tables, workers, Prepare
    <2>2. MemoryInv'
      BY <1>3 DEF IInv, TypeOK, MemoryInv, PrepareAbort, tables, Prepare
    <2>3. /\ OnePlanner' /\ ClaimsHold' /\ RowsAreComplete' /\ AuthorizedRunsExist'
          /\ OneActiveRun' /\ WorkersHandleRuns' /\ ExecutedOnce' /\ IntentInMemoryOnce'
          /\ RecoveryInv' /\ CompletedInMemory'
      BY <1>3 DEF IInv, PrepareAbort, tables, workers, OnePlanner, ActiveRuns, ClaimsHold,
         RowsAreComplete, Complete, AuthorizedRunsExist, OneActiveRun, WorkersHandleRuns,
         ExecutedOnce, IntentInMemoryOnce, RecoveryInv, CompletedInMemory
    <2>4. QED
      BY <2>1, <2>2, <2>3 DEF IInv
  <1>4. ASSUME NEW d \in Draft,
               RenewLease(d)
        PROVE  IInv'
    <2>1. TypeOK'
      <3>1. /\ drafts' = [drafts EXCEPT ![d] = [drafts[d] EXCEPT !.expires = now + Expiry]]
            /\ now + Expiry \in Nat
        BY <1>4 DEF IInv, TypeOK, RenewLease, Expiry
      <3>2. [drafts[d] EXCEPT !.expires = now + Expiry] \in DraftRow
        <4>1. drafts[d] \in DraftRow
          BY DEF IInv, TypeOK
        <4>2. QED
          BY <3>1, <4>1 DEF DraftRow
      <3>3. drafts' \in [Draft -> DraftRow]
        BY <3>1, <3>2 DEF IInv, TypeOK
      <3>4. QED
        BY <1>4, <3>3 DEF IInv, TypeOK, RenewLease, transactions, workers
    <2>2. ClaimsHold'
      BY <1>4 DEF IInv, TypeOK, ClaimsHold, RenewLease, transactions, LockedDrafts, DraftRow
    <2>3. RowsAreComplete'
      BY <1>4 DEF IInv, TypeOK, RowsAreComplete, Complete, RenewLease, DraftRow
    <2>4. MemoryInv'
      BY <1>4 DEF IInv, TypeOK, MemoryInv, RenewLease, transactions, DraftRow
    <2>5. /\ OnePlanner' /\ AuthorizedRunsExist' /\ OneActiveRun' /\ WorkersHandleRuns'
          /\ ExecutedOnce' /\ IntentInMemoryOnce' /\ RecoveryInv' /\ CompletedInMemory'
      BY <1>4 DEF IInv, RenewLease, transactions, workers, OnePlanner, ActiveRuns,
         AuthorizedRunsExist, OneActiveRun, WorkersHandleRuns, ExecutedOnce,
         IntentInMemoryOnce, RecoveryInv, CompletedInMemory
    <2>6. QED
      BY <2>1, <2>2, <2>3, <2>4, <2>5 DEF IInv
  <1>5. ASSUME NEW p \in Process, NEW k \in Key, NEW d \in Draft,
               ConfirmBegin(p, k, d)
        PROVE  IInv'
    <2>1. TypeOK'
      BY <1>5 DEF IInv, TypeOK, ConfirmBegin, tables, workers, Transaction, DraftRow
    <2>2. OnePlanner'
      BY <1>5 DEF IInv, TypeOK, OnePlanner, ActiveRuns, ConfirmBegin, tables, Transaction
    <2>3. ClaimsHold'
      BY <1>5 DEF IInv, TypeOK, ClaimsHold, ConfirmBegin, tables, Transaction
    <2>4. /\ RowsAreComplete' /\ AuthorizedRunsExist' /\ OneActiveRun' /\ WorkersHandleRuns'
          /\ ExecutedOnce' /\ MemoryInv' /\ IntentInMemoryOnce' /\ RecoveryInv'
          /\ CompletedInMemory'
      BY <1>5 DEF IInv, ConfirmBegin, tables, workers, RowsAreComplete, Complete,
         AuthorizedRunsExist, OneActiveRun, ActiveRuns, WorkersHandleRuns, ExecutedOnce,
         MemoryInv, IntentInMemoryOnce, RecoveryInv, CompletedInMemory
    <2>5. QED
      BY <2>1, <2>2, <2>3, <2>4 DEF IInv
  <1>6. ASSUME NEW t \in planning, NEW r \in Run,
               ConfirmCommit(t, r)
        PROVE  IInv'
    <2>1. AddsRun(r) /\ Confirms(t, r)
      BY <1>6, ConfirmAddsRun
    <2>2. /\ drafts' \in [Draft -> DraftRow]
          /\ drafts'[t.draft].run = r /\ drafts'[t.draft].expires = drafts[t.draft].expires
          /\ \A d \in Draft : /\ drafts'[d].base = drafts[d].base
                              /\ drafts[d] # NoDraft => drafts'[d] # NoDraft
          /\ \A d \in Draft \ {t.draft} : drafts'[d] = drafts[d]
      BY <1>6, <2>1 DEF IInv, TypeOK, ConfirmCommit, DraftRow, Confirms
    <2>3. UNCHANGED <<now, auths, views, pointer, closure, preparing, workers, recovering, stops>>
      BY <1>6 DEF ConfirmCommit
    <2>4. TypeOK'
      BY <2>1, <2>2, <2>3 DEF IInv, TypeOK, workers, AddsRun
    <2>5. OnePlanner' /\ ClaimsHold'
      BY <2>1 DEF OnePlanner, ClaimsHold, AddsRun
    <2>6. RowsAreComplete'
      <3>1. Complete(r)'
        BY <2>1, <2>2 DEF Complete, AddsRun, Confirms
      <3>2. ASSUME NEW q \in Run \ {r}, runs[q] # NoRun PROVE Complete(q)'
        <4>1. Complete(q) /\ runs'[q] = runs[q]
          BY <2>1, <3>2 DEF IInv, RowsAreComplete, AddsRun
        <4>2. runs[q].intent \in Draft /\ runs[q].intent # t.draft
          BY <2>1, <4>1 DEF IInv, TypeOK, RunRow, Complete, Confirms
        <4>3. QED
          BY <2>2, <2>3, <4>1, <4>2 DEF Complete
      <3>3. QED
        BY <2>1, <3>1, <3>2 DEF IInv, RowsAreComplete, AddsRun
    <2>7. AuthorizedRunsExist' /\ WorkersHandleRuns'
      <3>1. \A q \in Run : runs[q] # NoRun => runs'[q] # NoRun
        BY <2>1 DEF AddsRun
      <3>2. UNCHANGED <<auths, worker, due, executing>>
        BY <2>3 DEF workers
      <3>3. AuthorizedRunsExist'
        BY <3>1, <3>2 DEF IInv, TypeOK, AuthorizedRunsExist, AuthRow
      <3>4. WorkersHandleRuns'
        BY <3>1, <3>2 DEF IInv, TypeOK, WorkersHandleRuns
      <3>5. QED
        BY <3>3, <3>4
    <2>8. OneActiveRun'
      BY <2>1 DEF OneActiveRun, ActiveRuns, AddsRun
    <2>9. ExecutedOnce'
      BY <2>1, <2>3 DEF IInv, TypeOK, ExecutedOnce, workers, AddsRun
    <2>10. MemoryInv'
      <3>1. \A q \in views : q \in Run /\ runs[q].status = "RELEASED" /\ runs[q].base # pointer
        BY DEF IInv, TypeOK, MemoryInv
      <3>2. runs[r].status = "ABSENT"
        BY <2>1, EmptyRows DEF AddsRun
      <3>3. \A q \in views : runs'[q] = runs[q]
        BY <2>1, <3>1, <3>2 DEF AddsRun
      <3>4. \A d \in Draft : drafts'[d].base = drafts[d].base
        BY <2>2
      <3>5. UNCHANGED <<views, pointer, preparing>>
        BY <2>3
      <3> HIDE DEF Active, RunStatus
      <3>6. QED
        BY <3>1, <3>3, <3>4, <3>5 DEF IInv, MemoryInv
    <2>11. IntentInMemoryOnce'
      BY <2>1, <2>3 DEF IInv, TypeOK, MemoryInv, IntentInMemoryOnce, AddsRun
    <2>12. RecoveryInv' /\ CompletedInMemory'
      BY <2>3 DEF IInv, RecoveryInv, CompletedInMemory
    <2>13. QED
      BY <2>4, <2>5, <2>6, <2>7, <2>8, <2>9, <2>10, <2>11, <2>12 DEF IInv
  <1>7. ASSUME NEW t \in planning,
               PlanAbort(t)
        PROVE  IInv'
    <2>1. TypeOK'
      BY <1>7 DEF IInv, TypeOK, PlanAbort, tables, workers, Transaction
    <2>2. OnePlanner'
      BY <1>7 DEF IInv, TypeOK, OnePlanner, ActiveRuns, PlanAbort, tables, Transaction
    <2>3. ClaimsHold'
      BY <1>7 DEF IInv, TypeOK, ClaimsHold, PlanAbort, tables, Transaction
    <2>4. /\ RowsAreComplete' /\ AuthorizedRunsExist' /\ OneActiveRun' /\ WorkersHandleRuns'
          /\ ExecutedOnce' /\ MemoryInv' /\ IntentInMemoryOnce' /\ RecoveryInv'
          /\ CompletedInMemory'
      BY <1>7 DEF IInv, PlanAbort, tables, workers, RowsAreComplete, Complete,
         AuthorizedRunsExist, OneActiveRun, ActiveRuns, WorkersHandleRuns, ExecutedOnce,
         MemoryInv, IntentInMemoryOnce, RecoveryInv, CompletedInMemory
    <2>5. QED
      BY <2>1, <2>2, <2>3, <2>4 DEF IInv
  <1>8. ASSUME NEW p \in Process, NEW r \in Run,
               Poll(p, r)
        PROVE  IInv'
    <2>1. TypeOK'
      BY <1>8 DEF IInv, TypeOK, Poll, tables, transactions
    <2>2. WorkersHandleRuns'
      BY <1>8 DEF IInv, TypeOK, WorkersHandleRuns, Poll, tables
    <2>3. /\ OnePlanner' /\ ClaimsHold' /\ RowsAreComplete' /\ AuthorizedRunsExist'
          /\ OneActiveRun' /\ ExecutedOnce' /\ MemoryInv' /\ IntentInMemoryOnce'
          /\ RecoveryInv' /\ CompletedInMemory'
      BY <1>8 DEF IInv, Poll, tables, transactions, OnePlanner, ActiveRuns, ClaimsHold,
         RowsAreComplete, Complete, AuthorizedRunsExist, OneActiveRun, ExecutedOnce, MemoryInv,
         IntentInMemoryOnce, RecoveryInv, CompletedInMemory
    <2>4. QED
      BY <2>1, <2>2, <2>3 DEF IInv
  <1>9. ASSUME NEW p \in Process,
               StartBegin(p)
        PROVE  IInv'
    <2>1. TypeOK'
      BY <1>9 DEF IInv, TypeOK, StartBegin, tables, transactions
    <2>2. WorkersHandleRuns'
      BY <1>9 DEF IInv, TypeOK, WorkersHandleRuns, StartBegin, tables
    <2>3. /\ OnePlanner' /\ ClaimsHold' /\ RowsAreComplete' /\ AuthorizedRunsExist'
          /\ OneActiveRun' /\ ExecutedOnce' /\ MemoryInv' /\ IntentInMemoryOnce'
          /\ RecoveryInv' /\ CompletedInMemory'
      BY <1>9 DEF IInv, StartBegin, tables, transactions, OnePlanner, ActiveRuns, ClaimsHold,
         RowsAreComplete, Complete, AuthorizedRunsExist, OneActiveRun, ExecutedOnce, MemoryInv,
         IntentInMemoryOnce, RecoveryInv, CompletedInMemory
    <2>4. QED
      BY <2>1, <2>2, <2>3 DEF IInv
  <1>10. ASSUME NEW p \in Process,
                StartCommit(p)
         PROVE  IInv'
    <2>1. /\ due[p] \in Run /\ MovesRun(due[p], "PLANNING", "RUNNING") /\ runs'[due[p]].starts = 1
          /\ \A o \in Process : due[p] \notin executing[o]
      BY <1>10, StartMovesRun
    <2>2. /\ UNCHANGED <<now, drafts, auths, views, pointer, closure, transactions, recovering, stops>>
          /\ worker' = [worker EXCEPT ![p] = "waiting"] /\ due' = [due EXCEPT ![p] = 0]
          /\ executing' = [executing EXCEPT ![p] = @ \cup {due[p]}]
      BY <1>10 DEF StartCommit
    <2>3. TypeOK'
      BY <2>1, <2>2 DEF IInv, TypeOK, transactions, workers, MovesRun
    <2>4. OnePlanner' /\ OneActiveRun'
      BY <2>1, <2>2 DEF IInv, OnePlanner, OneActiveRun, ActiveRuns, transactions, MovesRun
    <2>5. ClaimsHold' /\ RowsAreComplete' /\ AuthorizedRunsExist'
      BY <2>1, <2>2, MoveKeepsRows DEF IInv, RowsAreComplete, transactions, MovesRun
    <2>6. WorkersHandleRuns'
      BY <2>1, <2>2 DEF IInv, TypeOK, WorkersHandleRuns, workers, MovesRun, SameRun
    <2>7. ExecutedOnce'
      BY <2>1, <2>2 DEF IInv, TypeOK, ExecutedOnce, workers, MovesRun
    <2>8. MemoryInv' /\ IntentInMemoryOnce'
      <3>1. /\ \A q \in Run : SameRun(q)
            /\ \A q \in views : runs'[q].status = "RELEASED"
        BY <2>1 DEF IInv, TypeOK, MemoryInv, MovesRun
      <3>2. QED
        BY <2>2, <3>1 DEF IInv, TypeOK, MemoryInv, IntentInMemoryOnce, transactions, SameRun
    <2>9. RecoveryInv' /\ CompletedInMemory'
      BY <1>10, <2>2 DEF IInv, RecoveryInv, CompletedInMemory, StartCommit
    <2>10. QED
      BY <2>3, <2>4, <2>5, <2>6, <2>7, <2>8, <2>9 DEF IInv
  <1>11. ASSUME NEW p \in Process,
                StartConflict(p)
         PROVE  IInv'
    <2>1. TypeOK'
      BY <1>11 DEF IInv, TypeOK, StartConflict, tables, transactions
    <2>2. WorkersHandleRuns'
      BY <1>11 DEF IInv, TypeOK, WorkersHandleRuns, StartConflict, tables
    <2>3. /\ OnePlanner' /\ ClaimsHold' /\ RowsAreComplete' /\ AuthorizedRunsExist'
          /\ OneActiveRun' /\ ExecutedOnce' /\ MemoryInv' /\ IntentInMemoryOnce'
          /\ RecoveryInv' /\ CompletedInMemory'
      BY <1>11 DEF IInv, StartConflict, tables, transactions, OnePlanner, ActiveRuns,
         ClaimsHold, RowsAreComplete, Complete, AuthorizedRunsExist, OneActiveRun,
         ExecutedOnce, MemoryInv, IntentInMemoryOnce, RecoveryInv, CompletedInMemory
    <2>4. QED
      BY <2>1, <2>2, <2>3 DEF IInv
  <1>12. ASSUME NEW p \in Process,
                WorkerFault(p)
         PROVE  IInv'
    <2>1. TypeOK'
      BY <1>12 DEF IInv, TypeOK, WorkerFault, tables, transactions
    <2>2. WorkersHandleRuns'
      BY <1>12 DEF IInv, TypeOK, WorkersHandleRuns, WorkerFault, tables
    <2>3. /\ OnePlanner' /\ ClaimsHold' /\ RowsAreComplete' /\ AuthorizedRunsExist'
          /\ OneActiveRun' /\ ExecutedOnce' /\ MemoryInv' /\ IntentInMemoryOnce'
          /\ RecoveryInv' /\ CompletedInMemory'
      BY <1>12 DEF IInv, WorkerFault, tables, transactions, OnePlanner, ActiveRuns, ClaimsHold,
         RowsAreComplete, Complete, AuthorizedRunsExist, OneActiveRun, ExecutedOnce, MemoryInv,
         IntentInMemoryOnce, RecoveryInv, CompletedInMemory
    <2>4. QED
      BY <2>1, <2>2, <2>3 DEF IInv
  <1>13. ASSUME NEW p \in Process, NEW r \in Run, NEW gated \in BOOLEAN,
                NEW status \in {"RELEASED", "FAILED", "CANCELLED"},
                ExecutionEnds(p, r, status, gated)
         PROVE  IInv'
    <2>1. /\ MovesRun(r, "RUNNING", status)
          /\ \A o \in Process \ {p} : r \notin executing[o]
      BY <1>13, EndMovesRun
    <2>2. /\ UNCHANGED <<now, drafts, auths, views, pointer, closure, transactions, worker, due,
                         recovering, stops>>
          /\ executing' = [executing EXCEPT ![p] = @ \ {r}]
      BY <1>13 DEF ExecutionEnds
    <2>3. TypeOK'
      BY <2>1, <2>2 DEF IInv, TypeOK, transactions, workers, MovesRun
    <2>4. OnePlanner' /\ OneActiveRun'
      BY <2>1, <2>2 DEF IInv, OnePlanner, OneActiveRun, ActiveRuns, transactions, MovesRun
    <2>5. ClaimsHold' /\ RowsAreComplete' /\ AuthorizedRunsExist'
      BY <2>1, <2>2, MoveKeepsRows DEF IInv, RowsAreComplete, transactions, MovesRun
    <2>6. WorkersHandleRuns'
      BY <2>1, <2>2 DEF IInv, TypeOK, WorkersHandleRuns, workers, MovesRun, SameRun
    <2>7. ExecutedOnce'
      BY <2>1, <2>2 DEF IInv, TypeOK, ExecutedOnce, workers, MovesRun
    <2>8. MemoryInv' /\ IntentInMemoryOnce'
      <3>1. /\ \A q \in Run : SameRun(q)
            /\ \A q \in views : runs'[q].status = "RELEASED"
        BY <2>1 DEF IInv, TypeOK, MemoryInv, MovesRun
      <3>2. QED
        BY <2>2, <3>1 DEF IInv, TypeOK, MemoryInv, IntentInMemoryOnce, transactions, SameRun
    <2>9. RecoveryInv' /\ CompletedInMemory'
      BY <1>13, <2>2 DEF IInv, RecoveryInv, CompletedInMemory, ExecutionEnds
    <2>10. QED
      BY <2>3, <2>4, <2>5, <2>6, <2>7, <2>8, <2>9 DEF IInv
  <1>14. ASSUME NEW p \in Process,
                Stop(p)
         PROVE  IInv'
    <2>1. TypeOK'
      BY <1>14 DEF IInv, TypeOK, Stop, tables, Prepare, Transaction
    <2>2. OnePlanner'
      BY <1>14 DEF IInv, TypeOK, OnePlanner, ActiveRuns, Stop, tables, Prepare, Transaction
    <2>3. ClaimsHold'
      BY <1>14 DEF IInv, TypeOK, ClaimsHold, Stop, tables, Prepare, Transaction
    <2>4. WorkersHandleRuns'
      BY <1>14 DEF IInv, TypeOK, WorkersHandleRuns, Stop, tables
    <2>5. ExecutedOnce'
      BY <1>14 DEF IInv, TypeOK, ExecutedOnce, Stop, tables
    <2>6. MemoryInv'
      BY <1>14 DEF IInv, TypeOK, MemoryInv, Stop, tables, Prepare
    <2>7. /\ RowsAreComplete' /\ AuthorizedRunsExist' /\ OneActiveRun' /\ IntentInMemoryOnce'
          /\ RecoveryInv' /\ CompletedInMemory'
      BY <1>14 DEF IInv, Stop, tables, RowsAreComplete, Complete, AuthorizedRunsExist,
         OneActiveRun, ActiveRuns, IntentInMemoryOnce, RecoveryInv, CompletedInMemory
    <2>8. QED
      BY <2>1, <2>2, <2>3, <2>4, <2>5, <2>6, <2>7 DEF IInv
  <1>15. ASSUME NEW p \in Process,
                StartProcess(p)
         PROVE  IInv'
    <2>1. TypeOK'
      BY <1>15 DEF IInv, TypeOK, StartProcess, tables, transactions
    <2>2. WorkersHandleRuns'
      BY <1>15 DEF IInv, TypeOK, WorkersHandleRuns, StartProcess, tables
    <2>3. /\ OnePlanner' /\ ClaimsHold' /\ RowsAreComplete' /\ AuthorizedRunsExist'
          /\ OneActiveRun' /\ ExecutedOnce' /\ MemoryInv' /\ IntentInMemoryOnce'
          /\ RecoveryInv' /\ CompletedInMemory'
      BY <1>15 DEF IInv, StartProcess, tables, transactions, OnePlanner, ActiveRuns,
         ClaimsHold, RowsAreComplete, Complete, AuthorizedRunsExist, OneActiveRun,
         ExecutedOnce, MemoryInv, IntentInMemoryOnce, RecoveryInv, CompletedInMemory
    <2>4. QED
      BY <2>1, <2>2, <2>3 DEF IInv
  <1>16. ASSUME NEW r \in Run,
                MaterializeMemory(r)
         PROVE  IInv'
    <2>1. TypeOK'
      BY <1>16 DEF IInv, TypeOK, MaterializeMemory, transactions, workers
    <2>2. MemoryInv'
      BY <1>16 DEF IInv, TypeOK, MemoryInv, MaterializeMemory, tables, transactions, workers, Advances, RowsAreComplete, Complete, RunRow, DraftRow
    <2>3. IntentInMemoryOnce'
      BY <1>16 DEF IInv, TypeOK, IntentInMemoryOnce, MaterializeMemory, tables, transactions,
         workers, Advances, RowsAreComplete, Complete, RunRow, DraftRow, MemoryInv
    <2>4. RecoveryInv'
      BY <1>16 DEF IInv, TypeOK, RecoveryInv, MaterializeMemory, tables, transactions, workers, Advances, RunRow, DraftRow
    <2>5. CompletedInMemory'
      BY <1>16 DEF IInv, TypeOK, CompletedInMemory, MaterializeMemory
    <2>6. /\ OnePlanner' /\ ClaimsHold' /\ RowsAreComplete' /\ AuthorizedRunsExist'
          /\ OneActiveRun' /\ WorkersHandleRuns' /\ ExecutedOnce'
      BY <1>16 DEF IInv, MaterializeMemory, transactions, workers, OnePlanner, ActiveRuns,
         ClaimsHold, RowsAreComplete, Complete, AuthorizedRunsExist, OneActiveRun,
         WorkersHandleRuns, ExecutedOnce
    <2>7. QED
      BY <2>1, <2>2, <2>3, <2>4, <2>5, <2>6 DEF IInv
  <1>17. ASSUME NEW p \in Process, NEW r \in Run, NEW a \in Auth,
                Authorize(p, r, a)
         PROVE  IInv'
    <2>1. TypeOK'
      BY <1>17 DEF IInv, TypeOK, Authorize, transactions, workers, AuthRow, Expiry
    <2>2. ClaimsHold'
      BY <1>17 DEF IInv, TypeOK, ClaimsHold, Authorize, transactions, AuthRow
    <2>3. RowsAreComplete'
      BY <1>17 DEF IInv, TypeOK, RowsAreComplete, Complete, Authorize, tables, transactions,
         workers, Authority, IsFresh, DraftRow, RunRow, AuthRow, Prepare, Transaction
    <2>4. AuthorizedRunsExist'
      BY <1>17 DEF IInv, TypeOK, AuthorizedRunsExist, Authorize, tables, transactions, workers, Authority, IsFresh, DraftRow, RunRow, AuthRow, Prepare, Transaction
    <2>5. /\ OnePlanner' /\ OneActiveRun' /\ WorkersHandleRuns' /\ ExecutedOnce' /\ MemoryInv'
          /\ IntentInMemoryOnce' /\ RecoveryInv' /\ CompletedInMemory'
      BY <1>17 DEF IInv, Authorize, transactions, workers, OnePlanner, ActiveRuns,
         OneActiveRun, WorkersHandleRuns, ExecutedOnce, MemoryInv, IntentInMemoryOnce,
         RecoveryInv, CompletedInMemory
    <2>6. QED
      BY <2>1, <2>2, <2>3, <2>4, <2>5 DEF IInv
  <1>18. ASSUME NEW p \in Process, NEW a \in Auth,
                ReexecuteBegin(p, a)
         PROVE  IInv'
    <2>1. TypeOK'
      BY <1>18 DEF IInv, TypeOK, ReexecuteBegin, tables, workers, Transaction
    <2>2. OnePlanner'
      BY <1>18 DEF IInv, TypeOK, OnePlanner, ActiveRuns, ReexecuteBegin, tables, Transaction
    <2>3. ClaimsHold'
      <3>1. /\ auths[a] # NoAuth /\ auths[a].prior # 0 /\ auths[a].run = 0
            /\ planning = {} /\ UNCHANGED <<drafts, runs, auths>>
        BY <1>18 DEF IInv, AuthorizedRunsExist, ReexecuteBegin, tables
      <3>2. \A q \in Run : runs[q].auth # a
        BY <3>1 DEF IInv, RowsAreComplete, Complete
      <3>3. planning' = {[process |-> p, key |-> 0, draft |-> 0, auth |-> a, checked |-> 0]}
        BY <1>18, <3>1 DEF ReexecuteBegin
      <3>4. QED
        BY <3>1, <3>2, <3>3 DEF ClaimsHold
    <2>4. /\ RowsAreComplete' /\ AuthorizedRunsExist' /\ OneActiveRun' /\ WorkersHandleRuns'
          /\ ExecutedOnce' /\ MemoryInv' /\ IntentInMemoryOnce' /\ RecoveryInv'
          /\ CompletedInMemory'
      BY <1>18 DEF IInv, ReexecuteBegin, tables, workers, RowsAreComplete, Complete,
         AuthorizedRunsExist, OneActiveRun, ActiveRuns, WorkersHandleRuns, ExecutedOnce,
         MemoryInv, IntentInMemoryOnce, RecoveryInv, CompletedInMemory
    <2>5. QED
      BY <2>1, <2>2, <2>3, <2>4 DEF IInv
  <1>19. ASSUME NEW t \in planning, NEW r \in Run,
                ReexecuteCommit(t, r)
         PROVE  IInv'
    <2>1. AddsRun(r) /\ Reexecutes(t, r)
      BY <1>19, ReexecuteAddsRun
    <2>2. /\ auths' \in [Auth -> AuthRow]
          /\ auths'[t.auth].run = r /\ auths'[t.auth].prior = auths[t.auth].prior
          /\ \A a \in Auth \ {t.auth} : auths'[a] = auths[a]
      BY <1>19, <2>1 DEF IInv, TypeOK, ReexecuteCommit, AuthRow, Reexecutes
    <2>3. UNCHANGED <<now, drafts, views, pointer, closure, preparing, workers, recovering, stops>>
      BY <1>19 DEF ReexecuteCommit
    <2>4. TypeOK'
      BY <2>1, <2>2, <2>3 DEF IInv, TypeOK, workers, AddsRun
    <2>5. OnePlanner' /\ ClaimsHold'
      BY <2>1 DEF OnePlanner, ClaimsHold, AddsRun
    <2>6. RowsAreComplete'
      <3>1. Complete(r)'
        BY <2>1, <2>2, <2>3 DEF IInv, RowsAreComplete, Complete, AddsRun, Reexecutes
      <3>2. ASSUME NEW q \in Run \ {r}, runs[q] # NoRun PROVE Complete(q)'
        <4>1. Complete(q) /\ runs'[q] = runs[q] /\ runs[q].auth \in Auth \cup {0}
          BY <2>1, <3>2 DEF IInv, RowsAreComplete, TypeOK, RunRow, AddsRun
        <4>2. QED
          BY <2>1, <2>2, <2>3, <4>1 DEF Complete, Reexecutes
      <3>3. QED
        BY <2>1, <3>1, <3>2 DEF IInv, RowsAreComplete, AddsRun
    <2>7. AuthorizedRunsExist'
      <3>1. \A q \in Run : runs[q] # NoRun => runs'[q] # NoRun
        BY <2>1 DEF AddsRun
      <3>2. \A a \in Auth : auths'[a] = NoAuth \/ (auths'[a].prior # 0 /\ runs[auths'[a].prior] # NoRun)
        BY <2>1, <2>2 DEF IInv, AuthorizedRunsExist, Reexecutes
      <3>3. \A a \in Auth : auths'[a].prior \in Run \cup {0}
        BY <2>2 DEF AuthRow
      <3>4. QED
        BY <3>1, <3>2, <3>3 DEF AuthorizedRunsExist
    <2>8. WorkersHandleRuns'
      BY <2>1, <2>3 DEF IInv, TypeOK, WorkersHandleRuns, workers, AddsRun
    <2>9. OneActiveRun'
      BY <2>1 DEF OneActiveRun, ActiveRuns, AddsRun
    <2>10. ExecutedOnce'
      BY <2>1, <2>3 DEF IInv, TypeOK, ExecutedOnce, workers, AddsRun
    <2>11. MemoryInv'
      BY <2>1, <2>3 DEF IInv, TypeOK, MemoryInv, AddsRun
    <2>12. IntentInMemoryOnce'
      BY <2>1, <2>3 DEF IInv, TypeOK, MemoryInv, IntentInMemoryOnce, AddsRun
    <2>13. RecoveryInv' /\ CompletedInMemory'
      BY <2>3 DEF IInv, RecoveryInv, CompletedInMemory
    <2>14. QED
      BY <2>4, <2>5, <2>6, <2>7, <2>8, <2>9, <2>10, <2>11, <2>12, <2>13 DEF IInv
  <1>20. ASSUME NEW r \in Run,
                RecoverStart(r)
         PROVE  IInv'
    <2>1. TypeOK'
      BY <1>20 DEF IInv, TypeOK, RecoverStart, transactions, workers
    <2>2. RecoveryInv'
      BY <1>20 DEF IInv, TypeOK, RecoveryInv, RecoverStart
    <2>3. CompletedInMemory'
      BY <1>20 DEF IInv, TypeOK, CompletedInMemory, RecoverStart
    <2>4. /\ OnePlanner' /\ ClaimsHold' /\ RowsAreComplete' /\ AuthorizedRunsExist'
          /\ OneActiveRun' /\ WorkersHandleRuns' /\ ExecutedOnce' /\ MemoryInv'
          /\ IntentInMemoryOnce'
      BY <1>20 DEF IInv, RecoverStart, transactions, workers, OnePlanner, ActiveRuns,
         ClaimsHold, RowsAreComplete, Complete, AuthorizedRunsExist, OneActiveRun,
         WorkersHandleRuns, ExecutedOnce, MemoryInv, IntentInMemoryOnce
    <2>5. QED
      BY <2>1, <2>2, <2>3, <2>4 DEF IInv
  <1>21. ASSUME NEW r \in Run,
                RecoverRelease(r)
         PROVE  IInv'
    <2>1. MovesRun(r, "FAILED", "RELEASED")
      BY <1>21, RecoveryMovesRun
    <2>2. /\ UNCHANGED <<now, drafts, auths, views, pointer, transactions, workers, stops>>
          /\ closure' = [closure EXCEPT ![r] = @ \cup {"RELEASED"}]
          /\ recovering' = [recovering EXCEPT ![r] = "released"]
      BY <1>21 DEF RecoverRelease
    <2>3. TypeOK'
      BY <2>1, <2>2 DEF IInv, TypeOK, transactions, workers, MovesRun
    <2>4. OnePlanner' /\ OneActiveRun'
      BY <2>1, <2>2 DEF IInv, OnePlanner, OneActiveRun, ActiveRuns, transactions, MovesRun
    <2>5. ClaimsHold' /\ RowsAreComplete' /\ AuthorizedRunsExist'
      BY <2>1, <2>2, MoveKeepsRows DEF IInv, RowsAreComplete, transactions, MovesRun
    <2>6. WorkersHandleRuns'
      BY <2>1, <2>2 DEF IInv, TypeOK, WorkersHandleRuns, workers, MovesRun, SameRun
    <2>7. ExecutedOnce'
      BY <2>1, <2>2 DEF IInv, TypeOK, ExecutedOnce, workers, MovesRun
    <2>8. MemoryInv' /\ IntentInMemoryOnce'
      <3>1. /\ \A q \in Run : SameRun(q)
            /\ \A q \in views : runs'[q].status = "RELEASED"
        BY <2>1 DEF IInv, TypeOK, MemoryInv, MovesRun
      <3>2. QED
        BY <2>2, <3>1 DEF IInv, TypeOK, MemoryInv, IntentInMemoryOnce, transactions, SameRun
    <2>9. RecoveryInv' /\ CompletedInMemory'
      BY <1>21, <2>2 DEF IInv, RecoveryInv, CompletedInMemory, RecoverRelease
    <2>10. QED
      BY <2>3, <2>4, <2>5, <2>6, <2>7, <2>8, <2>9 DEF IInv
  <1>22. ASSUME NEW r \in Run,
                RecoverMemory(r)
         PROVE  IInv'
    <2>1. TypeOK'
      BY <1>22 DEF IInv, TypeOK, RecoverMemory, transactions, workers
    <2>2. MemoryInv'
      BY <1>22 DEF IInv, TypeOK, MemoryInv, RecoverMemory, tables, transactions, workers, Advances, RowsAreComplete, Complete, RunRow, DraftRow
    <2>3. IntentInMemoryOnce'
      BY <1>22 DEF IInv, TypeOK, IntentInMemoryOnce, RecoverMemory, tables, transactions,
         workers, Advances, RowsAreComplete, Complete, RunRow, DraftRow, MemoryInv
    <2>4. RecoveryInv'
      BY <1>22 DEF IInv, TypeOK, RecoveryInv, RecoverMemory, tables, transactions, workers, Advances, RunRow, DraftRow
    <2>5. CompletedInMemory'
      BY <1>22 DEF IInv, TypeOK, CompletedInMemory, RecoverMemory
    <2>6. /\ OnePlanner' /\ ClaimsHold' /\ RowsAreComplete' /\ AuthorizedRunsExist'
          /\ OneActiveRun' /\ WorkersHandleRuns' /\ ExecutedOnce'
      BY <1>22 DEF IInv, RecoverMemory, transactions, workers, OnePlanner, ActiveRuns,
         ClaimsHold, RowsAreComplete, Complete, AuthorizedRunsExist, OneActiveRun,
         WorkersHandleRuns, ExecutedOnce
    <2>7. QED
      BY <2>1, <2>2, <2>3, <2>4, <2>5, <2>6 DEF IInv
  <1>23. ASSUME NEW r \in Run,
                RecoverComplete(r)
         PROVE  IInv'
    <2>1. TypeOK'
      BY <1>23 DEF IInv, TypeOK, RecoverComplete, transactions, workers
    <2>2. RecoveryInv'
      BY <1>23 DEF IInv, TypeOK, RecoveryInv, RecoverComplete
    <2>3. CompletedInMemory'
      BY <1>23 DEF IInv, TypeOK, CompletedInMemory, RecoverComplete, RecoveryInv
    <2>4. /\ OnePlanner' /\ ClaimsHold' /\ RowsAreComplete' /\ AuthorizedRunsExist'
          /\ OneActiveRun' /\ WorkersHandleRuns' /\ ExecutedOnce' /\ MemoryInv'
          /\ IntentInMemoryOnce'
      BY <1>23 DEF IInv, RecoverComplete, transactions, workers, OnePlanner, ActiveRuns,
         ClaimsHold, RowsAreComplete, Complete, AuthorizedRunsExist, OneActiveRun,
         WorkersHandleRuns, ExecutedOnce, MemoryInv, IntentInMemoryOnce
    <2>5. QED
      BY <2>1, <2>2, <2>3, <2>4 DEF IInv
  <1>24. ASSUME NEW r \in Run,
                RecoverFail(r)
         PROVE  IInv'
    <2>1. TypeOK'
      BY <1>24 DEF IInv, TypeOK, RecoverFail, transactions, workers
    <2>2. RecoveryInv'
      BY <1>24 DEF IInv, TypeOK, RecoveryInv, RecoverFail
    <2>3. CompletedInMemory'
      BY <1>24 DEF IInv, TypeOK, CompletedInMemory, RecoverFail, RecoveryInv
    <2>4. /\ OnePlanner' /\ ClaimsHold' /\ RowsAreComplete' /\ AuthorizedRunsExist'
          /\ OneActiveRun' /\ WorkersHandleRuns' /\ ExecutedOnce' /\ MemoryInv'
          /\ IntentInMemoryOnce'
      BY <1>24 DEF IInv, RecoverFail, transactions, workers, OnePlanner, ActiveRuns,
         ClaimsHold, RowsAreComplete, Complete, AuthorizedRunsExist, OneActiveRun,
         WorkersHandleRuns, ExecutedOnce, MemoryInv, IntentInMemoryOnce
    <2>5. QED
      BY <2>1, <2>2, <2>3, <2>4 DEF IInv
  <1>25. ASSUME NEW r \in Run,
                RecoverCrash(r)
         PROVE  IInv'
    <2>1. TypeOK'
      BY <1>25 DEF IInv, TypeOK, RecoverCrash, tables, transactions, workers
    <2>2. RecoveryInv'
      BY <1>25 DEF IInv, TypeOK, RecoveryInv, RecoverCrash, tables
    <2>3. /\ OnePlanner' /\ ClaimsHold' /\ RowsAreComplete' /\ AuthorizedRunsExist'
          /\ OneActiveRun' /\ WorkersHandleRuns' /\ ExecutedOnce' /\ MemoryInv'
          /\ IntentInMemoryOnce' /\ CompletedInMemory'
      BY <1>25 DEF IInv, RecoverCrash, tables, transactions, workers, OnePlanner, ActiveRuns,
         ClaimsHold, RowsAreComplete, Complete, AuthorizedRunsExist, OneActiveRun,
         WorkersHandleRuns, ExecutedOnce, MemoryInv, IntentInMemoryOnce, CompletedInMemory
    <2>4. QED
      BY <2>1, <2>2, <2>3 DEF IInv
  <1>26. CASE Tick
    <2>1. TypeOK'
      BY <1>26 DEF IInv, TypeOK, Tick, tables, transactions, workers
    <2>2. /\ OnePlanner' /\ ClaimsHold' /\ RowsAreComplete' /\ AuthorizedRunsExist'
          /\ OneActiveRun' /\ WorkersHandleRuns' /\ ExecutedOnce' /\ MemoryInv'
          /\ IntentInMemoryOnce' /\ RecoveryInv' /\ CompletedInMemory'
      BY <1>26 DEF IInv, Tick, tables, transactions, workers, OnePlanner, ActiveRuns,
         ClaimsHold, RowsAreComplete, Complete, AuthorizedRunsExist, OneActiveRun,
         WorkersHandleRuns, ExecutedOnce, MemoryInv, IntentInMemoryOnce, RecoveryInv,
         CompletedInMemory
    <2>3. QED
      BY <2>1, <2>2 DEF IInv
  <1>27. CASE UNCHANGED storeVars
    BY <1>27 DEF IInv, TypeOK, OnePlanner, ClaimsHold, RowsAreComplete, AuthorizedRunsExist,
       OneActiveRun, WorkersHandleRuns, ExecutedOnce, MemoryInv, IntentInMemoryOnce,
       RecoveryInv, CompletedInMemory, Complete, ActiveRuns, storeVars, tables, transactions,
       workers
  <1>28. QED
    BY <1>1, <1>2, <1>3, <1>4, <1>5, <1>6, <1>7, <1>8, <1>9, <1>10, <1>11, <1>12, <1>13, <1>14,
       <1>15, <1>16, <1>17, <1>18, <1>19, <1>20, <1>21, <1>22, <1>23, <1>24, <1>25, <1>26,
       <1>27
       DEF Next, AdmissionStep, WorkerStep, LineageStep, RecoveryStep

-----------------------------------------------------------------------------
(* Theorems                                                                *)

\* The invariant holds in every reachable state.
LEMMA Inductive == Spec => []IInv
  BY InitIInv, StepIInv, PTL DEF Spec

\* Rows, transactions and processes keep their shapes (TypeOK).
THEOREM TypeCorrect == Spec => []TypeOK
  <1>1. IInv => TypeOK
    BY DEF IInv
  <1>2. QED
    BY <1>1, Inductive, PTL

\* confirm_run and admit: runs are active one at a time (OneActiveRun).
THEOREM RunsTakeTurns == Spec => []OneActiveRun
  <1>1. IInv => OneActiveRun
    BY DEF IInv
  <1>2. QED
    BY <1>1, Inductive, PTL

\* The admission workers: one process executes a run, once (ExecutedOnce).
THEOREM RunsAreExecutedOnce == Spec => []ExecutedOnce
  <1>1. IInv => ExecutedOnce
    BY DEF IInv
  <1>2. QED
    BY <1>1, Inductive, PTL

\* renew_draft_lease and confirm_run on one draft: the run was confirmed on the
\* lease the draft still has (ConfirmedOnItsLease).
THEOREM LeasesHold == Spec => []ConfirmedOnItsLease
  <1>1. IInv => ConfirmedOnItsLease
    BY EmptyRows DEF IInv, RowsAreComplete, Complete, ConfirmedOnItsLease
  <1>2. QED
    BY <1>1, Inductive, PTL

\* materialize: of the runs of one confirmed scheme, the memory takes in at most
\* one (IntentInMemoryOnce).
THEOREM IntentsEnterOnce == Spec => []IntentInMemoryOnce
  <1>1. IInv => IntentInMemoryOnce
    BY DEF IInv
  <1>2. QED
    BY <1>1, Inductive, PTL

\* recover_closure: a recovery that says COMPLETED wrote the memory (CompletedInMemory).
THEOREM CompletionIsReal == Spec => []CompletedInMemory
  <1>1. IInv => CompletedInMemory
    BY DEF IInv
  <1>2. QED
    BY <1>1, Inductive, PTL

-----------------------------------------------------------------------------
(* A key prepares one draft                                                *)

\* Drafts that are there and their keys are what they were.
SameKeys == \A d \in Draft :
    /\ drafts'[d] # NoDraft => drafts[d] # NoDraft
    /\ drafts'[d].key = drafts[d].key

\* A step inserts at most one draft, with a key no draft has.
LEMMA StepDrafts ==
    ASSUME IInv, OneDraftPerKey, [Next]_storeVars
    PROVE  OneDraftPerKey'
  <1>1. Draft = DOMAIN drafts /\ \A d, e \in Draft :
            drafts[d] # NoDraft /\ drafts[e] # NoDraft /\ drafts[d].key = drafts[e].key => d = e
    BY DEF IInv, TypeOK, OneDraftPerKey, Exists
  <1>2. ASSUME NEW p \in Process, NEW d \in Draft, PrepareCommit(p, d)
        PROVE  OneDraftPerKey'
    <2>1. /\ drafts'[d].key = preparing[p].key
          /\ \A e \in Draft \ {d} : drafts'[e] = drafts[e] /\ drafts[e].key # preparing[p].key
          /\ DOMAIN drafts' = Draft
      BY <1>1, <1>2 DEF PrepareCommit
    <2>2. QED
      BY <1>1, <2>1 DEF OneDraftPerKey, Exists
  <1>3. ASSUME SameKeys, DOMAIN drafts' = Draft
        PROVE  OneDraftPerKey'
    BY <1>1, <1>3 DEF SameKeys, OneDraftPerKey, Exists
  <1>4. ASSUME NEW d \in Draft, RenewLease(d)
        PROVE  OneDraftPerKey'
    <2>1. SameKeys /\ DOMAIN drafts' = Draft
      BY <1>1, <1>4 DEF IInv, TypeOK, DraftRow, RenewLease, SameKeys
    <2>2. QED
      BY <1>3, <2>1
  <1>5. ASSUME NEW t \in planning, NEW r \in Run, ConfirmCommit(t, r)
        PROVE  OneDraftPerKey'
    <2>1. Confirms(t, r)
      BY <1>5, ConfirmAddsRun
    <2>2. SameKeys /\ DOMAIN drafts' = Draft
      BY <1>1, <1>5, <2>1 DEF IInv, TypeOK, DraftRow, ConfirmCommit, SameKeys, Confirms
    <2>3. QED
      BY <1>3, <2>2
  <1>6. CASE UNCHANGED drafts
    BY <1>1, <1>3, <1>6 DEF SameKeys
  <1>7. QED
    <2>1. CASE AdmissionStep
      BY SMTT(40), <1>2, <1>4, <1>5, <1>6, <2>1 DEF AdmissionStep, PrepareBegin, PrepareAbort,
         ConfirmBegin,
         PlanAbort, tables
    <2>2. CASE WorkerStep
      BY <1>6, <2>2 DEF WorkerStep, Poll, StartBegin, StartCommit, StartConflict, WorkerFault,
         ExecutionEnds, Stop, StartProcess, tables
    <2>3. CASE LineageStep
      BY <1>6, <2>3 DEF LineageStep, MaterializeMemory, Authorize, ReexecuteBegin,
         ReexecuteCommit,
         tables
    <2>4. CASE RecoveryStep
      BY <1>6, <2>4 DEF RecoveryStep, RecoverStart, RecoverRelease, RecoverMemory,
         RecoverComplete,
         RecoverFail, RecoverCrash, tables
    <2>5. CASE Tick \/ UNCHANGED storeVars
      BY <1>6, <2>5 DEF Tick, storeVars, tables
    <2>6. QED
      BY <2>1, <2>2, <2>3, <2>4, <2>5 DEF Next

\* prepare_run, however many processes prepare with one key at a time (OneDraftPerKey).
THEOREM KeysPrepareOnce == Spec => []OneDraftPerKey
  <1>1. Init => OneDraftPerKey
    BY DEF Init, OneDraftPerKey, Exists
  <1>2. IInv /\ OneDraftPerKey /\ [Next]_storeVars => OneDraftPerKey'
    BY StepDrafts
  <1>3. QED
    BY <1>1, <1>2, Inductive, PTL DEF Spec

-----------------------------------------------------------------------------
(* Admission implements ExecutionSlot                                      *)

\* No run is admitted in an empty store.
LEMMA InitSlot == Init => Slot!Init
  BY EmptyRows DEF Init, Slot!Init, Life, Claims

\* A run that changes neither row nor claims leaves the slot alone.
LEMMA MoveKeepsClaims ==
    ASSUME \A q \in Run : SameRun(q)
    PROVE  Claims' = Claims
  BY DEF SameRun, Claims

\* The insertion of a run takes the slot.
LEMMA AdmitToSlot ==
    ASSUME IInv, NEW r \in Run, AddsRun(r), NEW claims \in SUBSET Claim,
           claims # {}, \A q \in Run : claims \cap Claims[q] = {},
           Claims'[r] = claims
    PROVE  Slot!Admit(r, Claims'[r])
  <1>1. Slot!InSlot = {} /\ Life[r] = "unborn"
    BY EmptyRows DEF IInv, RowsAreComplete, AddsRun, ActiveRuns, Active, Slot!InSlot, Life
  <1>2. claims \subseteq Claim \ Slot!UsedUp
    BY DEF Slot!UsedUp
  <1>3. Life' = [Life EXCEPT ![r] = "waiting"]
    BY DEF Life, AddsRun
  <1>4. Claims' = [Claims EXCEPT ![r] = claims]
    <2>1. \A q \in Run \ {r} : Claims'[q] = Claims[q]
      BY DEF Claims, AddsRun
    <2>2. Claims = [q \in Run |-> Claims[q]] /\ Claims' = [q \in Run |-> Claims'[q]]
      BY DEF Claims
    <2>3. QED
      BY <2>1, <2>2
  <1>5. QED
    BY <1>1, <1>2, <1>3, <1>4 DEF Slot!Admit

\* Every step is a step of ExecutionSlot, or leaves the slot alone.
LEMMA StepSlot ==
    ASSUME IInv, [Next]_storeVars
    PROVE  [Slot!Next]_(Slot!slotVars)
  <1>1. ASSUME NEW t \in planning, NEW r \in Run, ConfirmCommit(t, r)
        PROVE  Slot!Next
    <2>1. AddsRun(r) /\ Confirms(t, r)
      BY <1>1, ConfirmAddsRun
    <2> DEFINE claims == {<<"draft", t.draft>>, <<"key", t.key>>}
    <2>2. Claims'[r] = claims
      BY <2>1 DEF Claims, AddsRun, Confirms
    <2>3. claims \in SUBSET Claim
      BY <2>1 DEF Claim, Confirms
    <2>4. \A q \in Run : claims \cap Claims[q] = {}
      <3>1. ASSUME NEW q \in Run, runs[q] # NoRun, runs[q].auth = 0
            PROVE  runs[q].intent # t.draft /\ runs[q].key # t.key
        BY <2>1, <3>1, NoRowIsZero DEF IInv, RowsAreComplete, Complete, Confirms
      <3>2. QED
        BY <3>1 DEF Claims
    <2>5. QED
      BY <2>1, <2>2, <2>3, <2>4, AdmitToSlot DEF Slot!Next
  <1>2. ASSUME NEW t \in planning, NEW r \in Run, ReexecuteCommit(t, r)
        PROVE  Slot!Next
    <2>1. AddsRun(r) /\ Reexecutes(t, r)
      BY <1>2, ReexecuteAddsRun
    <2> DEFINE claims == {<<"authorization", t.auth>>}
    <2>2. Claims'[r] = claims
      BY <2>1, NoRowIsZero DEF Claims, AddsRun, Reexecutes
    <2>3. claims \in SUBSET Claim
      BY <2>1 DEF Claim, Reexecutes
    <2>4. \A q \in Run : claims \cap Claims[q] = {}
      BY <2>1 DEF Claims, Reexecutes
    <2>5. QED
      BY <2>1, <2>2, <2>3, <2>4, AdmitToSlot DEF Slot!Next
  <1>3. ASSUME NEW p \in Process, StartCommit(p)
        PROVE  Slot!Next
    <2>1. due[p] \in Run /\ MovesRun(due[p], "PLANNING", "RUNNING")
      BY <1>3, StartMovesRun
    <2>2. Claims' = Claims
      BY <2>1, MoveKeepsClaims DEF MovesRun
    <2>3. Life[due[p]] = "waiting" /\ Life' = [Life EXCEPT ![due[p]] = "started"]
      BY <2>1 DEF IInv, RowsAreComplete, MovesRun, Life
    <2>4. QED
      BY <2>1, <2>2, <2>3 DEF Slot!Next, Slot!Move
  <1>4. ASSUME NEW p \in Process, NEW r \in Run,
               NEW status \in {"RELEASED", "FAILED", "CANCELLED"}, NEW gated \in BOOLEAN,
               ExecutionEnds(p, r, status, gated)
        PROVE  Slot!Next
    <2>1. MovesRun(r, "RUNNING", status)
      BY <1>4, EndMovesRun
    <2>2. Claims' = Claims
      BY <2>1, MoveKeepsClaims DEF MovesRun
    <2>3. Life[r] = "started" /\ Life' = [Life EXCEPT ![r] = "over"]
      BY <2>1 DEF IInv, RowsAreComplete, MovesRun, Life
    <2>4. QED
      BY <2>2, <2>3 DEF Slot!Next, Slot!Move
  <1>5. ASSUME NEW r \in Run, RecoverRelease(r)
        PROVE  UNCHANGED <<Life, Claims>>
    <2>1. MovesRun(r, "FAILED", "RELEASED")
      BY <1>5, RecoveryMovesRun
    <2>2. Claims' = Claims
      BY <2>1, MoveKeepsClaims DEF MovesRun
    <2>3. Life' = Life
      BY <2>1 DEF IInv, RowsAreComplete, MovesRun, Life
    <2>4. QED
      BY <2>2, <2>3
  <1>6. CASE UNCHANGED runs
    BY <1>6 DEF Life, Claims, Slot!slotVars
  <1>7. CASE UNCHANGED storeVars
    BY <1>6, <1>7 DEF storeVars, tables
  <1>8. QED
    <2>1. ASSUME Next
          PROVE  \/ UNCHANGED runs
                 \/ \E t \in planning, r \in Run : ConfirmCommit(t, r) \/ ReexecuteCommit(t, r)
                 \/ \E p \in Process : StartCommit(p)
                 \/ \E p \in Process, r \in Run, status \in {"RELEASED", "FAILED", "CANCELLED"},
                       gated \in BOOLEAN : ExecutionEnds(p, r, status, gated)
                 \/ \E r \in Run : RecoverRelease(r)
      <3>1. CASE AdmissionStep
        BY <3>1 DEF AdmissionStep, PrepareBegin, PrepareCommit, PrepareAbort, RenewLease,
           ConfirmBegin,
           PlanAbort, tables
      <3>2. CASE WorkerStep
        BY <3>2 DEF WorkerStep, Poll, StartBegin, StartConflict, WorkerFault, Stop,
           StartProcess, tables
      <3>3. CASE LineageStep
        BY <3>3 DEF LineageStep, MaterializeMemory, Authorize, ReexecuteBegin, tables
      <3>4. CASE RecoveryStep
        BY <3>4 DEF RecoveryStep, RecoverStart, RecoverMemory, RecoverComplete, RecoverFail,
           RecoverCrash, tables
      <3>5. CASE Tick
        BY <3>5 DEF Tick, tables
      <3>6. QED
        BY <2>1, <3>1, <3>2, <3>3, <3>4, <3>5 DEF Next
    <2>2. QED
      BY <1>1, <1>2, <1>3, <1>4, <1>5, <1>6, <1>7, <2>1 DEF Slot!slotVars

\* Admission, execution, re-execution and recovery implement ExecutionSlot (KeepsSlot).
THEOREM SlotIsKept == Spec => KeepsSlot
  <1>1. IInv /\ [Next]_storeVars => [Slot!Next]_(Slot!slotVars)
    BY StepSlot
  <1>2. QED
    BY <1>1, InitSlot, Inductive, PTL DEF Spec, KeepsSlot, Slot!Spec

=============================================================================
