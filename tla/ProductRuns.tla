------------------------------ MODULE ProductRuns ------------------------------
(***************************************************************************)
(* The product backend as a whole: RunAdmission and RunLineage act on one  *)
(* store, from several processes, with an operator's closure recovery      *)
(* beside them.                                                            *)
(***************************************************************************)
EXTENDS RunLineage

Init ==
    /\ now = 0
    /\ drafts = [d \in Draft |-> NoDraft]
    /\ runs = [r \in Run |-> NoRun]
    /\ auths = [a \in Auth |-> NoAuth]
    /\ views = {} /\ pointer = 0
    /\ closure = [r \in Run |-> {}]
    /\ preparing = [p \in Process |-> NoPrepare]
    /\ planning = {}
    /\ worker = [p \in Process |-> "waiting"]
    /\ due = [p \in Process |-> 0]
    /\ executing = [p \in Process |-> {}]
    /\ recovering = [r \in Run |-> "none"]
    /\ stops = 0

AdmissionStep ==
    \/ \E p \in Process, k \in Key :
           \/ \E base \in {0} \cup Run : PrepareBegin(p, k, base)
           \/ \E d \in Draft : ConfirmBegin(p, k, d)
    \/ \E p \in Process : PrepareAbort(p) \/ \E d \in Draft : PrepareCommit(p, d)
    \/ \E d \in Draft : RenewLease(d)
    \/ \E t \in planning : PlanAbort(t) \/ \E r \in Run : ConfirmCommit(t, r)

WorkerStep == \E p \in Process :
    \/ \E r \in Run : Poll(p, r)
    \/ StartBegin(p) \/ StartCommit(p) \/ StartConflict(p) \/ WorkerFault(p)
    \/ \E r \in Run :
           \/ \E status \in {"RELEASED", "FAILED", "CANCELLED"} : ExecutionEnds(p, r, status, FALSE)
           \/ ExecutionEnds(p, r, "FAILED", TRUE)
    \/ Stop(p) \/ StartProcess(p)

LineageStep ==
    \/ \E r \in Run : MaterializeMemory(r)
    \/ \E p \in Process, a \in Auth : ReexecuteBegin(p, a) \/ \E r \in Run : Authorize(p, r, a)
    \/ \E t \in planning, r \in Run : ReexecuteCommit(t, r)

RecoveryStep == \E r \in Run :
    RecoverStart(r) \/ RecoverRelease(r) \/ RecoverMemory(r) \/ RecoverComplete(r)
        \/ RecoverFail(r) \/ RecoverCrash(r)

Next == AdmissionStep \/ WorkerStep \/ LineageStep \/ RecoveryStep \/ Tick

Spec == Init /\ [][Next]_storeVars

-----------------------------------------------------------------------------

\* Rows, transactions and processes have their shapes: a draft or run that is
\* there is complete, and what waits for the planner names rows that are there.
TypeOK ==
    /\ now \in Nat
    /\ drafts \in [Draft -> DraftRow]
    /\ runs \in [Run -> RunRow]
    /\ auths \in [Auth -> AuthRow]
    /\ views \in SUBSET Run /\ pointer \in views \cup {0}
    /\ closure \in [Run -> SUBSET {"STARTED", "RELEASED", "COMPLETED", "FAILED"}]
    /\ preparing \in [Process -> Prepare]
    /\ planning \in SUBSET Transaction
    /\ worker \in [Process -> {"down", "waiting", "due", "starting", "dead"}]
    /\ due \in [Process -> Run \cup {0}]
    /\ executing \in [Process -> SUBSET Run]
    /\ recovering \in [Run -> {"none", "staging", "released", "materialized"}]
    /\ stops \in Nat

\* confirm_run: "A research run is already active": two runs are never active at
\* a time, whatever two processes admit, start and execute together.
OneActiveRun == \A r, q \in ActiveRuns : r = q

\* A run is executed by one process, once it was started, and only until its
\* status is terminal, although every process has an admission worker.
ExecutedOnce ==
    \A p \in Process : \A r \in executing[p] :
        /\ runs[r].status = "RUNNING" /\ runs[r].starts = 1
        /\ \A o \in Process \ {p} : r \notin executing[o]

\* A prepare key has one draft, however many concurrent requests carry it.
OneDraftPerKey ==
    \A d, e \in Exists(drafts, NoDraft) : drafts[d].key = drafts[e].key => d = e

\* The run a draft became was confirmed on the lease the draft still has: a
\* renewal never slips in between the check of a confirmation and its commit.
ConfirmedOnItsLease ==
    \A r \in Run : runs[r].key # 0 =>
        /\ drafts[runs[r].intent].run = r
        /\ drafts[runs[r].intent].expires = runs[r].checked

\* Several runs of one confirmed scheme may be released (a re-execution and a
\* recovered closure), but the object's memory takes in at most one of them.
IntentInMemoryOnce ==
    \A r, q \in views : runs[r].intent = runs[q].intent => r = q

\* A closure recovery whose memory writeback failed never records completion:
\* COMPLETED means the recovered run is a version of the memory.  A FAILED beside
\* it, after a lost answer, says nothing to the contrary.
CompletedInMemory ==
    \A r \in Run : "COMPLETED" \in closure[r] => r \in views

-----------------------------------------------------------------------------
(* Admission implements ExecutionSlot.                                      *)

Claim == ({"draft"} \X Draft) \cup ({"key"} \X Key) \cup ({"authorization"} \X Auth)

Claims == [r \in Run |->
    IF runs[r] = NoRun THEN {}
    ELSE IF runs[r].auth # 0 THEN {<<"authorization", runs[r].auth>>}
    ELSE {<<"draft", runs[r].intent>>, <<"key", runs[r].key>>}]

Life == [r \in Run |->
    IF runs[r].status = "ABSENT" THEN "unborn"
    ELSE IF runs[r].delivery = "PENDING" THEN "waiting"
    ELSE IF runs[r].status = "RUNNING" THEN "started"
    ELSE "over"]

Slot == INSTANCE ExecutionSlot WITH life <- Life, used <- Claims

\* One run at a time, each admitted with unused claims, started once, over for
\* good: a closure recovery changes what a run that is over says, not that it is.
KeepsSlot == Slot!Spec

-----------------------------------------------------------------------------

\* docs/integration/PHASE5B_REEXECUTION_CONTRACT.md: "An already RELEASED execution
\* of the same intent prevents another authorization/admission through this path."
NoAdmissionAfterRelease ==
    [][\A r \in Run : runs[r] = NoRun /\ runs'[r].of # 0 =>
           \A q \in Run : runs[q].intent = runs'[r].intent => runs[q].status # "RELEASED"]_storeVars

=============================================================================
