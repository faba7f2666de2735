----------------------------- MODULE RunAdmission -----------------------------
(***************************************************************************)
(* From a question to a started run: prepare_run, renew_draft_lease and    *)
(* confirm_run of the product backend, and the admission worker of each    *)
(* process, which starts what was confirmed and executes it.               *)
(***************************************************************************)
EXTENDS ProductStore

(* Drafts *)

\* The transaction sees no outcome for its key, and generates a scheme on the
\* view it is asked to build on; nothing is locked, and the draft's time runs.
PrepareBegin(p, k, base) ==
    /\ worker[p] # "down" /\ preparing[p] = NoPrepare
    /\ \A d \in Draft : drafts[d].key # k
    /\ NoDraft \in { drafts[d] : d \in Draft }
    /\ base \in views \cup {0}
    /\ preparing' = [preparing EXCEPT ![p] = [key |-> k, base |-> base, expires |-> now + Expiry]]
    /\ UNCHANGED <<now, tables, planning, workers, recovering, stops>>

\* (scope, method, route, key) is unique: the second insert of a key is refused.
PrepareCommit(p, d) ==
    /\ preparing[p] # NoPrepare
    /\ IsFresh(drafts, NoDraft, d)
    /\ \A e \in Draft : drafts[e].key # preparing[p].key
    /\ drafts' = [drafts EXCEPT ![d] =
           [key |-> preparing[p].key, base |-> preparing[p].base,
            expires |-> preparing[p].expires, run |-> 0]]
    /\ preparing' = [preparing EXCEPT ![p] = NoPrepare]
    /\ UNCHANGED <<now, runs, auths, views, pointer, closure, planning, workers, recovering, stops>>

\* The generator fails, or the key's outcome exists by now.
PrepareAbort(p) ==
    /\ preparing[p] # NoPrepare
    /\ preparing' = [preparing EXCEPT ![p] = NoPrepare]
    /\ UNCHANGED <<now, tables, planning, workers, recovering, stops>>

\* A slip: the renewal does not lock the draft's row.
RenewLeaseUnlocked(d) ==
    /\ drafts[d].base # 0 /\ drafts[d].run = 0
    /\ now >= drafts[d].expires
    /\ drafts' = [drafts EXCEPT ![d].expires = now + Expiry]
    /\ UNCHANGED <<now, runs, auths, views, pointer, closure, transactions, workers,
                   recovering, stops>>

\* Only an incremental draft can be renewed, once its lease has run out and
\* before a run consumed it; confirmation holds the same row.  A renewal that
\* is replayed, or names another predecessor, changes nothing.
RenewLease(d) ==
    /\ drafts[d] # NoDraft /\ drafts[d].base # 0
    /\ d \notin LockedDrafts
    /\ drafts[d].run = 0
    /\ now >= drafts[d].expires
    /\ drafts' = [drafts EXCEPT ![d].expires = now + Expiry]
    /\ UNCHANGED <<now, runs, auths, views, pointer, closure, transactions, workers,
                   recovering, stops>>

-----------------------------------------------------------------------------
(* Confirmation *)

\* A slip: a key is looked up per draft.
ConfirmBeginAnyKey(p, k, d) ==
    /\ worker[p] # "down"
    /\ planning = {}
    /\ drafts[d] # NoDraft /\ drafts[d].run = 0
    /\ now < drafts[d].expires
    /\ ActiveRuns = {}
    /\ planning' = planning \cup
           {[process |-> p, key |-> k, draft |-> d, auth |-> 0, checked |-> drafts[d].expires]}
    /\ UNCHANGED <<now, tables, preparing, workers, recovering, stops>>

\* The advisory lock of the scope is held to the end of the transaction.  A key
\* that was used replays its outcome or is refused.
ConfirmBegin(p, k, d) ==
    /\ worker[p] # "down"
    /\ planning = {}
    /\ \A r \in Run : runs[r].key # k
    /\ drafts[d] # NoDraft /\ drafts[d].run = 0
    /\ now < drafts[d].expires
    /\ ActiveRuns = {}
    /\ planning' = planning \cup
           {[process |-> p, key |-> k, draft |-> d, auth |-> 0, checked |-> drafts[d].expires]}
    /\ UNCHANGED <<now, tables, preparing, workers, recovering, stops>>

\* The planner's graph is valid: draft, run, graphs, tasks, outcome, admission
\* and first events are committed together.
ConfirmCommit(t, r) ==
    /\ t \in planning /\ t.draft # 0
    /\ IsFresh(runs, NoRun, r)
    /\ runs' = [runs EXCEPT ![r] =
           [NoRun EXCEPT !.status = "PLANNING", !.delivery = "PENDING", !.intent = t.draft,
                         !.key = t.key, !.base = drafts[t.draft].base, !.checked = t.checked]]
    /\ drafts' = [drafts EXCEPT ![t.draft].run = r]
    /\ planning' = planning \ {t}
    /\ UNCHANGED <<now, auths, views, pointer, closure, preparing, workers, recovering, stops>>

\* The planner fails or its graph is invalid; of a re-execution also when its
\* authorization ran out meanwhile.
PlanAbort(t) ==
    /\ t \in planning
    /\ planning' = planning \ {t}
    /\ UNCHANGED <<now, tables, preparing, workers, recovering, stops>>

-----------------------------------------------------------------------------
(* The admission worker *)

\* A transaction of its own lists what is due.
Poll(p, r) ==
    /\ worker[p] = "waiting"
    /\ runs[r].delivery = "PENDING"
    /\ worker' = [worker EXCEPT ![p] = "due"]
    /\ due' = [due EXCEPT ![p] = r]
    /\ UNCHANGED <<now, tables, transactions, executing, recovering, stops>>

\* The snapshot of the starting transaction has the admission PENDING, or
\* leasing it is refused, which the loop survives.
StartBegin(p) ==
    /\ worker[p] = "due"
    /\ worker' = [worker EXCEPT ![p] =
           IF runs[due[p]].delivery = "PENDING" THEN "starting" ELSE "waiting"]
    /\ due' = [due EXCEPT ![p] = IF runs[due[p]].delivery = "PENDING" THEN @ ELSE 0]
    /\ UNCHANGED <<now, tables, transactions, executing, recovering, stops>>

\* A slip: the admission is not locked, and the lease generation not compared.
StartCommitUnfenced(p) ==
    /\ worker[p] = "starting"
    /\ runs' = [runs EXCEPT ![due[p]] =
           [runs[due[p]] EXCEPT !.status = "RUNNING", !.delivery = "ACKNOWLEDGED",
                                !.starts = @ + 1]]
    /\ executing' = [executing EXCEPT ![p] = @ \cup {due[p]}]
    /\ worker' = [worker EXCEPT ![p] = "waiting"]
    /\ due' = [due EXCEPT ![p] = 0]
    /\ UNCHANGED <<now, drafts, auths, views, pointer, closure, transactions, recovering, stops>>

\* Lease, run.started, status and acknowledgement are committed together, and
\* the execution is spawned.
StartCommit(p) ==
    /\ worker[p] = "starting"
    /\ runs[due[p]].delivery = "PENDING"
    /\ runs' = [runs EXCEPT ![due[p]] =
           [runs[due[p]] EXCEPT !.status = "RUNNING", !.delivery = "ACKNOWLEDGED",
                                !.starts = @ + 1]]
    /\ executing' = [executing EXCEPT ![p] = @ \cup {due[p]}]
    /\ worker' = [worker EXCEPT ![p] = "waiting"]
    /\ due' = [due EXCEPT ![p] = 0]
    /\ UNCHANGED <<now, drafts, auths, views, pointer, closure, transactions, recovering, stops>>

\* Another process committed the start after our snapshot: the row lock ends
\* in a serialization failure, which the loop does not catch.
StartConflict(p) ==
    /\ worker[p] = "starting"
    /\ runs[due[p]].delivery # "PENDING"
    /\ worker' = [worker EXCEPT ![p] = "dead"]
    /\ due' = [due EXCEPT ![p] = 0]
    /\ UNCHANGED <<now, tables, transactions, executing, recovering, stops>>

\* Any other database error ends the loop as well.
WorkerFault(p) ==
    /\ worker[p] \notin {"down", "dead"}
    /\ stops < MaxStops /\ stops' = stops + 1
    /\ worker' = [worker EXCEPT ![p] = "dead"]
    /\ due' = [due EXCEPT ![p] = 0]
    /\ UNCHANGED <<now, tables, transactions, executing, recovering>>

-----------------------------------------------------------------------------
(* Executions and processes *)

\* RunPublication has the steps of an execution.
ExecutionEnds(p, r, status, gated) ==
    /\ r \in executing[p]
    /\ runs' = [runs EXCEPT ![r] = [@ EXCEPT !.status = status, !.gated = gated]]
    /\ executing' = [executing EXCEPT ![p] = @ \ {r}]
    /\ UNCHANGED <<now, drafts, auths, views, pointer, closure, transactions, worker, due,
                   recovering, stops>>

\* What the process had open is rolled back; a run it executed stays RUNNING.
Stop(p) ==
    /\ worker[p] # "down"
    /\ stops < MaxStops /\ stops' = stops + 1
    /\ worker' = [worker EXCEPT ![p] = "down"]
    /\ due' = [due EXCEPT ![p] = 0]
    /\ executing' = [executing EXCEPT ![p] = {}]
    /\ preparing' = [preparing EXCEPT ![p] = NoPrepare]
    /\ planning' = { t \in planning : t.process # p }
    /\ UNCHANGED <<now, tables, recovering>>

\* Nothing looks for runs that were RUNNING.
StartProcess(p) ==
    /\ worker[p] = "down"
    /\ worker' = [worker EXCEPT ![p] = "waiting"]
    /\ UNCHANGED <<now, tables, transactions, due, executing, recovering, stops>>

Tick ==
    /\ now < MaxTime /\ now' = now + 1
    /\ UNCHANGED <<tables, transactions, workers, recovering, stops>>

=============================================================================
