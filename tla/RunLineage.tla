------------------------------ MODULE RunLineage ------------------------------
(***************************************************************************)
(* What happens to a run after its execution: its result becomes the next  *)
(* version of the object's memory (research_memory.py), a failed run is    *)
(* executed again under a one-shot authorization (reexecution.py), or its  *)
(* closure alone is repeated (closure_recovery.py).                        *)
(***************************************************************************)
EXTENDS RunAdmission

\* Runs that executed the same confirmed scheme.
SameIntent(r) == { q \in Run : runs[q].intent = runs[r].intent }

-----------------------------------------------------------------------------
(* Memory *)

\* A slip: the base of the run is not compared with the current pointer.
AdvancesAnywhere(r) ==
    /\ runs[r].status = "RELEASED"
    /\ r \notin views

\* The first version, or the one that follows the view the run was built on.
\* Other calls are refused or find the run already current.
Advances(r) ==
    /\ runs[r].status = "RELEASED"
    /\ r \notin views
    /\ pointer \in {0, runs[r].base}

\* A slip: the pointer advances without its view.
MaterializeMemoryPointerOnly(r) ==
    /\ ~PointerLocked
    /\ Advances(r)
    /\ pointer' = r
    /\ UNCHANGED <<now, drafts, runs, auths, views, closure, transactions, workers,
                   recovering, stops>>

\* The object row serializes writebacks; a re-execution holds the pointer's row.
MaterializeMemory(r) ==
    /\ ~PointerLocked
    /\ Advances(r)
    /\ views' = views \cup {r}
    /\ pointer' = r
    /\ UNCHANGED <<now, drafts, runs, auths, closure, transactions, workers, recovering, stops>>

-----------------------------------------------------------------------------
(* Re-execution of a failed run *)

Ancestors(run) ==
    LET above[r \in Run] ==
            IF runs[r].of = 0 THEN {} ELSE {runs[r].of} \cup above[runs[r].of]
    IN  above[run]

\* authority(): the prior run and its ancestors failed, the view it was built on
\* is still the current memory, and no run released the same scheme.
Authority(prior) ==
    /\ runs[prior].status = "FAILED"
    /\ runs[prior].base # 0
    /\ \A a \in Ancestors(prior) : runs[a].status = "FAILED"
    /\ pointer = runs[prior].base
    /\ \A q \in SameIntent(prior) : runs[q].status # "RELEASED"

\* Under the advisory lock; a key that was used replays its authorization.
Authorize(p, prior, a) ==
    /\ worker[p] # "down"
    /\ planning = {}
    /\ Authority(prior)
    /\ IsFresh(auths, NoAuth, a)
    /\ auths' = [auths EXCEPT ![a] = [prior |-> prior, expires |-> now + Expiry, run |-> 0]]
    /\ UNCHANGED <<now, drafts, runs, views, pointer, closure, transactions, workers,
                   recovering, stops>>

ReexecuteBegin(p, a) ==
    /\ worker[p] # "down"
    /\ planning = {}
    /\ auths[a] # NoAuth /\ auths[a].run = 0
    /\ now < auths[a].expires
    /\ Authority(auths[a].prior)
    /\ ActiveRuns = {}
    /\ planning' = planning \cup
           {[process |-> p, key |-> 0, draft |-> 0, auth |-> a, checked |-> 0]}
    /\ UNCHANGED <<now, tables, preparing, workers, recovering, stops>>

\* The expiry is checked again after planning.
ReexecuteCommit(t, r) ==
    LET prior == auths[t.auth].prior
    IN  /\ t \in planning /\ t.auth # 0
        /\ now < auths[t.auth].expires
        /\ IsFresh(runs, NoRun, r)
        /\ runs' = [runs EXCEPT ![r] =
               [NoRun EXCEPT !.status = "PLANNING", !.delivery = "PENDING",
                             !.intent = runs[prior].intent, !.auth = t.auth, !.of = prior,
                             !.base = runs[prior].base]]
        /\ auths' = [auths EXCEPT ![t.auth].run = r]
        /\ planning' = planning \ {t}
        /\ UNCHANGED <<now, drafts, views, pointer, closure, preparing, workers, recovering, stops>>

-----------------------------------------------------------------------------
(* Recovery of a closure *)

\* An operator's command, outside the server processes and the advisory lock;
\* any record of an earlier attempt refuses it.
RecoverStart(r) ==
    /\ r \notin LockedRuns
    /\ runs[r].status = "FAILED" /\ runs[r].gated
    /\ closure[r] = {}
    /\ closure' = [closure EXCEPT ![r] = {"STARTED"}]
    /\ recovering' = [recovering EXCEPT ![r] = "staging"]
    /\ UNCHANGED <<now, drafts, runs, auths, views, pointer, transactions, workers, stops>>

\* Staged review and release succeeded: row, new events and record are
\* committed together if the failed history is unchanged.
RecoverRelease(r) ==
    /\ recovering[r] = "staging"
    /\ r \notin LockedRuns
    /\ runs[r].status = "FAILED"
    /\ runs' = [runs EXCEPT ![r].status = "RELEASED"]
    /\ closure' = [closure EXCEPT ![r] = @ \cup {"RELEASED"}]
    /\ recovering' = [recovering EXCEPT ![r] = "released"]
    /\ UNCHANGED <<now, drafts, auths, views, pointer, transactions, workers, stops>>

\* A slip: a refused writeback is passed over.
RecoverMemoryRegardless(r) ==
    /\ recovering[r] = "released"
    /\ IF Advances(r) THEN views' = views \cup {r} /\ pointer' = r
       ELSE UNCHANGED <<views, pointer>>
    /\ recovering' = [recovering EXCEPT ![r] = "materialized"]
    /\ UNCHANGED <<now, drafts, runs, auths, closure, transactions, workers, stops>>

RecoverMemory(r) ==
    /\ recovering[r] = "released"
    /\ \/ /\ ~PointerLocked /\ Advances(r)
          /\ views' = views \cup {r}
          /\ pointer' = r
       \/ /\ pointer = r
          /\ UNCHANGED <<views, pointer>>
    /\ recovering' = [recovering EXCEPT ![r] = "materialized"]
    /\ UNCHANGED <<now, drafts, runs, auths, closure, transactions, workers, stops>>

RecoverComplete(r) ==
    /\ recovering[r] = "materialized"
    /\ closure' = [closure EXCEPT ![r] = @ \cup {"COMPLETED"}]
    /\ recovering' = [recovering EXCEPT ![r] = "none"]
    /\ UNCHANGED <<now, drafts, runs, auths, views, pointer, transactions, workers, stops>>

\* The gate still blocks, the memory refuses the run, or an operation failed.  The
\* answer to the last commit may be lost (as rare as a stop): both records stay.
RecoverFail(r) ==
    /\ recovering[r] # "none"
    /\ \/ /\ closure' = [closure EXCEPT ![r] = @ \cup {"FAILED"}]
          /\ UNCHANGED stops
       \/ /\ recovering[r] = "materialized"
          /\ stops < MaxStops /\ stops' = stops + 1
          /\ closure' = [closure EXCEPT ![r] = @ \cup {"COMPLETED", "FAILED"}]
    /\ recovering' = [recovering EXCEPT ![r] = "none"]
    /\ UNCHANGED <<now, drafts, runs, auths, views, pointer, transactions, workers>>

\* The command is killed: nothing is recorded.
RecoverCrash(r) ==
    /\ recovering[r] # "none"
    /\ stops < MaxStops /\ stops' = stops + 1
    /\ recovering' = [recovering EXCEPT ![r] = "none"]
    /\ UNCHANGED <<now, tables, transactions, workers>>

=============================================================================
