----------------------------- MODULE ProductStore -----------------------------
(***************************************************************************)
(* The database of the product for one research object, and the processes  *)
(* that share it: drafts, runs with their admissions, authorizations,      *)
(* memory versions, closure records (src/infrastructure/database), with    *)
(* the open transactions, admission workers and executions of the server   *)
(* processes (src/phase4_product/postgresql_backend.py).                   *)
(*                                                                         *)
(* Rows are numbered in the order they are committed; 0 is no row.         *)
(* The clock counts half hours: a lease or an authorization lasts one.     *)
(***************************************************************************)
EXTENDS Naturals, FiniteSets

CONSTANTS
    Key,        \* idempotency keys; each route has a namespace of its own
    Process,    \* server processes with the product backend
    MaxDrafts, MaxRuns, MaxAuths,   \* bounds: rows
    MaxTime,    \* bound: the clock
    MaxStops    \* bound: processes, commands and worker loops that end early, lost answers

ASSUME StoreAssumption ==
    /\ 0 \notin Key /\ 0 \notin Process
    /\ {MaxDrafts, MaxRuns, MaxAuths, MaxTime, MaxStops} \subseteq Nat

Draft == 1..MaxDrafts
Run == 1..MaxRuns
Auth == 1..MaxAuths
Expiry == 1

VARIABLES
    now,        \* datetime.now, in half hours
    drafts,     \* [Draft -> row of research_run_drafts with its prepare key and latest lease]
    runs,       \* [Run -> row of research_runs with its scheduler admission]
    auths,      \* [Auth -> row of reexecution_authorizations]
    views,      \* runs with a research view version
    pointer,    \* latest_released_run_id of the memory pointer
    closure,    \* [Run -> kinds of its closure_recovery_records]
    preparing,  \* [Process -> prepare transaction that found no outcome]
    planning,   \* confirm and reexecute transactions waiting for the planner
    worker,     \* [Process -> where its admission worker is]
    due,        \* [Process -> admission the worker is handling]
    executing,  \* [Process -> runs it executes]
    recovering, \* [Run -> where its closure recovery is]
    stops       \* processes, commands and worker loops that ended early

tables == <<drafts, runs, auths, views, pointer, closure>>
transactions == <<preparing, planning>>
workers == <<worker, due, executing>>
storeVars == <<now, tables, transactions, workers, recovering, stops>>

Active == {"PLANNING", "RUNNING"}
RunStatus == Active \cup {"RELEASED", "FAILED", "CANCELLED"}

NoDraft == [key |-> 0, base |-> 0, expires |-> 0, run |-> 0]
\* intent: the draft whose scheme the run executes; checked: the lease its
\* confirmation was checked against; gated: it failed at the release gate.
NoRun == [status |-> "ABSENT", delivery |-> "NONE", starts |-> 0, intent |-> 0, key |-> 0,
          auth |-> 0, of |-> 0, base |-> 0, checked |-> 0, gated |-> FALSE]
NoAuth == [prior |-> 0, expires |-> 0, run |-> 0]
NoPrepare == [key |-> 0, base |-> 0, expires |-> 0]

DraftRow == [key : Key \cup {0}, base : Run \cup {0}, expires : Nat, run : Run \cup {0}]
RunRow == [status : RunStatus \cup {"ABSENT"}, delivery : {"NONE", "PENDING", "ACKNOWLEDGED"},
           starts : Nat, intent : Draft \cup {0}, key : Key \cup {0}, auth : Auth \cup {0},
           of : Run \cup {0}, base : Run \cup {0}, checked : Nat, gated : BOOLEAN]
AuthRow == [prior : Run \cup {0}, expires : Nat, run : Run \cup {0}]
Prepare == [key : Key \cup {0}, base : Run \cup {0}, expires : Nat]
Transaction == [process : Process, key : Key \cup {0}, draft : Draft \cup {0},
                auth : Auth \cup {0}, checked : Nat]

Exists(rows, none) == { i \in DOMAIN rows : rows[i] # none }
\* The next row to be committed.
IsFresh(rows, none, i) == rows[i] = none /\ \A j \in DOMAIN rows : j < i => rows[j] # none

ActiveRuns == { r \in Run : runs[r].status \in Active }

\* What a transaction that waits for the planner keeps locked until it ends.
LockedDrafts == { t.draft : t \in planning }
LockedRuns == UNION { {auths[t.auth].prior, runs[auths[t.auth].prior].base}
                        : t \in { u \in planning : u.auth # 0 } }
PointerLocked == \E t \in planning : t.auth # 0

=============================================================================
