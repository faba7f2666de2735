--------------------------- MODULE FinancialBranches ---------------------------
(***************************************************************************)
(* The independent calculations of one financial task                      *)
(* (execute_financial_branches): each branch waits for the branches it     *)
(* depends on, a bounded number is executed at a time, every outcome is    *)
(* published, and only then is an error raised.  One branch needs a        *)
(* capability that is generated for it.                                    *)
(***************************************************************************)
EXTENDS CapabilityBuild, FiniteSets

CONSTANTS
    Branch,
    Generated,     \* the branch whose capability is built
    Dependencies,  \* dependency_ids, which the call checks to be known and acyclic
    Concurrency

ASSUME BranchesAssumption ==
    /\ Generated \in Branch
    /\ Dependencies \in [Branch -> SUBSET Branch]
    /\ Concurrency \in Nat \ {0}

VARIABLES
    worker,     \* coroutine of each branch
    operation,  \* the task that executes a branch, which its worker shields
    result,     \* what the operation came to, or the worker in its stead
    saved,      \* branches whose calculations are committed
    recorded,   \* branches whose outcome is published
    cancelled,  \* the call was cancelled
    call        \* what the call came to

branchVars == <<worker, operation, result, saved, recorded, cancelled, call>>
vars == <<buildVars, branchVars>>

Unavailable == {"INSUFFICIENT_DATA", "BLOCKED_BY_RUNTIME"}
Failure == {"local", "global"}

Init ==
    /\ BuildInit
    /\ worker = [b \in Branch |-> "waiting"]
    /\ operation = [b \in Branch |-> "none"]
    /\ result = [b \in Branch |-> "none"]
    /\ saved = {} /\ recorded = {}
    /\ cancelled = FALSE
    /\ call = "running"

-----------------------------------------------------------------------------
(* Operations: they go on when their worker is cancelled.                   *)

Ends(b, res) ==
    /\ operation' = [operation EXCEPT ![b] = "done"]
    /\ result' = [result EXCEPT ![b] = res]
    /\ UNCHANGED <<worker, saved, recorded, cancelled, call>>

GoesOn(b, from, to) ==
    /\ operation[b] = from
    /\ operation' = [operation EXCEPT ![b] = to]
    /\ UNCHANGED <<worker, result, saved, recorded, cancelled, call>>

\* Too few inputs; for the generated branch also inputs of different periods.
InputsMissing(b) ==
    /\ operation[b] = "started"
    /\ \/ Ends(b, "INSUFFICIENT_DATA")
       \/ b = Generated /\ Ends(b, "local")
    /\ UNCHANGED buildVars

StartCalculation(b) ==
    /\ b # Generated /\ GoesOn(b, "started", "calculating")
    /\ UNCHANGED buildVars

StartBuild(b) ==
    /\ b = Generated /\ GoesOn(b, "started", "building")
    /\ Found \/ Gap

GoOnBuilding(b) ==
    /\ operation[b] = "building" /\ BuildStep
    /\ UNCHANGED branchVars

BuildSucceeds(b) ==
    /\ build.at = "available" /\ GoesOn(b, "building", "calculating")
    /\ UNCHANGED buildVars

BuildResult ==
    CASE build.error = "sandbox" -> "BLOCKED_BY_RUNTIME"
      [] build.error \in {"local", "deadline"} -> "local"
      [] OTHER -> "global"

BuildRaises(b) ==
    /\ operation[b] = "building" /\ build.at = "raised"
    /\ Ends(b, BuildResult)
    /\ UNCHANGED buildVars

CalculationRaises(b) ==
    /\ operation[b] = "calculating"
    /\ \E res \in Failure \cup {"BLOCKED_BY_RUNTIME"} : Ends(b, res)
    /\ UNCHANGED buildVars

Calculate(b) ==
    /\ GoesOn(b, "calculating", "committing")
    /\ UNCHANGED buildVars

Commit(b) ==
    /\ operation[b] = "committing"
    /\ operation' = [operation EXCEPT ![b] = "done"]
    /\ result' = [result EXCEPT ![b] = "COMPLETED"]
    /\ saved' = saved \cup {b}
    /\ UNCHANGED <<buildVars, worker, recorded, cancelled, call>>

\* Of several calculations some may be committed, or the event after them fails.
CommitFails(b) ==
    /\ operation[b] = "committing"
    /\ operation' = [operation EXCEPT ![b] = "done"]
    /\ result' = [result EXCEPT ![b] = "global"]
    /\ saved' \in {saved, saved \cup {b}}
    /\ UNCHANGED <<buildVars, worker, recorded, cancelled, call>>

OperationStep(b) ==
    \/ InputsMissing(b) \/ StartCalculation(b) \/ StartBuild(b) \/ GoOnBuilding(b)
    \/ BuildSucceeds(b) \/ BuildRaises(b) \/ CalculationRaises(b) \/ Calculate(b)
    \/ Commit(b) \/ CommitFails(b)

-----------------------------------------------------------------------------
(* Workers *)

Settled(b) == \A d \in Dependencies[b] : worker[d] = "ended"
Available(b) == \A d \in Dependencies[b] : result[d] = "COMPLETED"

\* Dependencies are awaited outside the semaphore.
Permits == { b \in Branch : worker[b] \in {"executing", "draining"} }

Skip(b) ==
    /\ worker[b] = "waiting" /\ Settled(b) /\ ~Available(b)
    /\ worker' = [worker EXCEPT ![b] = "publishing"]
    /\ result' = [result EXCEPT ![b] = "INSUFFICIENT_DATA"]
    /\ UNCHANGED <<buildVars, operation, saved, recorded, cancelled, call>>

Enter(b) ==
    /\ worker[b] = "waiting" /\ Settled(b) /\ Available(b)
    /\ Cardinality(Permits) < Concurrency
    /\ worker' = [worker EXCEPT ![b] = "executing"]
    /\ operation' = [operation EXCEPT ![b] = "started"]
    /\ UNCHANGED <<buildVars, result, saved, recorded, cancelled, call>>

\* Its error, if it is one, is kept for the end of the call.
TakeResult(b) ==
    /\ worker[b] = "executing" /\ operation[b] = "done"
    /\ worker' = [worker EXCEPT ![b] = "publishing"]
    /\ UNCHANGED <<buildVars, operation, result, saved, recorded, cancelled, call>>

Publish(b) ==
    /\ worker[b] = "publishing"
    /\ worker' = [worker EXCEPT ![b] = "ended"]
    /\ recorded' = recorded \cup {b}
    /\ UNCHANGED <<buildVars, operation, result, saved, cancelled, call>>

\* A slip: cancelled workers leave their operations behind.
AbortedAtOnce(w) ==
    [b \in Branch |-> IF w[b] \in {"waiting", "publishing", "executing"} THEN "cancelled" ELSE w[b]]

\* The TaskGroup cancels its workers; one whose operation runs drains it first.
Aborted(w) ==
    [b \in Branch |->
        CASE w[b] \in {"waiting", "publishing"} -> "cancelled"
          [] w[b] = "executing" -> "draining"
          [] OTHER -> w[b]]

\* A slip: the siblings are left alone, as by gather.
PublishFailsAlone(b) ==
    /\ worker[b] = "publishing"
    /\ worker' = [worker EXCEPT ![b] = "failed"]
    /\ recorded' \in {recorded, recorded \cup {b}}
    /\ UNCHANGED <<buildVars, operation, result, saved, cancelled, call>>

\* The event of the outcome is not stored, or the log is not read back after it.
PublishFails(b) ==
    /\ worker[b] = "publishing"
    /\ worker' = Aborted([worker EXCEPT ![b] = "failed"])
    /\ recorded' \in {recorded, recorded \cup {b}}
    /\ UNCHANGED <<buildVars, operation, result, saved, cancelled, call>>

Drained(b) ==
    /\ worker[b] = "draining" /\ operation[b] = "done"
    /\ worker' = [worker EXCEPT ![b] = "cancelled"]
    /\ UNCHANGED <<buildVars, operation, result, saved, recorded, cancelled, call>>

\* The run is cancelled, once; publications under way may have been recorded.
CancelCall ==
    /\ call = "running" /\ ~cancelled
    /\ cancelled' = TRUE
    /\ worker' = Aborted(worker)
    /\ \E S \in SUBSET { b \in Branch : worker[b] = "publishing" } : recorded' = recorded \cup S
    /\ UNCHANGED <<buildVars, operation, result, saved, call>>

\* The errors of operations are raised after the group: one that is not local
\* prevails.  An error of the group itself prevails over all.
Verdict ==
    IF \E b \in Branch : worker[b] = "failed" THEN "raised"
    ELSE IF cancelled THEN "cancelled"
    ELSE IF \E b \in Branch : result[b] = "global" THEN "global"
    ELSE IF \E b \in Branch : result[b] = "local" THEN "local"
    ELSE "returned"

CallEnds ==
    /\ call = "running"
    /\ \A b \in Branch : worker[b] \in {"ended", "cancelled", "failed"}
    /\ call' = Verdict
    /\ UNCHANGED <<buildVars, worker, operation, result, saved, recorded, cancelled>>

WorkerStep(b) ==
    Skip(b) \/ Enter(b) \/ TakeResult(b) \/ Publish(b) \/ PublishFails(b) \/ Drained(b)

Progress == (\E b \in Branch : OperationStep(b) \/ WorkerStep(b)) \/ CallEnds

Next == Progress \/ CancelCall

\* Every operation is bounded by the deadline of what it calls.
Spec == Init /\ [][Next]_vars /\ WF_vars(Progress)

-----------------------------------------------------------------------------

TypeOK ==
    /\ BuildTypeOK
    /\ worker \in [Branch -> {"waiting", "executing", "draining", "publishing", "ended",
                              "cancelled", "failed"}]
    /\ operation \in [Branch -> {"none", "started", "building", "calculating", "committing",
                                 "done"}]
    /\ result \in [Branch -> {"none", "COMPLETED"} \cup Unavailable \cup Failure]
    /\ saved \in SUBSET Branch /\ recorded \in SUBSET Branch
    /\ cancelled \in BOOLEAN
    /\ call \in {"running", "returned", "local", "global", "raised", "cancelled"}

\* When the call is over, by an error or a cancellation too, none of its
\* operations runs on ("Drain owned work before exiting scope"); an error of a
\* branch is raised only after all its siblings are published; a call that
\* returns or fails locally, after which the run goes on, does not leave the task
\* waiting for its capability, nor does one that returns leave it failed.
CallIsSettled ==
    call # "running" =>
        /\ \A b \in Branch : operation[b] \in {"none", "done"}
        /\ call \in {"returned", "local", "global"} => recorded = Branch
        /\ call \in {"returned", "local"} => status # "WAITING_FOR_CAPABILITY"
        /\ call = "returned" => status = "RUNNING"

\* The call ends, whatever fails: no branch waits for ever for one that was
\* cancelled or could not be published, and none holds a permit while it waits.
CallConcludes == <>(call # "running")

=============================================================================
