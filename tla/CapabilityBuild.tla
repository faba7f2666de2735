---------------------------- MODULE CapabilityBuild ----------------------------
(***************************************************************************)
(* A missing capability is built for a running task: the gap is approved,  *)
(* code is generated and validated in bounded attempts, and what passes is *)
(* approved and registered for the task (lookup_or_build).  The registry   *)
(* is in memory; every record and event on the way is a write of its own   *)
(* that may fail.                                                          *)
(***************************************************************************)
EXTENDS Naturals

CONSTANT MaxAttempts

ASSUME AttemptsAssumption == MaxAttempts \in Nat \ {0}

VARIABLES
    build,         \* where lookup_or_build is, its attempt, the lifecycle of what
                   \* that attempt generated, and the last error
    status,        \* status of the task, as the orchestrator writes it
    registered,    \* the registry, in memory, has the capability for the task
    builds,        \* stored lifecycle of the build of each attempt
    generated,     \* stored lifecycle of what each attempt generated
    registration,  \* the registration is stored
    announced      \* the last capability.build_failed that was stored says "terminal"

records == <<builds, generated, registration>>
buildVars == <<build, status, registered, records, announced>>

Attempt == 1..MaxAttempts

\* Errors by what the loop does with them: "local" ones are tried again, a
\* missed deadline ends the loop but is as local, anything else is global.
Error == {"local", "deadline", "global", "sandbox"}

\* Inside the try, and in its except block.
Trying == {"generating", "recordBuild", "recordGenerated", "validating", "activating",
           "registering", "recordRegistration", "resuming"}
Rejecting == {"marking", "failing", "announcing"}
InLoop == {"requesting"} \cup Trying \cup Rejecting
Place == {"idle", "specifying", "available", "raised"} \cup InLoop

Lifecycle == {"none", "SPEC_APPROVED", "GENERATED", "FINANCIAL_VALIDATED", "TASK_APPROVED",
              "ACTIVE_FOR_SCOPE", "BUILD_FAILED"}

\* The task runs; an earlier attempt of it may have registered the capability.
BuildInit ==
    /\ build = [at |-> "idle", attempt |-> 0, lifecycle |-> "none", error |-> "none"]
    /\ status = "RUNNING"
    /\ registered \in BOOLEAN
    /\ builds = [a \in Attempt |-> "none"]
    /\ generated = [a \in Attempt |-> "none"]
    /\ registration = FALSE
    /\ announced = FALSE

-----------------------------------------------------------------------------
(* Records: each is a transaction of its own.                               *)

StoreBuild(lifecycle) ==
    /\ builds' = [builds EXCEPT ![build.attempt] = lifecycle]
    /\ UNCHANGED <<generated, registration>>

StoreGenerated(lifecycle) ==
    /\ generated' = [generated EXCEPT ![build.attempt] = lifecycle]
    /\ UNCHANGED <<builds, registration>>

StoreRegistration == registration' = TRUE /\ UNCHANGED <<builds, generated>>

\* A slip: what was registered is marked too.
MarkFailedAlways ==
    IF build.lifecycle = "none" THEN UNCHANGED records ELSE StoreGenerated("BUILD_FAILED")

\* What is registered stays active, though a later record fails.
MarkFailed ==
    IF build.lifecycle \in {"none", "ACTIVE_FOR_SCOPE"}
    THEN UNCHANGED records
    ELSE StoreGenerated("BUILD_FAILED")

\* The record that is written where the build is, if it is one.
Store ==
    \/ build.at = "requesting" /\ StoreBuild("SPEC_APPROVED")
    \/ build.at = "recordBuild" /\ StoreBuild(build.lifecycle)
    \/ build.at = "recordGenerated" /\ StoreGenerated(build.lifecycle)
    \/ build.at = "recordRegistration" /\ StoreRegistration
    \/ build.at = "marking" /\ MarkFailed
    \/ build.at = "failing" /\ StoreBuild("BUILD_FAILED")

AfterRecords ==
    CASE build.lifecycle = "GENERATED" -> "validating"
      [] build.lifecycle = "FINANCIAL_VALIDATED" -> "activating"
      [] build.lifecycle = "TASK_APPROVED" -> "registering"
      [] OTHER -> "recordRegistration"

AfterStore ==
    CASE build.at = "requesting" -> "generating"
      [] build.at = "recordBuild" -> "recordGenerated"
      [] build.at = "recordGenerated" -> AfterRecords
      [] build.at = "recordRegistration" -> "resuming"
      [] build.at = "marking" -> "failing"
      [] OTHER -> "announcing"

Record ==
    /\ Store
    /\ build' = [build EXCEPT !.at = AfterStore]
    /\ UNCHANGED <<status, registered, announced>>

-----------------------------------------------------------------------------

Moves(from, to) == build.at = from /\ build' = [build EXCEPT !.at = to]

\* What was generated reaches a lifecycle, in memory: its records come next.
Becomes(from, lifecycle) ==
    /\ build.at = from
    /\ build' = [build EXCEPT !.at = "recordBuild", !.lifecycle = lifecycle]
    /\ UNCHANGED <<status, records, announced>>

Raises(error) == build' = [build EXCEPT !.at = "raised", !.error = error]

Found ==
    /\ registered
    /\ Moves("idle", "available")
    /\ UNCHANGED <<status, registered, records, announced>>

Gap ==
    /\ ~registered
    /\ Moves("idle", "specifying")
    /\ status' = "WAITING_FOR_CAPABILITY"
    /\ UNCHANGED <<registered, records, announced>>

ApproveSpec ==
    /\ build.at = "specifying"
    /\ build' = [build EXCEPT !.at = "requesting", !.attempt = 1]
    /\ UNCHANGED <<status, registered, records, announced>>

\* The announcement of the refusal may fail to be stored.
RefuseSpec ==
    /\ build.at = "specifying"
    /\ Raises("global")
    /\ status' = "CAPABILITY_BUILD_FAILED"
    /\ announced' \in BOOLEAN
    /\ UNCHANGED <<registered, records>>

Generate == Becomes("generating", "GENERATED") /\ UNCHANGED registered

Validate == Becomes("validating", "FINANCIAL_VALIDATED") /\ UNCHANGED registered

\* The sandbox does not start: nothing is said of the formula, and nothing is
\* generated again.  Where its event fails, so does the build.
SandboxUnavailable ==
    /\ build.at = "validating"
    /\ \E error \in {"sandbox", "global"} : Raises(error)
    /\ status' = "RUNNING"
    /\ UNCHANGED <<registered, records, announced>>

Activate == Becomes("activating", "TASK_APPROVED") /\ UNCHANGED registered

\* The registry changes before any record does; what it returns is a copy of what
\* it was given, so the comparison of the two that follows cannot fail.
Register == Becomes("registering", "ACTIVE_FOR_SCOPE") /\ registered' = TRUE

\* READY and at once RUNNING.
Resume ==
    /\ Moves("resuming", "available")
    /\ status' = "RUNNING"
    /\ UNCHANGED <<registered, records, announced>>

\* Generation and validation fail locally where local_build_failure accepts the
\* error; a record, event, retention, approval or registration never does.
Failures(place) ==
    CASE place = "generating" -> {"local", "deadline", "global"}
      [] place = "validating" -> {"local", "global"}
      [] OTHER -> {"global"}

\* A record whose write fails may have been stored, its answer lost.  The task is
\* RUNNING again when it is the event of its resumption that fails.
Reject ==
    /\ build.at \in Trying
    /\ \E error \in Failures(build.at) :
           build' = [build EXCEPT !.at = "marking", !.error = error]
    /\ Store \/ UNCHANGED records
    /\ status' \in IF build.at = "resuming" THEN {status, "RUNNING"} ELSE {status}
    /\ UNCHANGED <<registered, announced>>

\* "terminal" in the payload of capability.build_failed, and the break of the
\* loop: two expressions that must agree.
Terminal == build.attempt = MaxAttempts \/ build.error \in {"deadline", "global"}
Breaks == build.error \in {"deadline", "global"}

\* A slip: one attempt too many.
LastAttemptLate == build.attempt > MaxAttempts

LastAttempt == build.attempt = MaxAttempts

TryAgain ==
    /\ ~Breaks /\ ~LastAttempt
    /\ build' = [at |-> "requesting", attempt |-> build.attempt + 1,
                 lifecycle |-> "none", error |-> "none"]
    /\ UNCHANGED status

GiveUp ==
    /\ Breaks \/ LastAttempt
    /\ Raises(build.error)
    /\ status' = "CAPABILITY_BUILD_FAILED"

\* The end of the except block: both records of the attempt are written, its
\* failure is announced, and the loop goes on or ends.
Announce ==
    /\ build.at = "announcing"
    /\ announced' = Terminal
    /\ TryAgain \/ GiveUp
    /\ UNCHANGED <<registered, records>>

\* A record or event fails outside the try, the except block's own included: the
\* task is left as it is.
StoreFails ==
    /\ build.at \in {"specifying", "requesting"} \cup Rejecting
    /\ Raises("global")
    /\ Store \/ UNCHANGED records
    /\ announced' \in IF build.at = "announcing" THEN {announced, Terminal} ELSE {announced}
    /\ UNCHANGED <<status, registered>>

BuildStep ==
    \/ ApproveSpec \/ RefuseSpec \/ Generate \/ Validate \/ SandboxUnavailable \/ Activate
    \/ Register \/ Record \/ Resume \/ Reject \/ Announce \/ StoreFails

-----------------------------------------------------------------------------

BuildTypeOK ==
    /\ build \in [at : Place, attempt : 0..MaxAttempts, lifecycle : Lifecycle,
                  error : Error \cup {"none"}]
    /\ status \in {"RUNNING", "WAITING_FOR_CAPABILITY", "CAPABILITY_BUILD_FAILED"}
    /\ registered \in BOOLEAN
    /\ builds \in [Attempt -> Lifecycle]
    /\ generated \in [Attempt -> Lifecycle]
    /\ registration \in BOOLEAN
    /\ announced \in BOOLEAN

\* What the records may say of a registry that changes before them, whichever
\* write fails (lookup_or_build).  No record runs ahead: ACTIVE_FOR_SCOPE or a
\* registration is stored only of the attempt that is registered.  What is
\* registered was recorded as approved and is never marked BUILD_FAILED, though
\* its build may be.  A resumed task has its capability active in every record.
\* An attempt is recorded as failed before the next begins.  No attempt follows
\* a failure announced as terminal, and a task that gave up has announced and
\* recorded it.
RecordsFollowRegistry ==
    /\ \A a \in Attempt : "ACTIVE_FOR_SCOPE" \in {builds[a], generated[a]} =>
           registered /\ a = build.attempt
    /\ registration => registered /\ build.attempt # 0
    /\ registered /\ build.attempt # 0 =>
           generated[build.attempt] \in {"TASK_APPROVED", "ACTIVE_FOR_SCOPE"}
    /\ build.at = "available" /\ build.attempt # 0 =>
           /\ builds[build.attempt] = "ACTIVE_FOR_SCOPE"
           /\ generated[build.attempt] = "ACTIVE_FOR_SCOPE"
           /\ registered /\ registration
    /\ \A a \in Attempt : a < build.attempt =>
           builds[a] = "BUILD_FAILED" /\ generated[a] \in {"none", "BUILD_FAILED"}
    /\ announced => build.at = "raised"
    /\ status = "CAPABILITY_BUILD_FAILED" /\ build.attempt # 0 =>
           announced /\ builds[build.attempt] = "BUILD_FAILED"

=============================================================================
