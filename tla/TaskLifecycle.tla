---------------------------- MODULE TaskLifecycle ----------------------------
(***************************************************************************)
(* The task lifecycle of the runtime: the statuses of a task, the          *)
(* transition table every checked status change consults                   *)
(* (src/runtime/lifecycle.py), and the two status classes other            *)
(* components read from it.                                                *)
(***************************************************************************)

TaskStatus ==
    { "CREATED", "WAITING", "READY", "RUNNING", "WAITING_FOR_CAPABILITY",
      "SELF_CORRECTING", "BLOCKED", "REVIEW", "COMPLETED", "FAILED",
      "CAPABILITY_BUILD_FAILED", "CANCELLED" }

\* The statuses transition_task may move a task of status s to.
AllowedTransitions ==
    [ s \in TaskStatus |->
        CASE s = "CREATED" -> { "WAITING", "READY", "CANCELLED" }
          [] s = "WAITING" -> { "READY", "BLOCKED", "CANCELLED" }
          [] s = "READY"   -> { "RUNNING", "CANCELLED" }
          [] s = "RUNNING" -> { "READY", "WAITING_FOR_CAPABILITY",
                                "SELF_CORRECTING", "REVIEW", "COMPLETED",
                                "FAILED", "CANCELLED" }
          [] s = "WAITING_FOR_CAPABILITY" ->
                 { "READY", "BLOCKED", "CAPABILITY_BUILD_FAILED", "CANCELLED" }
          [] s = "SELF_CORRECTING" ->
                 { "READY", "RUNNING", "FAILED", "CANCELLED" }
          [] s = "BLOCKED" -> { "READY", "CANCELLED" }
          [] s = "REVIEW"  -> { "COMPLETED", "FAILED", "CANCELLED" }
          [] s = "CAPABILITY_BUILD_FAILED" ->
                 { "READY", "BLOCKED", "FAILED", "CANCELLED" }
          [] OTHER -> {} ]

\* transition_task: a no-op when the status is already the target, otherwise
\* the table decides; when this is false the code raises
\* InvalidTaskTransition and leaves the task alone.
CanTransition(s, target) == target = s \/ target \in AllowedTransitions[s]

\* Statuses the cancellation sweep of the scheduler leaves alone.
TerminalTaskStatus ==
    { "COMPLETED", "FAILED", "CAPABILITY_BUILD_FAILED", "CANCELLED" }

\* Statuses in which a predecessor produces nothing more.
Settled == TerminalTaskStatus \cup { "BLOCKED" }

\* GraphMutationService._DEPENDENCY_IMMUTABLE_STATUSES.
DependencyImmutable ==
    { "RUNNING", "REVIEW", "COMPLETED", "FAILED", "CANCELLED" }

=============================================================================
