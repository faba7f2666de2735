----------------------------- MODULE ActualGraph -----------------------------
(***************************************************************************)
(* The actual task graph of a run as data, and the pure functions the      *)
(* runtime computes on it: dependency resolution                           *)
(* (src/runtime/output_dependencies.py), the scheduler's admit, block and  *)
(* promote passes (src/runtime/scheduler.py), and the staged mutation of   *)
(* GraphMutationService (src/runtime/graph.py).                            *)
(*                                                                         *)
(* A graph is a value.  The code replaces the whole object when it mutates *)
(* the graph, so `copy' identifies the Python object: two graphs with the  *)
(* same copy are the same object, and a reference to a task of one copy    *)
(* says nothing about another.  A task has at most one available and one   *)
(* degraded output; the requirement of a task names producing tasks.       *)
(***************************************************************************)
EXTENDS Integers, TaskLifecycle

CONSTANTS
    Task,       \* every task identity a plan or a replan may use
    Planned,    \* the tasks of the approved plan
    PlannedDeps,\* [Task -> SUBSET Task], the plan's edges
    Required,   \* tasks that carry an output contract (output_requirements)
    HardInput,  \* [Task -> SUBSET Task], producers whose output is hard_required
    AnyInput    \* [Task -> SUBSET SUBSET Task], the any_of groups

OutputKind == { "available", "degraded" }

Graph == [ tasks   : SUBSET Task,
           status  : [Task -> TaskStatus],
           deps    : [Task -> SUBSET Task],
           outputs : [Task -> SUBSET OutputKind],
           version : Nat,
           copy    : Nat ]

\* Every edge names a task of the graph and no non-empty set of tasks waits
\* only on itself: what the peeling loop of _validate_graph and of
\* RuntimeState.create accepts.
WellFormed(tasks, deps) ==
    /\ \A t \in tasks : deps[t] \subseteq tasks
    /\ \A S \in SUBSET tasks :
          S # {} => \E t \in S : deps[t] \cap S = {}

ASSUME PlanAssumption ==
    /\ Planned \subseteq Task
    /\ PlannedDeps \in [Task -> SUBSET Task]
    /\ \A t \in Task \ Planned : PlannedDeps[t] = {}
    /\ WellFormed(Planned, PlannedDeps)
    /\ Required \subseteq Task
    /\ HardInput \in [Task -> SUBSET Task]
    /\ AnyInput \in [Task -> SUBSET SUBSET Task]

\* RuntimeState.create: the actual graph starts as a copy of the plan.
PlannedGraph ==
    [ tasks   |-> Planned,
      status  |-> [t \in Task |-> "CREATED"],
      deps    |-> PlannedDeps,
      outputs |-> [t \in Task |-> {}],
      version |-> 1,
      copy    |-> 0 ]

SetStatus(g, t, s) == [g EXCEPT !.status[t] = s]

InStatus(g, S) == { t \in g.tasks : g.status[t] \in S }

-----------------------------------------------------------------------------
(* Dependency resolution                                                   *)

\* Every task t waits on, directly or not.
Ancestors(g, t) ==
    { a \in Task :
        \A S \in SUBSET Task :
            (g.deps[t] \subseteq S /\ \A b \in S : g.deps[b] \subseteq S)
                => a \in S }

\* evidence_sufficiency: nothing the contract of t requires is missing.
ContractMet(g, t) ==
    LET available == { a \in Ancestors(g, t) : "available" \in g.outputs[a] }
    IN  /\ HardInput[t] \subseteq available
        /\ \A group \in AnyInput[t] : group \cap available # {}

\* Altered form of Resolve: any settled predecessor satisfies an edge.
ResolveOnSettled(g, t) ==
    IF \A p \in g.deps[t] : g.status[p] \in Settled THEN "READY" ELSE "WAITING"

\* resolve_outputs: without a contract every predecessor must complete; with
\* one, the predecessors must settle and the contract decides.
Resolve(g, t) ==
    IF t \notin Required
    THEN IF \A p \in g.deps[t] : g.status[p] = "COMPLETED" THEN "READY"
         ELSE IF \E p \in g.deps[t] : g.status[p] \in Settled \ {"COMPLETED"}
              THEN "BLOCKED" ELSE "WAITING"
    ELSE IF \E p \in g.deps[t] : g.status[p] \notin Settled THEN "WAITING"
         ELSE IF ContractMet(g, t) THEN "READY" ELSE "BLOCKED"

\* ExecutionContinuationGate.settled_for_review
SettledForReview(g) ==
    /\ \A t \in g.tasks : g.status[t] \in Settled
    /\ g.tasks \cap Required # {}

AllCompleted(g) == \A t \in g.tasks : g.status[t] = "COMPLETED"

-----------------------------------------------------------------------------
(* The scheduler's passes over the graph                                   *)

\* _admit_created_tasks
Admit(g) ==
    [g EXCEPT !.status =
        [t \in Task |-> IF t \in g.tasks /\ @[t] = "CREATED" THEN "WAITING" ELSE @[t]]]

WithStatus(g, S, s) ==
    [g EXCEPT !.status = [t \in Task |-> IF t \in S THEN s ELSE @[t]]]

\* _block_failed_dependents repeats its pass until nothing changes: the least
\* set of WAITING tasks closed under "resolves to BLOCKED once these are".
BlockFailedDependents(g) ==
    LET waiting == InStatus(g, {"WAITING"})
        Closed(B) == \A t \in waiting :
                        Resolve(WithStatus(g, B, "BLOCKED"), t) = "BLOCKED" => t \in B
        blocked == { t \in waiting : \A B \in SUBSET waiting : Closed(B) => t \in B }
    IN  WithStatus(g, blocked, "BLOCKED")

\* _promote_ready_tasks goes through the list once, and a task it promotes is
\* settled no more for those that come after: the sets of tasks that the pass
\* promotes, over every order of the list.
Promotions(g) ==
    LET candidates == { t \in InStatus(g, {"WAITING", "BLOCKED"}) : Resolve(g, t) = "READY" }
    IN  { ready \in SUBSET candidates :
            \A t \in candidates \ ready : g.deps[t] \cap ready # {} }

\* The sweep in the scheduler's CancelledError handler.
CancelTasks(g) == WithStatus(g, g.tasks \ InStatus(g, TerminalTaskStatus), "CANCELLED")

-----------------------------------------------------------------------------
(* Graph mutation.  A mutation is what one approved replan asks for:       *)
(*   requester   the task whose executor applies it                        *)
(*   authorised  _validate_authority accepts the actor and the request     *)
(*   added       new tasks, with their own edges newDeps                   *)
(*   plus, minus edges <<source, target>> to add and to remove             *)

MutationType ==
    [ requester : Task, authorised : BOOLEAN, added : SUBSET Task,
      newDeps : [Task -> SUBSET Task], plus : SUBSET (Task \X Task),
      minus : SUBSET (Task \X Task) ]

\* The edges the operations start from: new nodes bring their own.
BaseDeps(g, m) == [t \in Task |-> IF t \in m.added THEN m.newDeps[t] ELSE g.deps[t]]

\* Altered form of Staged: rebuilding the graph without the tasks' progress.
StagedFresh(g, m, copy) ==
    [ tasks   |-> g.tasks \cup m.added,
      status  |-> [t \in Task |-> IF g.status[t] = "COMPLETED" THEN "CREATED" ELSE g.status[t]],
      deps    |-> [t \in Task |->
                     (BaseDeps(g, m)[t] \ { s \in Task : <<s, t>> \in m.minus })
                        \cup { s \in Task : <<s, t>> \in m.plus }],
      outputs |-> g.outputs,
      version |-> g.version + 1,
      copy    |-> copy ]

\* The graph the operations build on a deep copy of g.
Staged(g, m, copy) ==
    [ tasks   |-> g.tasks \cup m.added,
      status  |-> [t \in Task |-> IF t \in m.added THEN "CREATED" ELSE g.status[t]],
      deps    |-> [t \in Task |->
                     (BaseDeps(g, m)[t] \ { s \in Task : <<s, t>> \in m.minus })
                        \cup { s \in Task : <<s, t>> \in m.plus }],
      outputs |-> [t \in Task |-> IF t \in m.added THEN {} ELSE g.outputs[t]],
      version |-> g.version + 1,
      copy    |-> copy ]

\* Altered form of Admissible: a staged graph nobody validates.
AdmissibleUnvalidated(g, m) ==
    /\ m.authorised /\ m.requester \in g.tasks
    /\ \A e \in m.plus : e[1] \in g.tasks \cup m.added /\ e[2] \in g.tasks \cup m.added

\* What _validate_authority, _apply_operation and _validate_graph require.
Admissible(g, m) ==
    LET known == g.tasks \cup m.added
        staged == Staged(g, m, g.copy)
    IN  /\ m.authorised
        /\ m.requester \in g.tasks
        /\ m.added \cap g.tasks = {}
        /\ \A e \in m.plus \cup m.minus :
              /\ e[1] \in known /\ e[2] \in known
              /\ staged.status[e[2]] \notin DependencyImmutable
        /\ \A e \in m.plus  : e[1] \notin BaseDeps(g, m)[e[2]]
        /\ \A e \in m.minus : e[1] \in BaseDeps(g, m)[e[2]]
        /\ WellFormed(staged.tasks, staged.deps)

\* invalidate_ready_state
InvalidateReady(g) ==
    WithStatus(g,
        { t \in InStatus(g, {"READY"}) :
            \E p \in g.deps[t] : p \notin InStatus(g, {"COMPLETED"}) },
        "WAITING")

=============================================================================
