------------------------ MODULE TaskScheduler_proofs ------------------------
(***************************************************************************)
(* What TaskScheduler guarantees for every plan, every set of replans,     *)
(* every retry policy and every number of failed emissions: its types,     *)
(* that nothing is in flight once a run is closing, and that it keeps the  *)
(* promise of RunPromise to its caller.                                    *)
(***************************************************************************)
EXTENDS TaskScheduler, TLAPS

-----------------------------------------------------------------------------
(* The graph functions return graphs.                                      *)

LEMMA StatusFacts ==
    /\ {"COMPLETED", "FAILED", "CAPABILITY_BUILD_FAILED", "CANCELLED", "BLOCKED",
        "WAITING", "READY", "RUNNING", "WAITING_FOR_CAPABILITY", "CREATED"} \subseteq TaskStatus
  BY DEF TaskStatus

LEMMA SetStatusType ==
    ASSUME NEW g \in Graph, NEW t \in Task, NEW s \in TaskStatus
    PROVE  SetStatus(g, t, s) \in Graph
  BY DEF SetStatus, Graph

LEMMA WithStatusType ==
    ASSUME NEW g \in Graph, NEW S, NEW s \in TaskStatus
    PROVE  WithStatus(g, S, s) \in Graph
  BY DEF WithStatus, Graph

LEMMA AdmitType ==
    ASSUME NEW g \in Graph
    PROVE  Admit(g) \in Graph
  BY DEF Admit, Graph, TaskStatus

LEMMA BlockFailedDependentsType ==
    ASSUME NEW g \in Graph
    PROVE  BlockFailedDependents(g) \in Graph
  BY WithStatusType, StatusFacts DEF BlockFailedDependents

LEMMA CancelTasksType ==
    ASSUME NEW g \in Graph
    PROVE  CancelTasks(g) \in Graph
  BY WithStatusType, StatusFacts DEF CancelTasks

LEMMA InvalidateReadyType ==
    ASSUME NEW g \in Graph
    PROVE  InvalidateReady(g) \in Graph
  BY WithStatusType, StatusFacts DEF InvalidateReady

LEMMA PublishType ==
    ASSUME NEW g \in Graph, NEW t \in Task, NEW outs \in Publishable
    PROVE  Publish(g, t, outs) \in Graph
  <1>1. outs \subseteq OutputKind
    BY SchedulerAssumption
  <1>2. QED
    BY <1>1 DEF Publish, Graph

LEMMA StagedType ==
    ASSUME NEW g \in Graph, NEW m \in Mutations, NEW c \in Nat
    PROVE  Staged(g, m, c) \in Graph
  <1>1. m \in MutationType
    BY SchedulerAssumption
  <1>2. /\ m.added \subseteq Task
        /\ m.newDeps \in [Task -> SUBSET Task]
        /\ g.tasks \cup m.added \in SUBSET Task
    BY <1>1 DEF MutationType, Graph
  <1>3. BaseDeps(g, m) \in [Task -> SUBSET Task]
    BY <1>2 DEF BaseDeps, Graph
  <1>4. Staged(g, m, c).status \in [Task -> TaskStatus]
    BY <1>2, StatusFacts DEF Staged, Graph
  <1>5. Staged(g, m, c).deps \in [Task -> SUBSET Task]
    BY <1>3 DEF Staged
  <1>6. Staged(g, m, c).outputs \in [Task -> SUBSET OutputKind]
    BY <1>2 DEF Staged, Graph
  <1>7. g.version + 1 \in Nat
    BY DEF Graph
  <1>8. QED
    BY <1>2, <1>4, <1>5, <1>6, <1>7 DEF Staged, Graph

LEMMA PlannedGraphType == PlannedGraph \in Graph
  BY PlanAssumption, StatusFacts DEF PlannedGraph, Graph

LEMMA PromotionsType ==
    ASSUME NEW g \in Graph
    PROVE  Promotions(g) \subseteq SUBSET Task
  BY DEF Promotions, InStatus, Graph

-----------------------------------------------------------------------------
(* Type correctness                                                        *)

LEMMA InitType == Init => TypeOK
  <1> SUFFICES ASSUME Init PROVE TypeOK
    OBVIOUS
  <1>1. PlannedGraph \in Graph
    BY PlannedGraphType
  <1>2. events \in EventLog /\ checkpoint \in Checkpoint
    BY <1>1 DEF Init, EventLog, Checkpoint, RunStatus
  <1>3. mutation \in [Task -> [original : Graph, added : SUBSET Task]]
    BY <1>1 DEF Init, NoMutation
  <1>4. QED
    BY <1>1, <1>2, <1>3
    DEF Init, TypeOK, RunStatus, MainPlace, CoPlace, Result, Idle

\* Every step of the scheduler coroutine and every cancellation of the run.
LEMMA SchedulerStepType == TypeOK /\ (SchedulerStep \/ CancelRun) => TypeOK'
  <1> SUFFICES ASSUME TypeOK, SchedulerStep \/ CancelRun PROVE TypeOK'
    OBVIOUS
  <1> USE DEF TypeOK, coVars
  <1>1. faults + 1 \in Nat
    OBVIOUS
  <1>2. CASE Begin
    BY <1>2, AdmitType DEF Begin, RunStatus, MainPlace
  <1>3. CASE RunStarted
    BY <1>1, <1>3 DEF RunStarted, Raises, MainPlace
  <1>4. CASE FormWave
    <2> DEFINE admitted == Admit(graph)
               blocked == BlockFailedDependents(admitted)
    <2>1. /\ admitted \in Graph /\ blocked \in Graph
          /\ Promotions(blocked) \subseteq SUBSET Task
      BY AdmitType, BlockFailedDependentsType, PromotionsType
    <2>2. \A ready : WithStatus(blocked, ready, "READY") \in Graph
      BY <2>1, WithStatusType, StatusFacts
    <2> HIDE DEF admitted, blocked
    <2>3. /\ \/ graph' = admitted /\ UNCHANGED wave
             \/ \E ready \in Promotions(blocked) :
                   graph' = WithStatus(blocked, ready, "READY") /\ wave' = ready
          /\ runStatus' \in {runStatus, "REVIEW", "FAILED"}
          /\ main' \in {"announcing", "closing"}
      BY <1>4 DEF FormWave, admitted, blocked
    <2>4. graph' \in Graph /\ wave' \in SUBSET Task
      BY <2>1, <2>2, <2>3
    <2>5. QED
      BY <1>4, <2>3, <2>4 DEF FormWave, RunStatus, MainPlace
  <1>5. CASE WaveAnnounced
    BY <1>1, <1>5 DEF WaveAnnounced, Raises, MainPlace, CoPlace, Result
  <1>6. CASE WaveSettled
    BY <1>6, CancelTasksType DEF WaveSettled, EnterCancellation, RunStatus, MainPlace
  <1>7. CASE WaveCheckpointed
    <2>1. [graph |-> graph, runStatus |-> runStatus] \in Checkpoint
      BY DEF Checkpoint
    <2>2. BlockFailedDependents(graph) \in Graph
      BY BlockFailedDependentsType
    <2>3. Idle \in [Task -> CoPlace]
      BY DEF Idle, CoPlace
    <2>4. QED
      BY <1>1, <1>7, <2>1, <2>2, <2>3
      DEF WaveCheckpointed, SaveCheckpoint, Raises, RunStatus, MainPlace
  <1>8. CASE RunClosed
    <2>1. [events EXCEPT !.terminal = "FAILED"] \in EventLog
      BY DEF EventLog
    <2>2. QED
      BY <1>1, <1>8, <2>1 DEF RunClosed, Raises, MainPlace
  <1>9. CASE CancellationClosed
    <2>1. [events EXCEPT !.terminal = "CANCELLED"] \in EventLog
      BY DEF EventLog
    <2>2. QED
      BY <1>1, <1>9, <2>1 DEF CancellationClosed, Raises, MainPlace
  <1>10. CASE RunSealed
    <2>1. [graph |-> graph, runStatus |-> runStatus] \in Checkpoint
      BY DEF Checkpoint
    <2>2. QED
      BY <1>1, <1>10, <2>1 DEF RunSealed, SaveCheckpoint, Raises, MainPlace
  <1>11. CASE CancelRun
    <2>1. [events EXCEPT !.terminal = "FAILED"] \in EventLog
      BY DEF EventLog
    <2>2. CancelTasks(graph) \in Graph
      BY CancelTasksType
    <2>3. events' \in EventLog
      BY <1>11, <2>1 DEF CancelRun
    <2>4. graph' \in Graph /\ runStatus' \in RunStatus /\ main' \in MainPlace
      BY <1>11, <2>2 DEF CancelRun, EnterCancellation, RunStatus, MainPlace
    <2>5. QED
      BY <1>11, <2>3, <2>4 DEF CancelRun
  <1>12. QED
    BY <1>2, <1>3, <1>4, <1>5, <1>6, <1>7, <1>8, <1>9, <1>10, <1>11 DEF SchedulerStep

LEMMA GoType ==
    ASSUME TypeOK, NEW t \in Task, NEW place \in CoPlace, Go(t, place)
    PROVE  co' \in [Task -> CoPlace]
  BY DEF TypeOK, Go

LEMMA EndType ==
    ASSUME TypeOK, NEW t \in Task, NEW r \in Result, End(t, r)
    PROVE  co' \in [Task -> CoPlace] /\ result' \in [Task -> Result]
  BY DEF TypeOK, End, Go, CoPlace

LEMMA HandleErrorType ==
    ASSUME TypeOK, NEW t \in Task, NEW kind \in ErrorKind, NEW g \in Graph,
           HandleError(t, kind, g)
    PROVE  /\ graph' \in Graph
           /\ co' \in [Task -> CoPlace]
           /\ result' \in [Task -> Result]
  <1>1. SetStatus(g, t, "READY") \in Graph /\ SetStatus(g, t, "FAILED") \in Graph
    BY SetStatusType, StatusFacts
  <1>2. graph' \in Graph
    BY <1>1 DEF HandleError
  <1>3. kind \in Result /\ "error" \in Result
    BY DEF Result, ErrorKind
  <1>4. \/ Go(t, "failing") /\ result' = [result EXCEPT ![t] = kind]
        \/ Go(t, "backoff") /\ result' = result
        \/ End(t, "error")
    BY DEF HandleError
  <1>5. result \in [Task -> Result] /\ co \in [Task -> CoPlace]
    BY DEF TypeOK
  <1>6. result' \in [Task -> Result]
    BY <1>3, <1>4, <1>5 DEF End
  <1>7. co' \in [Task -> CoPlace]
    BY <1>4, <1>5 DEF End, Go, CoPlace
  <1>8. QED
    BY <1>2, <1>6, <1>7

\* Every step of a task's coroutine.
LEMMA CoroutineStepType ==
    ASSUME TypeOK, NEW t \in Task, CoroutineStep(t)
    PROVE  TypeOK'
  <1> USE DEF coUnchanged
  <1>0. /\ {"starting", "executing", "building", "mutating", "failing", "completing", "ended"}
              \subseteq CoPlace
        /\ {"error", "ok", "cancelled"} \subseteq Result
        /\ "error" \in ErrorKind
        /\ faults + 1 \in Nat /\ copies + 1 \in Nat
        /\ NoMutation \in [original : Graph, added : SUBSET Task]
    BY PlannedGraphType DEF CoPlace, Result, ErrorKind, NoMutation, TypeOK
  <1>1. CASE BeginAttempt(t)
    <2>1. SetStatus(graph, t, "RUNNING") \in Graph
      BY SetStatusType, StatusFacts DEF TypeOK
    <2>2. co' \in [Task -> CoPlace]
      BY <1>0, <1>1, GoType DEF BeginAttempt
    <2>3. attempts' \in [Task -> Nat]
      BY <1>1 DEF BeginAttempt, TypeOK
    <2>4. QED
      BY <1>1, <2>1, <2>2, <2>3 DEF BeginAttempt, TypeOK
  <1>2. CASE StartAnnounced(t)
    <2>1. co' \in [Task -> CoPlace]
      BY <1>0, <1>2, GoType DEF StartAnnounced
    <2>2. QED
      BY <1>2, <2>1 DEF StartAnnounced, TypeOK
  <1>3. CASE EmissionRaises(t)
    <2>1. co' \in [Task -> CoPlace] /\ result' \in [Task -> Result]
      BY <1>0, <1>3, EndType DEF EmissionRaises
    <2>2. QED
      BY <1>0, <1>3, <2>1 DEF EmissionRaises, Raises, TypeOK
  <1>4. CASE ExecutorReturns(t)
    <2>1. PICK outs \in Publishable :
             \/ /\ graph' = SetStatus(Publish(graph, t, outs), t, "COMPLETED")
                /\ Go(t, "completing") /\ result' = result
             \/ graph' = Publish(graph, t, outs) /\ End(t, "error")
      BY <1>4 DEF ExecutorReturns
    <2>2. Publish(graph, t, outs) \in Graph
      BY PublishType DEF TypeOK
    <2>3. SetStatus(Publish(graph, t, outs), t, "COMPLETED") \in Graph
      BY <2>2, SetStatusType, StatusFacts
    <2>4. graph' \in Graph /\ co' \in [Task -> CoPlace] /\ result' \in [Task -> Result]
      BY <1>0, <2>1, <2>2, <2>3, GoType, EndType DEF TypeOK
    <2>5. QED
      BY <1>4, <2>4 DEF ExecutorReturns, TypeOK
  <1>5. CASE CompletionAnnounced(t)
    <2>1. co' \in [Task -> CoPlace] /\ result' \in [Task -> Result]
      BY <1>0, <1>5, EndType DEF CompletionAnnounced
    <2>2. [events EXCEPT !.completed = @ \cup {t}] \in EventLog
      BY DEF TypeOK, EventLog
    <2>3. QED
      BY <1>5, <2>1, <2>2 DEF CompletionAnnounced, TypeOK
  <1>6. CASE ExecutorRaises(t)
    <2>1. PICK kind \in ErrorKind, outs \in Publishable :
             HandleError(t, kind, Publish(graph, t, outs))
      BY <1>6 DEF ExecutorRaises
    <2>2. Publish(graph, t, outs) \in Graph
      BY PublishType DEF TypeOK
    <2>3. graph' \in Graph /\ co' \in [Task -> CoPlace] /\ result' \in [Task -> Result]
      BY <2>1, <2>2, HandleErrorType
    <2>4. QED
      BY <1>6, <2>3 DEF ExecutorRaises, TypeOK
  <1>7. CASE FailureAnnounced(t)
    <2>1. co' \in [Task -> CoPlace]
      BY <1>0, <1>7, GoType DEF FailureAnnounced
    <2>2. [events EXCEPT !.failed = @ \cup {t}] \in EventLog
      BY DEF TypeOK, EventLog
    <2>3. QED
      BY <1>7, <2>1, <2>2 DEF FailureAnnounced, TypeOK
  <1>8. ASSUME NEW m \in Mutations, Mutate(t, m) PROVE TypeOK'
    <2>1. Staged(graph, m, copies + 1) \in Graph
      BY <1>0, StagedType DEF TypeOK
    <2>2. InvalidateReady(Staged(graph, m, copies + 1)) \in Graph
      BY <2>1, InvalidateReadyType
    <2>3. m.added \in SUBSET Task
      BY SchedulerAssumption DEF MutationType
    <2>4. mutation' \in [Task -> [original : Graph, added : SUBSET Task]]
      BY <1>8, <2>3 DEF Mutate, TypeOK
    <2>5. co' \in [Task -> CoPlace]
      BY <1>0, <1>8, GoType DEF Mutate
    <2>6. used' \in SUBSET Mutations
      BY <1>8 DEF Mutate, TypeOK
    <2>7. QED
      BY <1>0, <1>8, <2>2, <2>4, <2>5, <2>6 DEF Mutate, TypeOK
  <1>9. ASSUME NEW m \in Mutations, MutationRefused(t, m) PROVE TypeOK'
    <2>1. graph' \in Graph /\ co' \in [Task -> CoPlace] /\ result' \in [Task -> Result]
      BY <1>0, <1>9, HandleErrorType DEF MutationRefused, TypeOK
    <2>2. used' \in SUBSET Mutations
      BY <1>9 DEF MutationRefused, TypeOK
    <2>3. QED
      BY <1>9, <2>1, <2>2 DEF MutationRefused, TypeOK
  <1>10. CASE MutationAudited(t)
    <2>1. co' \in [Task -> CoPlace]
      BY <1>0, <1>10, GoType DEF MutationAudited
    <2>2. mutation' \in [Task -> [original : Graph, added : SUBSET Task]]
      BY <1>0, <1>10 DEF MutationAudited, TypeOK
    <2>3. mutation[t].added \in SUBSET Task /\ graph.version \in Nat
      BY DEF TypeOK, Graph
    <2>4. [events EXCEPT !.added = @ \cup mutation[t].added,
                         !.versions = @ \cup {graph.version}] \in EventLog
      BY <2>3 DEF TypeOK, EventLog
    <2>5. QED
      BY <1>10, <2>1, <2>2, <2>4 DEF MutationAudited, TypeOK
  <1>11. CASE MutationRolledBack(t)
    <2>1. /\ mutation[t].added \in SUBSET Task
          /\ mutation[t].original \in Graph
      BY DEF TypeOK
    <2>2. mutation' \in [Task -> [original : Graph, added : SUBSET Task]]
      BY <1>0, <1>11 DEF MutationRolledBack, TypeOK
    <2>3. PICK audited \in { {}, mutation[t].added } :
             events' = [events EXCEPT !.added = @ \cup audited]
      BY <1>11 DEF MutationRolledBack
    <2>4. audited \subseteq Task
      BY <2>1
    <2>5. events' \in EventLog
      BY <2>3, <2>4 DEF TypeOK, EventLog
    <2>6. graph' \in Graph /\ co' \in [Task -> CoPlace] /\ result' \in [Task -> Result]
      BY <1>0, <1>11, <2>1, HandleErrorType DEF MutationRolledBack
    <2>7. QED
      BY <1>0, <1>11, <2>2, <2>5, <2>6 DEF MutationRolledBack, Raises, TypeOK
  <1>12. CASE BeginBuild(t)
    <2>1. SetStatus(graph, t, "WAITING_FOR_CAPABILITY") \in Graph
      BY SetStatusType, StatusFacts DEF TypeOK
    <2>2. co' \in [Task -> CoPlace]
      BY <1>0, <1>12, GoType DEF BeginBuild
    <2>3. graph.copy \in Nat
      BY DEF TypeOK, Graph
    <2>4. builds' \in [Task -> Nat] /\ held' \in [Task -> Nat]
      BY <1>12, <2>3 DEF BeginBuild, TypeOK
    <2>5. QED
      BY <1>12, <2>1, <2>2, <2>4 DEF BeginBuild, TypeOK
  <1>13. CASE BuildEnds(t)
    <2> DEFINE Write(g, s) == IF g.copy = held[t] THEN SetStatus(g, t, s) ELSE g
    <2>1. PICK s \in { "RUNNING", "CAPABILITY_BUILD_FAILED" } : WriteHeld(t, s)
      BY <1>13 DEF BuildEnds
    <2>2. \A g \in Graph : Write(g, s) \in Graph
      BY SetStatusType, StatusFacts
    <2>3. /\ graph' = Write(graph, s)
          /\ mutation' = [u \in Task |-> [mutation[u] EXCEPT !.original = Write(@, s)]]
      BY <2>1 DEF WriteHeld
    <2> HIDE DEF Write
    <2>4. ASSUME NEW u \in Task
          PROVE  [mutation[u] EXCEPT !.original = Write(@, s)]
                    \in [original : Graph, added : SUBSET Task]
      <3>1. mutation[u] \in [original : Graph, added : SUBSET Task]
        BY DEF TypeOK
      <3>2. Write(mutation[u].original, s) \in Graph
        BY <2>2, <3>1
      <3>3. QED
        BY <3>1, <3>2
    <2>5. graph' \in Graph /\ mutation' \in [Task -> [original : Graph, added : SUBSET Task]]
      BY <2>2, <2>3, <2>4 DEF TypeOK
    <2>6. co' \in [Task -> CoPlace]
      BY <1>0, <1>13, GoType DEF BuildEnds
    <2>7. QED
      BY <1>13, <2>5, <2>6 DEF BuildEnds, TypeOK
  <1>14. CASE BuildInterrupted(t)
    <2>1. graph' \in Graph /\ co' \in [Task -> CoPlace] /\ result' \in [Task -> Result]
      BY <1>0, <1>14, HandleErrorType DEF BuildInterrupted, TypeOK
    <2>2. QED
      BY <1>0, <1>14, <2>1 DEF BuildInterrupted, Raises, TypeOK
  <1>15. CASE Abandon(t)
    <2>1. co' \in [Task -> CoPlace] /\ result' \in [Task -> Result]
      BY <1>0, <1>15, EndType DEF Abandon
    <2>2. graph' \in Graph
      BY <1>15, SetStatusType, StatusFacts DEF Abandon, TypeOK
    <2>3. /\ [events EXCEPT !.completed = @ \cup {t}] \in EventLog
          /\ [events EXCEPT !.failed = @ \cup {t}] \in EventLog
          /\ [events EXCEPT !.added = @ \cup mutation[t].added] \in EventLog
      <3>1. mutation[t].added \in SUBSET Task
        BY DEF TypeOK
      <3>2. QED
        BY <3>1 DEF TypeOK, EventLog
    <2>4. events' \in EventLog
      BY <1>15, <2>3 DEF Abandon, TypeOK
    <2>5. mutation' \in [Task -> [original : Graph, added : SUBSET Task]]
      BY <1>0, <1>15 DEF Abandon, TypeOK
    <2>6. QED
      BY <1>15, <2>1, <2>2, <2>4, <2>5 DEF Abandon, TypeOK
  <1>16. QED
    BY <1>1, <1>2, <1>3, <1>4, <1>5, <1>6, <1>7, <1>8, <1>9, <1>10, <1>11, <1>12, <1>13,
       <1>14, <1>15
    DEF CoroutineStep

LEMMA NextType == TypeOK /\ [Next]_vars => TypeOK'
  <1>1. TypeOK /\ UNCHANGED vars => TypeOK'
    BY DEF TypeOK, vars
  <1>2. QED
    BY <1>1, SchedulerStepType, CoroutineStepType DEF Next, Finished

\* Every variable of the scheduler keeps its type, whatever is interleaved,
\* lost or cancelled.
THEOREM TypeCorrect == Spec => []TypeOK
  BY InitType, NextType, PTL DEF Spec

-----------------------------------------------------------------------------
(* Nothing is in flight outside gather.  NoOrphanWork alone is not         *)
(* inductive: gather must be the only place where coroutines live, and     *)
(* only those of its wave may, for the wave's end to be everyone's.        *)

Quiet == \A t \in Task : co[t] \in { "idle", "ended" }

IInv ==
    /\ TypeOK
    /\ main # "gather" => Quiet
    /\ main = "gather" => \A t \in Task \ wave : co[t] = "idle"

LEMMA HandleErrorPlace ==
    ASSUME TypeOK, NEW t \in Task, NEW kind \in ErrorKind, NEW g, HandleError(t, kind, g)
    PROVE  \E place \in CoPlace : Go(t, place)
  BY DEF HandleError, End, CoPlace

\* What a step of one coroutine may do to what others see of it: it moves
\* itself alone, and it logs a completion only on ending its own work.
LEMMA CoroutineEffect ==
    ASSUME TypeOK, NEW t \in Task, CoroutineStep(t)
    PROVE  /\ co[t] \notin { "idle", "ended" }
           /\ UNCHANGED <<main, wave>>
           /\ \E place \in CoPlace :
                /\ Go(t, place)
                /\ \/ events'.completed = events.completed
                   \/ /\ co[t] \in Working /\ place \notin Working
                      /\ events'.completed = events.completed \cup {t}
  <1> USE DEF coUnchanged
  <1>0. /\ CoPlace = Working \cup { "idle", "created", "backoff", "ended" }
        /\ { "starting", "executing", "building", "mutating", "failing", "completing" }
              \subseteq Working
        /\ { "idle", "created", "backoff", "ended" } \cap Working = {}
    BY DEF Working, CoPlace
  <1>1. CASE BeginAttempt(t)
    BY <1>0, <1>1 DEF BeginAttempt
  <1>2. CASE StartAnnounced(t)
    BY <1>0, <1>2 DEF StartAnnounced
  <1>3. CASE EmissionRaises(t)
    BY <1>0, <1>3 DEF EmissionRaises, End
  <1>4. CASE ExecutorReturns(t)
    BY <1>0, <1>4 DEF ExecutorReturns, End
  <1>5. CASE CompletionAnnounced(t)
    <2>1. events'.completed = events.completed \cup {t}
      BY <1>5 DEF CompletionAnnounced, TypeOK, EventLog
    <2>2. QED
      BY <1>0, <1>5, <2>1 DEF CompletionAnnounced, End
  <1>6. CASE ExecutorRaises(t)
    BY <1>6, HandleErrorPlace DEF ExecutorRaises
  <1>7. CASE FailureAnnounced(t)
    <2>1. events'.completed = events.completed
      BY <1>7 DEF FailureAnnounced, TypeOK, EventLog
    <2>2. QED
      BY <1>0, <1>7, <2>1 DEF FailureAnnounced
  <1>8. ASSUME NEW m \in Mutations, Mutate(t, m)
        PROVE  /\ co[t] = "executing" /\ UNCHANGED <<main, wave, events>>
               /\ Go(t, "mutating")
    BY <1>8 DEF Mutate
  <1>9. ASSUME NEW m \in Mutations, MutationRefused(t, m)
        PROVE  /\ co[t] = "executing" /\ UNCHANGED <<main, wave, events>>
               /\ \E place \in CoPlace : Go(t, place)
    <2>1. "error" \in ErrorKind
      BY DEF ErrorKind
    <2>2. QED
      BY <1>9, <2>1, HandleErrorPlace DEF MutationRefused
  <1>10. CASE MutationAudited(t)
    <2>1. events'.completed = events.completed
      BY <1>10 DEF MutationAudited, TypeOK, EventLog
    <2>2. QED
      BY <1>0, <1>10, <2>1 DEF MutationAudited
  <1>11. CASE MutationRolledBack(t)
    <2>1. events'.completed = events.completed
      BY <1>11 DEF MutationRolledBack, TypeOK, EventLog
    <2>2. \E place \in CoPlace : Go(t, place)
      <3>1. "error" \in ErrorKind
        BY DEF ErrorKind
      <3>2. QED
        BY <1>11, <3>1, HandleErrorPlace DEF MutationRolledBack
    <2>3. QED
      BY <1>11, <2>1, <2>2 DEF MutationRolledBack
  <1>12. CASE BeginBuild(t)
    BY <1>0, <1>12 DEF BeginBuild
  <1>13. CASE BuildEnds(t)
    BY <1>0, <1>13 DEF BuildEnds
  <1>14. CASE BuildInterrupted(t)
    <2>1. "error" \in ErrorKind
      BY DEF ErrorKind
    <2>2. \E place \in CoPlace : Go(t, place)
      BY <1>14, <2>1, HandleErrorPlace DEF BuildInterrupted
    <2>3. QED
      BY <1>14, <2>2 DEF BuildInterrupted
  <1>15. CASE Abandon(t)
    <2>1. /\ [events EXCEPT !.completed = @ \cup {t}].completed = events.completed \cup {t}
          /\ [events EXCEPT !.failed = @ \cup {t}].completed = events.completed
          /\ [events EXCEPT !.added = @ \cup mutation[t].added].completed = events.completed
      BY DEF TypeOK, EventLog
    <2>2. \/ events'.completed = events.completed
          \/ co[t] = "completing" /\ events'.completed = events.completed \cup {t}
      BY <1>15, <2>1 DEF Abandon
    <2>3. Go(t, "ended") /\ co[t] \notin { "idle", "ended" } /\ UNCHANGED <<main, wave>>
      BY <1>15 DEF Abandon, End
    <2>4. QED
      BY <1>0, <2>2, <2>3
  <1>16. QED
    BY <1>0, <1>1, <1>2, <1>3, <1>4, <1>5, <1>6, <1>7, <1>8, <1>9, <1>10, <1>11, <1>12,
       <1>13, <1>14, <1>15
    DEF CoroutineStep

LEMMA InitIInv == Init => IInv
  BY InitType DEF Init, IInv, Quiet, Idle

LEMMA NextIInv == IInv /\ [Next]_vars => IInv'
  <1> SUFFICES ASSUME IInv, [Next]_vars PROVE IInv'
    OBVIOUS
  <1>1. TypeOK'
    BY NextType DEF IInv
  <1>2. CASE UNCHANGED vars
    BY <1>1, <1>2 DEF IInv, Quiet, vars
  <1>3. CASE SchedulerStep \/ CancelRun
    <2>1. CASE Begin \/ RunStarted \/ FormWave \/ RunClosed \/ CancellationClosed \/ RunSealed
      <3>1. main # "gather" /\ main' # "gather" /\ UNCHANGED co
        BY <2>1 DEF Begin, RunStarted, FormWave, RunClosed, CancellationClosed, RunSealed, coVars
      <3>2. QED
        BY <1>1, <3>1 DEF IInv, Quiet
    <2>2. CASE WaveAnnounced
      <3>1. CASE main' = "gather"
        BY <1>1, <2>2, <3>1 DEF WaveAnnounced, IInv
      <3>2. CASE main' = "raised"
        BY <1>1, <2>2, <3>2 DEF WaveAnnounced, IInv, Quiet
      <3>3. QED
        BY <2>2, <3>1, <3>2 DEF WaveAnnounced
    <2>3. CASE WaveSettled
      <3>1. Quiet
        BY <2>3 DEF WaveSettled, IInv, Quiet
      <3>2. main' # "gather" /\ UNCHANGED co
        BY <2>3 DEF WaveSettled, EnterCancellation, coVars
      <3>3. QED
        BY <1>1, <3>1, <3>2 DEF IInv, Quiet
    <2>4. CASE WaveCheckpointed
      <3>1. main # "gather" /\ main' # "gather" /\ co' \in { co, Idle }
        BY <2>4 DEF WaveCheckpointed
      <3>2. QED
        BY <1>1, <3>1 DEF IInv, Quiet, Idle
    <2>5. CASE CancelRun
      <3>1. /\ UNCHANGED <<co, wave>>
            /\ main = "gather" => main' = "gather"
            /\ main # "gather" => main' # "gather"
        BY <2>5 DEF CancelRun, EnterCancellation, coVars
      <3>2. QED
        BY <1>1, <3>1 DEF IInv, Quiet
    <2>6. QED
      BY <1>3, <2>1, <2>2, <2>3, <2>4, <2>5 DEF SchedulerStep
  <1>4. ASSUME NEW t \in Task, CoroutineStep(t) PROVE IInv'
    <2>1. PICK place \in CoPlace : Go(t, place)
      BY <1>4, CoroutineEffect DEF IInv
    <2>2. co[t] \notin { "idle", "ended" } /\ UNCHANGED <<main, wave>>
      BY <1>4, CoroutineEffect DEF IInv
    <2>3. main = "gather" /\ t \in wave
      BY <2>2 DEF IInv, Quiet
    <2>4. \A u \in Task \ {t} : co'[u] = co[u]
      BY <2>1 DEF Go, IInv, TypeOK
    <2>5. QED
      BY <1>1, <2>2, <2>3, <2>4 DEF IInv
  <1>5. QED
    BY <1>2, <1>3, <1>4 DEF Next, Finished

THEOREM IInvHolds == Spec => []IInv
  BY InitIInv, NextIInv, PTL DEF Spec

\* Once a run is closing or over, no coroutine holds a task: a failed or
\* cancelled gather waits for its whole wave, for every plan and replan.
THEOREM NoWorkOrphaned == Spec => []NoOrphanWork
  <1>1. IInv => NoOrphanWork
    BY DEF IInv, NoOrphanWork, Quiet, Over
  <1>2. QED
    BY <1>1, IInvHolds, PTL

-----------------------------------------------------------------------------
(* The scheduler implements RunPromise.                                    *)

Live == { t \in Task : co[t] \in Working }

LEMMA GoLive ==
    ASSUME TypeOK, NEW t \in Task, NEW place \in CoPlace, Go(t, place)
    PROVE  Live' = IF place \in Working THEN Live \cup {t} ELSE Live \ {t}
  BY DEF TypeOK, Go, Live

LEMMA QuietLive == Quiet => Live = {}
  BY DEF Quiet, Live, Working

\* Every step is a step of the promise or a stutter.
LEMMA StepKeepsPromise ==
    IInv /\ [Next]_vars => [Promise!Next]_(Promise!promiseVars)
  <1> SUFFICES ASSUME IInv, [Next]_vars
               PROVE  [Promise!Next]_(Promise!promiseVars)
    OBVIOUS
  <1> DEFINE Open == main \notin Over
             Done == events.completed
             Stutter == Open' = Open /\ Live' = Live /\ Done' = Done
             Closing == Open /\ ~Open' /\ Live = {} /\ Live' = {} /\ Done' = Done
  <1>0. ASSUME Stutter \/ Closing
        PROVE  [Promise!Next]_(Promise!promiseVars)
    <2>1. CASE Stutter
      BY <2>1 DEF Promise!promiseVars, Live
    <2>2. CASE Closing
      BY <2>2 DEF Promise!Next, Promise!Close, Live
    <2>3. QED
      BY <1>0, <2>1, <2>2
  <1>1. CASE UNCHANGED vars
    <2>1. Stutter
      BY <1>1 DEF vars, Live
    <2>2. QED
      BY <1>0, <2>1
  <1>2. CASE SchedulerStep \/ CancelRun
    <2>1. (Quiet => Live = {}) /\ (Quiet' => Live' = {})
      BY QuietLive DEF Quiet, Live, Working
    <2>2. Done' = Done
      <3>1. /\ [events EXCEPT !.terminal = "FAILED"].completed = events.completed
            /\ [events EXCEPT !.terminal = "CANCELLED"].completed = events.completed
        BY DEF IInv, TypeOK, EventLog
      <3>2. QED
        BY <1>2, <3>1
        DEF SchedulerStep, Begin, RunStarted, FormWave, WaveAnnounced, WaveSettled,
            WaveCheckpointed, RunClosed, CancellationClosed, RunSealed, CancelRun,
            EnterCancellation
    <2>3. CASE main = "gather"
      <3>1. WaveSettled \/ CancelRun
        BY <1>2, <2>3
        DEF SchedulerStep, Begin, RunStarted, FormWave, WaveAnnounced,
            WaveCheckpointed, RunClosed, CancellationClosed, RunSealed
      <3>2. main' \notin Over /\ UNCHANGED co
        BY <2>3, <3>1 DEF WaveSettled, CancelRun, EnterCancellation, coVars, Over
      <3>3. Stutter
        BY <2>2, <2>3, <3>2 DEF Live, Over
      <3>4. QED
        BY <1>0, <3>3
    <2>4. CASE main # "gather"
      <3>1. Live = {}
        BY <2>4, QuietLive DEF IInv
      <3>2. \A t \in Task : co'[t] \in { "idle", "ended", "created" }
        <4>1. Quiet
          BY <2>4 DEF IInv
        <4>2. \/ UNCHANGED co
              \/ co' = Idle
              \/ co' = [t \in Task |-> IF t \in wave THEN "created" ELSE "idle"]
          BY <1>2
          DEF SchedulerStep, Begin, RunStarted, FormWave, WaveAnnounced, WaveSettled,
              WaveCheckpointed, RunClosed, CancellationClosed, RunSealed, CancelRun, coVars
        <4>3. QED
          BY <4>1, <4>2 DEF Quiet, Idle
      <3>3. Live' = {}
        BY <3>2 DEF Live, Working
      <3>4. main \notin Over
        BY <1>2
        DEF SchedulerStep, Begin, RunStarted, FormWave, WaveAnnounced, WaveSettled,
            WaveCheckpointed, RunClosed, CancellationClosed, RunSealed, CancelRun, Over
      <3>5. Stutter \/ Closing
        BY <2>2, <3>1, <3>3, <3>4
      <3>6. QED
        BY <1>0, <3>5
    <2>5. QED
      BY <2>3, <2>4
  <1>3. ASSUME NEW t \in Task, CoroutineStep(t)
        PROVE  [Promise!Next]_(Promise!promiseVars)
    <2>1. co[t] \notin { "idle", "ended" } /\ UNCHANGED main
      BY <1>3, CoroutineEffect DEF IInv
    <2>2. Open /\ Open'
      BY <2>1 DEF IInv, Quiet, Over
    <2>3. PICK place \in CoPlace :
             /\ Go(t, place)
             /\ \/ Done' = Done
                \/ /\ co[t] \in Working /\ place \notin Working
                   /\ Done' = Done \cup {t}
      BY <1>3, CoroutineEffect DEF IInv
    <2>4. Live' = IF place \in Working THEN Live \cup {t} ELSE Live \ {t}
      BY <2>3, GoLive DEF IInv
    <2>5. t \in Live <=> co[t] \in Working
      BY DEF Live
    <2>6. CASE Done' = Done /\ (place \in Working <=> t \in Live)
      <3>1. Stutter
        BY <2>2, <2>4, <2>6
      <3>2. QED
        BY <1>0, <3>1
    <2>7. CASE Done' = Done /\ place \in Working /\ t \notin Live
      BY <2>2, <2>4, <2>7 DEF Promise!Next, Promise!Start, Live
    <2>8. CASE Done' = Done /\ place \notin Working /\ t \in Live
      BY <2>2, <2>4, <2>8 DEF Promise!Next, Promise!GiveUp, Live
    <2>9. CASE Done' # Done
      <3>1. t \in Live /\ Live' = Live \ {t} /\ Done' = Done \cup {t}
        BY <2>3, <2>4, <2>5, <2>9
      <3>2. QED
        BY <2>2, <3>1 DEF Promise!Next, Promise!Complete, Live
    <2>10. QED
      BY <2>6, <2>7, <2>8, <2>9
  <1>4. QED
    BY <1>1, <1>2, <1>3 DEF Next, Finished

\* Whatever the plan, the replans, the retries, the lost events and the
\* moment of cancellation: tasks are worked on only while the run is open,
\* completions are logged by who was working and never unlogged, and the run
\* closes once with nothing in flight.
THEOREM PromiseKept == Spec => KeepsPromise
  <1>1. Init => Promise!Init
    BY DEF Init, Promise!Init, Idle, Working, Over
  <1>2. QED
    BY <1>1, IInvHolds, StepKeepsPromise, PTL DEF Spec, KeepsPromise, Promise!Spec

-----------------------------------------------------------------------------
(* The actual graph is acyclic and closed.  A rollback puts an earlier     *)
(* graph back, so the graphs that mutations in progress started from must  *)
(* be well formed too; only Mutate makes a graph of a new shape.           *)

SameShape(g, h) == g.tasks = h.tasks /\ g.deps = h.deps

GInv ==
    /\ TypeOK
    /\ ActualGraphWellFormed
    /\ \A t \in Task : WellFormed(mutation[t].original.tasks, mutation[t].original.deps)

LEMMA StatusShape ==
    ASSUME NEW g \in Graph
    PROVE  /\ \A t \in Task : \A s : SameShape(SetStatus(g, t, s), g)
           /\ \A S, s : SameShape(WithStatus(g, S, s), g)
           /\ SameShape(Admit(g), g)
           /\ SameShape(BlockFailedDependents(g), g)
           /\ SameShape(CancelTasks(g), g)
           /\ SameShape(InvalidateReady(g), g)
  <1>1. \A t \in Task : \A s : SameShape(SetStatus(g, t, s), g)
    BY DEF SameShape, SetStatus, Graph
  <1>2. \A S, s : SameShape(WithStatus(g, S, s), g)
    BY DEF SameShape, WithStatus, Graph
  <1>3. SameShape(Admit(g), g)
    BY DEF SameShape, Admit, Graph
  <1>4. QED
    BY <1>1, <1>2, <1>3 DEF BlockFailedDependents, CancelTasks, InvalidateReady

LEMMA PublishShape ==
    ASSUME NEW g \in Graph, NEW t \in Task, NEW outs
    PROVE  SameShape(Publish(g, t, outs), g)
  BY DEF SameShape, Publish, Graph

LEMMA HandleErrorShape ==
    ASSUME NEW t \in Task, NEW kind, NEW g \in Graph, HandleError(t, kind, g)
    PROVE  SameShape(graph', g)
  BY StatusShape DEF HandleError, SameShape

LEMMA StagedWellFormed ==
    ASSUME NEW g \in Graph, NEW m, NEW c, Admissible(g, m)
    PROVE  WellFormed(Staged(g, m, c).tasks, Staged(g, m, c).deps)
  BY DEF Admissible, Staged

\* A step keeps the shape of the graph, and of the graphs to roll back to,
\* or puts such a graph back, or stages an admissible mutation.
LEMMA CoroutineShape ==
    ASSUME TypeOK, NEW t \in Task, CoroutineStep(t)
    PROVE  /\ \/ SameShape(graph', graph)
              \/ SameShape(graph', mutation[t].original)
              \/ WellFormed(graph'.tasks, graph'.deps)
           /\ \A u \in Task :
                \/ SameShape(mutation'[u].original, mutation[u].original)
                \/ mutation'[u].original \in { graph, PlannedGraph }
  <1>0. graph \in Graph /\ SameShape(graph, graph) /\ "error" \in ErrorKind
    BY DEF TypeOK, SameShape, ErrorKind
  <1>1. CASE \/ BeginAttempt(t) \/ StartAnnounced(t) \/ EmissionRaises(t)
             \/ CompletionAnnounced(t) \/ FailureAnnounced(t) \/ BeginBuild(t)
    <2>1. UNCHANGED mutation
      BY <1>1 DEF BeginAttempt, StartAnnounced, EmissionRaises, CompletionAnnounced,
                  FailureAnnounced, BeginBuild
    <2>2. graph' = graph \/ \E s \in {"RUNNING", "WAITING_FOR_CAPABILITY"} :
                               graph' = SetStatus(graph, t, s)
      BY <1>1 DEF BeginAttempt, StartAnnounced, EmissionRaises, CompletionAnnounced,
                  FailureAnnounced, BeginBuild
    <2>3. QED
      BY <1>0, <2>1, <2>2, StatusShape DEF SameShape
  <1>2. CASE ExecutorReturns(t)
    <2>1. PICK outs \in Publishable :
             graph' \in { Publish(graph, t, outs),
                          SetStatus(Publish(graph, t, outs), t, "COMPLETED") }
      BY <1>2 DEF ExecutorReturns
    <2>2. SameShape(graph', graph)
      BY <1>0, <2>1, PublishType, PublishShape, StatusShape DEF SameShape
    <2>3. QED
      BY <1>2, <2>2 DEF ExecutorReturns, SameShape
  <1>3. CASE ExecutorRaises(t)
    <2>1. PICK kind \in ErrorKind, outs \in Publishable :
             HandleError(t, kind, Publish(graph, t, outs))
      BY <1>3 DEF ExecutorRaises
    <2>2. SameShape(graph', graph)
      BY <1>0, <2>1, PublishType, PublishShape, HandleErrorShape DEF SameShape
    <2>3. QED
      BY <1>3, <2>2 DEF ExecutorRaises, SameShape
  <1>4. ASSUME NEW m \in Mutations, Mutate(t, m)
        PROVE  /\ WellFormed(graph'.tasks, graph'.deps)
               /\ \A u \in Task : mutation'[u].original \in { mutation[u].original, graph }
    <2>1. /\ WellFormed(Staged(graph, m, copies + 1).tasks, Staged(graph, m, copies + 1).deps)
          /\ Staged(graph, m, copies + 1) \in Graph
      BY <1>0, <1>4, StagedWellFormed, StagedType DEF Mutate, TypeOK
    <2>2. SameShape(graph', Staged(graph, m, copies + 1))
      BY <1>4, <2>1, StatusShape DEF Mutate
    <2>3. WellFormed(graph'.tasks, graph'.deps)
      BY <2>1, <2>2 DEF SameShape
    <2>4. QED
      BY <1>4, <2>3 DEF Mutate, TypeOK
  <1>5. ASSUME NEW m \in Mutations, MutationRefused(t, m)
        PROVE  SameShape(graph', graph) /\ UNCHANGED mutation
    BY <1>0, <1>5, HandleErrorShape DEF MutationRefused
  <1>6. CASE MutationAudited(t)
    BY <1>0, <1>6 DEF MutationAudited, NoMutation, TypeOK, SameShape
  <1>7. CASE MutationRolledBack(t)
    <2>1. SameShape(graph', mutation[t].original)
      BY <1>0, <1>7, HandleErrorShape DEF MutationRolledBack, TypeOK
    <2>2. QED
      BY <1>7, <2>1 DEF MutationRolledBack, NoMutation, TypeOK, SameShape
  <1>8. CASE BuildEnds(t)
    <2> DEFINE Write(g, s) == IF g.copy = held[t] THEN SetStatus(g, t, s) ELSE g
    <2>1. PICK s \in { "RUNNING", "CAPABILITY_BUILD_FAILED" } : WriteHeld(t, s)
      BY <1>8 DEF BuildEnds
    <2>2. \A g \in Graph : SameShape(Write(g, s), g)
      BY StatusShape DEF SameShape
    <2>3. /\ graph' = Write(graph, s)
          /\ mutation' = [u \in Task |-> [mutation[u] EXCEPT !.original = Write(@, s)]]
      BY <2>1 DEF WriteHeld
    <2> HIDE DEF Write
    <2>4. ASSUME NEW u \in Task
          PROVE  SameShape(mutation'[u].original, mutation[u].original)
      <3>1. mutation[u] \in [original : Graph, added : SUBSET Task]
        BY DEF TypeOK
      <3>2. mutation'[u].original = Write(mutation[u].original, s)
        BY <2>3, <3>1
      <3>3. QED
        BY <2>2, <3>1, <3>2
    <2>5. QED
      BY <1>0, <2>2, <2>3, <2>4
  <1>9. CASE BuildInterrupted(t)
    BY <1>0, <1>9, HandleErrorShape DEF BuildInterrupted, SameShape
  <1>10. CASE Abandon(t)
    <2>1. graph' \in { graph, SetStatus(graph, t, "CANCELLED") }
      BY <1>10 DEF Abandon
    <2>2. SameShape(graph', graph)
      BY <1>0, <2>1, StatusShape
    <2>3. QED
      BY <1>10, <2>2 DEF Abandon, NoMutation, TypeOK, SameShape
  <1>11. QED
    BY <1>1, <1>2, <1>3, <1>4, <1>5, <1>6, <1>7, <1>8, <1>9, <1>10
    DEF CoroutineStep, SameShape

LEMMA InitGInv == Init => GInv
  BY InitType, PlanAssumption
  DEF Init, GInv, ActualGraphWellFormed, PlannedGraph, NoMutation

LEMMA NextGInv == GInv /\ [Next]_vars => GInv'
  <1> SUFFICES ASSUME GInv, [Next]_vars PROVE GInv'
    OBVIOUS
  <1>1. TypeOK'
    BY NextType DEF GInv
  <1>2. CASE UNCHANGED vars
    BY <1>1, <1>2 DEF GInv, ActualGraphWellFormed, vars
  <1>3. CASE SchedulerStep \/ CancelRun
    <2>1. UNCHANGED mutation
      BY <1>3
      DEF SchedulerStep, Begin, RunStarted, FormWave, WaveAnnounced, WaveSettled,
          WaveCheckpointed, RunClosed, CancellationClosed, RunSealed, CancelRun, coVars
    <2>2. /\ graph \in Graph
          /\ SameShape(Admit(graph), graph)
          /\ SameShape(BlockFailedDependents(graph), graph)
          /\ SameShape(CancelTasks(graph), graph)
      BY StatusShape DEF GInv, TypeOK
    <2>3. \A ready : SameShape(WithStatus(BlockFailedDependents(Admit(graph)), ready, "READY"), graph)
      BY <2>2, StatusShape, AdmitType, BlockFailedDependentsType DEF SameShape
    <2>4. SameShape(graph', graph)
      BY <1>3, <2>2, <2>3
      DEF SchedulerStep, Begin, RunStarted, FormWave, WaveAnnounced, WaveSettled,
          WaveCheckpointed, RunClosed, CancellationClosed, RunSealed, CancelRun,
          EnterCancellation, SameShape
    <2>5. QED
      BY <1>1, <2>1, <2>4 DEF GInv, ActualGraphWellFormed, SameShape
  <1>4. ASSUME NEW t \in Task, CoroutineStep(t) PROVE GInv'
    <2>1. /\ WellFormed(graph.tasks, graph.deps)
          /\ WellFormed(PlannedGraph.tasks, PlannedGraph.deps)
      BY PlanAssumption DEF GInv, ActualGraphWellFormed, PlannedGraph
    <2>2. WellFormed(graph'.tasks, graph'.deps)
      BY <1>4, <2>1, CoroutineShape DEF GInv, SameShape
    <2>3. \A u \in Task : WellFormed(mutation'[u].original.tasks, mutation'[u].original.deps)
      BY <1>4, <2>1, CoroutineShape DEF GInv, SameShape
    <2>4. QED
      BY <1>1, <2>2, <2>3 DEF GInv, ActualGraphWellFormed
  <1>5. QED
    BY <1>2, <1>3, <1>4 DEF Next, Finished

\* No sequence of approved replans, overlapping audits and rollbacks leaves
\* the actual graph with a cycle or an edge to a task it does not have.
THEOREM GraphStaysWellFormed == Spec => []ActualGraphWellFormed
  <1>1. GInv => ActualGraphWellFormed
    BY DEF GInv
  <1>2. QED
    BY <1>1, InitGInv, NextGInv, PTL DEF Spec

=============================================================================
