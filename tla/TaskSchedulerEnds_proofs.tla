----------------------- MODULE TaskSchedulerEnds_proofs -----------------------
(***************************************************************************)
(* How a run of TaskScheduler ends, for every plan, every set of replans   *)
(* and every retry policy: which status goes with which place and which    *)
(* terminal event, what the last checkpoint says, that only a run whose    *)
(* failures are all recorded as degraded outputs goes to review, that no   *)
(* replan undoes a completed task, what the log has been told of a run     *)
(* that is returned, and when a task that starts has what it waits for.    *)
(***************************************************************************)
EXTENDS TaskScheduler_proofs

-----------------------------------------------------------------------------
(* What the scheduler and the log say of the run, place by place.          *)

Open == { "admitted", "starting", "loop", "announcing", "gather", "checkpointing" }

\* The latest checkpoint is the run as it is.
Current == checkpoint = [graph |-> graph, runStatus |-> runStatus]

EndInv ==
    /\ \A t \in Task : result[t] = "cancelled" => cancelled
    /\ main \in Open =>
          /\ events.terminal = "none"
          /\ runStatus = IF main = "admitted" THEN "PLANNING" ELSE "RUNNING"
    /\ main = "closing" => runStatus \in { "REVIEW", "FAILED" } /\ events.terminal = "none"
    /\ main = "cancelling" => runStatus = "CANCELLED" /\ cancelled
    /\ main = "sealing" => runStatus = "REVIEW" \/ events.terminal = runStatus
    /\ main = "returned" => runStatus = "REVIEW" /\ Current
    /\ main = "raised" /\ faults = 0 =>
          \/ cancelled /\ (runStatus = "RUNNING" \/ events.terminal # "none")
          \/ events.terminal = runStatus /\ Current

\* A step of one coroutine leaves the scheduler's own state alone, and marks
\* a result cancelled only in a cancelled run.
LEMMA CoroutineFrame ==
    ASSUME TypeOK, NEW t \in Task, CoroutineStep(t)
    PROVE  /\ UNCHANGED <<runStatus, main, wave, checkpoint, cancelled>>
           /\ events'.terminal = events.terminal
           /\ \A u \in Task : result'[u] # result[u] => u = t
           /\ result'[t] = "cancelled" => result[t] = "cancelled" \/ cancelled
  <1> USE DEF coUnchanged
  <1>0. /\ "error" \in ErrorKind
        /\ \A S : [events EXCEPT !.completed = S].terminal = events.terminal
        /\ \A S : [events EXCEPT !.failed = S].terminal = events.terminal
        /\ \A S : [events EXCEPT !.added = S].terminal = events.terminal
        /\ \A S, V : [events EXCEPT !.added = S, !.versions = V].terminal = events.terminal
    BY DEF TypeOK, EventLog, ErrorKind
  <1>1. ASSUME NEW kind \in ErrorKind, NEW g, HandleError(t, kind, g)
        PROVE  /\ \A u \in Task : result'[u] # result[u] => u = t
               /\ result'[t] = "cancelled" => result[t] = "cancelled"
    BY <1>1 DEF HandleError, End, TypeOK, ErrorKind
  <1>2. ASSUME NEW r, End(t, r)
        PROVE  /\ \A u \in Task : result'[u] # result[u] => u = t
               /\ result'[t] = r
    BY <1>2 DEF End, TypeOK
  <1>3. CASE \/ BeginAttempt(t) \/ StartAnnounced(t) \/ BeginBuild(t) \/ BuildEnds(t)
    BY <1>3 DEF BeginAttempt, StartAnnounced, BeginBuild, BuildEnds
  <1>4. CASE EmissionRaises(t)
    BY <1>2, <1>4 DEF EmissionRaises
  <1>5. CASE ExecutorReturns(t)
    BY <1>2, <1>5 DEF ExecutorReturns
  <1>6. CASE CompletionAnnounced(t)
    BY <1>0, <1>2, <1>6 DEF CompletionAnnounced
  <1>7. CASE ExecutorRaises(t)
    BY <1>1, <1>7 DEF ExecutorRaises
  <1>8. CASE FailureAnnounced(t)
    BY <1>0, <1>8 DEF FailureAnnounced
  <1>9. CASE \E m \in Mutations : Mutate(t, m) \/ MutationRefused(t, m)
    BY <1>0, <1>1, <1>9 DEF Mutate, MutationRefused
  <1>10. CASE MutationAudited(t)
    BY <1>0, <1>10 DEF MutationAudited
  <1>11. CASE MutationRolledBack(t)
    BY <1>0, <1>1, <1>11 DEF MutationRolledBack
  <1>12. CASE BuildInterrupted(t)
    BY <1>0, <1>1, <1>12 DEF BuildInterrupted
  <1>13. CASE Abandon(t)
    <2>1. events'.terminal = events.terminal
      BY <1>0, <1>13 DEF Abandon
    <2>2. cancelled /\ End(t, "cancelled")
      BY <1>13 DEF Abandon
    <2>3. QED
      BY <1>2, <1>13, <2>1, <2>2 DEF Abandon
  <1>14. QED
    BY <1>3, <1>4, <1>5, <1>6, <1>7, <1>8, <1>9, <1>10, <1>11, <1>12, <1>13
    DEF CoroutineStep

LEMMA InitEndInv == Init => EndInv
  BY DEF Init, EndInv, Open

LEMMA NextEndInv == IInv /\ EndInv /\ [Next]_vars => EndInv'
  <1> SUFFICES ASSUME IInv, EndInv, [Next]_vars PROVE EndInv'
    OBVIOUS
  <1>0. /\ TypeOK /\ faults \in Nat
        /\ [events EXCEPT !.terminal = "FAILED"].terminal = "FAILED"
        /\ [events EXCEPT !.terminal = "CANCELLED"].terminal = "CANCELLED"
    BY DEF IInv, TypeOK, EventLog
  <1>1. Raises => faults' # 0
    BY <1>0 DEF Raises
  <1>2. CASE UNCHANGED vars
    BY <1>2 DEF EndInv, Current, Open, vars
  <1>3. CASE Begin
    BY <1>3 DEF Begin, EndInv, Current, Open, coVars
  <1>4. CASE RunStarted
    BY <1>1, <1>4 DEF RunStarted, EndInv, Current, Open, coVars
  <1>5. CASE FormWave
    <2>1. /\ main = "loop" /\ main' \in { "announcing", "closing" }
          /\ main' = "announcing" => runStatus' = runStatus
          /\ main' = "closing" => runStatus' \in { "REVIEW", "FAILED" }
          /\ UNCHANGED <<result, events, cancelled>>
      BY <1>5 DEF FormWave, coVars
    <2>2. QED
      BY <2>1 DEF EndInv, Current, Open
  <1>6. CASE WaveAnnounced
    BY <1>1, <1>6 DEF WaveAnnounced, EndInv, Current, Open
  <1>7. CASE WaveSettled
    BY <1>0, <1>7 DEF WaveSettled, EnterCancellation, EndInv, Current, Open, coVars, IInv, TypeOK
  <1>8. CASE WaveCheckpointed
    BY <1>1, <1>8 DEF WaveCheckpointed, EndInv, Current, Open
  <1>9. CASE RunClosed
    BY <1>0, <1>1, <1>9 DEF RunClosed, EndInv, Current, Open, coVars
  <1>10. CASE CancellationClosed
    BY <1>0, <1>1, <1>10 DEF CancellationClosed, EndInv, Current, Open, coVars
  <1>11. CASE RunSealed
    BY <1>1, <1>11 DEF RunSealed, SaveCheckpoint, EndInv, Current, Open, coVars
  <1>12. CASE CancelRun
    BY <1>12 DEF CancelRun, EnterCancellation, EndInv, Current, Open, coVars
  <1>13. ASSUME NEW t \in Task, CoroutineStep(t) PROVE EndInv'
    <2>1. main = "gather"
      BY <1>13, <1>0, CoroutineEffect DEF IInv, Quiet
    <2>2. /\ UNCHANGED <<runStatus, main, cancelled>>
          /\ events'.terminal = events.terminal
          /\ \A u \in Task : result'[u] # result[u] => u = t
          /\ result'[t] = "cancelled" => result[t] = "cancelled" \/ cancelled
      BY <1>0, <1>13, CoroutineFrame
    <2>3. \A u \in Task : result'[u] = "cancelled" => cancelled'
      BY <2>2 DEF EndInv
    <2>4. QED
      BY <2>1, <2>2, <2>3 DEF EndInv, Open
  <1>14. QED
    BY <1>2, <1>3, <1>4, <1>5, <1>6, <1>7, <1>8, <1>9, <1>10, <1>11, <1>12, <1>13
    DEF Next, SchedulerStep, Finished

THEOREM EndInvHolds == Spec => []EndInv
  BY IInvHolds, InitEndInv, NextEndInv, PTL DEF Spec

\* A run that execute gave up on without losing an emission has told the log,
\* with the status of the run unless somebody cancelled it on the way.
THEOREM FailuresAreAnnounced == Spec => []FailureIsAnnounced
  <1>1. TypeOK /\ EndInv => FailureIsAnnounced
    BY DEF EndInv, FailureIsAnnounced, TypeOK, RunStatus
  <1>2. QED
    BY <1>1, TypeCorrect, EndInvHolds, PTL

\* The checkpoint that a returned or cleanly failed run leaves is its final
\* state: no step of any coroutine follows the last save.
THEOREM LastCheckpointIsCurrent == Spec => []FinalCheckpointIsCurrent
  <1>1. EndInv => FinalCheckpointIsCurrent
    BY DEF EndInv, FinalCheckpointIsCurrent, Current
  <1>2. QED
    BY <1>1, EndInvHolds, PTL

-----------------------------------------------------------------------------
(* Review is earned.  A failed task that recorded no degraded output is    *)
(* accounted for by its own coroutine until the wave's errors are judged,  *)
(* in the graph and in every graph a rollback may put back.                *)

Excuse(t) ==
    /\ t \in wave
    /\ co[t] \in { "failing", "ended" }
    /\ result[t] \in ErrorKind \cup { "cancelled" }

Degraded(g, t) == "degraded" \in g.outputs[t]

Accounted(g) == \A t \in Task : g.status[t] = "FAILED" => Degraded(g, t) \/ Excuse(t)

Resolved(g) == \A t \in Task : g.status[t] = "FAILED" => Degraded(g, t)

\* The graphs that may become the actual graph at the next step.
Restorable == {graph} \cup { mutation[t].original : t \in { u \in Task : co[u] = "mutating" } }

RevInv ==
    /\ main \in { "admitted", "starting", "loop", "announcing" } => Resolved(graph)
    /\ main = "gather" => \A g \in Restorable : Accounted(g)
    /\ main = "checkpointing" =>
          /\ \A t \in Task : result[t] # "cancelled"
          /\ Accounted(graph)
    /\ ReviewIsEarned

LEMMA StatusFailed ==
    ASSUME NEW g \in Graph
    PROVE  /\ \A t \in Task, s \in TaskStatus :
                /\ SetStatus(g, t, s).outputs = g.outputs
                /\ \A u \in Task : SetStatus(g, t, s).status[u] =
                                        IF u = t THEN s ELSE g.status[u]
           /\ \A S, s :
                /\ WithStatus(g, S, s).outputs = g.outputs
                /\ WithStatus(g, S, s).tasks = g.tasks
                /\ \A u \in Task : WithStatus(g, S, s).status[u] =
                                        IF u \in S THEN s ELSE g.status[u]
           /\ /\ Admit(g).outputs = g.outputs
              /\ Admit(g).tasks = g.tasks
              /\ \A u \in Task : Admit(g).status[u] \in { g.status[u], "WAITING" }
  <1>1. ASSUME NEW t \in Task, NEW s \in TaskStatus
        PROVE  /\ SetStatus(g, t, s).outputs = g.outputs
               /\ \A u \in Task : SetStatus(g, t, s).status[u] =
                                       IF u = t THEN s ELSE g.status[u]
    BY DEF SetStatus, Graph
  <1>2. ASSUME NEW S, NEW s
        PROVE  /\ WithStatus(g, S, s).outputs = g.outputs
               /\ WithStatus(g, S, s).tasks = g.tasks
               /\ \A u \in Task : WithStatus(g, S, s).status[u] =
                                       IF u \in S THEN s ELSE g.status[u]
    BY DEF WithStatus, Graph
  <1>3. /\ Admit(g).outputs = g.outputs
        /\ Admit(g).tasks = g.tasks
        /\ \A u \in Task : Admit(g).status[u] \in { g.status[u], "WAITING" }
    BY DEF Admit, Graph
  <1>4. QED
    BY <1>1, <1>2, <1>3

\* The passes of the scheduler fail no task and lose no output.
LEMMA PassesResolve ==
    ASSUME NEW g \in Graph, Resolved(g)
    PROVE  /\ Resolved(Admit(g))
           /\ \A S : Resolved(WithStatus(BlockFailedDependents(Admit(g)), S, "READY"))
           /\ Resolved(BlockFailedDependents(Admit(g)))
  <1>1. Resolved(Admit(g)) /\ Admit(g) \in Graph
    BY StatusFailed, AdmitType DEF Resolved, Degraded
  <1>2. ASSUME NEW h \in Graph, Resolved(h), NEW S, NEW s \in { "BLOCKED", "READY" }
        PROVE  Resolved(WithStatus(h, S, s))
    BY <1>2, StatusFailed DEF Resolved, Degraded
  <1>3. Resolved(BlockFailedDependents(Admit(g)))
    BY <1>1, <1>2 DEF BlockFailedDependents
  <1>4. BlockFailedDependents(Admit(g)) \in Graph
    BY <1>1, BlockFailedDependentsType
  <1>5. QED
    BY <1>1, <1>2, <1>3, <1>4

\* What the handler of an executor's error fails, its coroutine excuses.
LEMMA HandleErrorAccounts ==
    ASSUME TypeOK, NEW t \in Task, t \in wave, UNCHANGED wave,
           NEW kind \in ErrorKind, NEW g \in Graph, HandleError(t, kind, g),
           g.status[t] = "FAILED" => Degraded(g, t) \/ co[t] \notin { "failing", "ended" }
    PROVE  /\ graph'.outputs = g.outputs
           /\ \A u \in Task : graph'.status[u] = "FAILED" =>
                 g.status[u] = "FAILED" \/ (u = t /\ Excuse(t)')
           /\ co'[t] # "mutating"
  <1>1. "READY" \in TaskStatus /\ "FAILED" \in TaskStatus
    BY StatusFacts
  <1>2. \/ graph' = g
        \/ graph' = SetStatus(g, t, "READY")
        \/ /\ graph' = SetStatus(g, t, "FAILED")
           /\ Go(t, "failing") /\ result' = [result EXCEPT ![t] = kind]
    BY DEF HandleError
  <1>3. \E place \in { "failing", "backoff", "ended" } : Go(t, place)
    BY DEF HandleError, End
  <1>4. co'[t] # "mutating"
    BY <1>3 DEF Go, TypeOK
  <1>5. CASE graph' = g \/ graph' = SetStatus(g, t, "READY")
    BY <1>1, <1>4, <1>5, StatusFailed
  <1>6. CASE /\ graph' = SetStatus(g, t, "FAILED")
             /\ Go(t, "failing") /\ result' = [result EXCEPT ![t] = kind]
    <2>1. Excuse(t)'
      BY <1>6 DEF Go, Excuse, TypeOK
    <2>2. QED
      BY <1>1, <1>4, <1>6, <2>1, StatusFailed
  <1>7. QED
    BY <1>2, <1>5, <1>6

\* What a step of one coroutine does to the excuses: the others keep theirs,
\* and a coroutine that has one keeps it to its end.
LEMMA ExcuseKept ==
    ASSUME IInv, NEW t \in Task, CoroutineStep(t)
    PROVE  /\ \A u \in Task : Excuse(u) => Excuse(u)'
           /\ \A u \in Task \ {t} : co'[u] = co[u]
  <1> USE DEF coUnchanged
  <1>1. TypeOK /\ UNCHANGED wave
    BY CoroutineEffect DEF IInv
  <1>2. \A u \in Task \ {t} : co'[u] = co[u] /\ result'[u] = result[u]
    <2>1. \E place \in CoPlace : Go(t, place)
      BY <1>1, CoroutineEffect
    <2>2. \A u \in Task : result'[u] # result[u] => u = t
      BY <1>1, CoroutineFrame
    <2>3. QED
      BY <1>1, <2>1, <2>2 DEF Go, TypeOK
  <1>3. co[t] # "ended"
    BY <1>1, CoroutineEffect
  <1>4. ASSUME co[t] = "failing", result[t] \in ErrorKind \cup { "cancelled" }
        PROVE  co'[t] = "ended" /\ result'[t] \in ErrorKind \cup { "cancelled" }
    <2>1. EmissionRaises(t) \/ FailureAnnounced(t) \/ Abandon(t)
      BY <1>4 DEF CoroutineStep, BeginAttempt, StartAnnounced, ExecutorReturns,
                  CompletionAnnounced, ExecutorRaises, Mutate, MutationRefused,
                  MutationAudited, MutationRolledBack, BeginBuild, BuildEnds, BuildInterrupted
    <2>2. \/ End(t, "error") \/ End(t, "cancelled")
          \/ Go(t, "ended") /\ UNCHANGED result
      BY <2>1 DEF EmissionRaises, FailureAnnounced, Abandon
    <2>3. QED
      BY <1>1, <1>4, <2>2 DEF End, Go, TypeOK, ErrorKind
  <1>5. Excuse(t) => Excuse(t)'
    BY <1>1, <1>3, <1>4 DEF Excuse
  <1>6. QED
    BY <1>1, <1>2, <1>5 DEF Excuse

\* A step of one coroutine leaves every failure accounted for, in the graph it
\* makes and in those that a rollback may still put back.
LEMMA CoroutineAccounts ==
    ASSUME IInv, main = "gather", NEW t \in Task, CoroutineStep(t),
           \A g \in Restorable : Accounted(g)
    PROVE  (\A g \in Restorable : Accounted(g))'
  <1> USE DEF coUnchanged
  <1> DEFINE Kept(g) == \A u \in Task : g.status[u] = "FAILED" => Degraded(g, u) \/ Excuse(u)'
  <1>1. /\ TypeOK /\ UNCHANGED wave
        /\ t \in wave /\ co[t] # "ended"
    BY CoroutineEffect DEF IInv
  <1>2. \A u \in Task : Excuse(u) => Excuse(u)'
    BY ExcuseKept
  <1>3. \A u \in Task \ {t} : co'[u] = co[u]
    BY ExcuseKept
  <1>4. /\ graph \in Graph /\ \A u \in Task : mutation[u].original \in Graph
        /\ "error" \in ErrorKind
        /\ { "RUNNING", "READY", "CANCELLED", "COMPLETED", "WAITING_FOR_CAPABILITY",
             "CAPABILITY_BUILD_FAILED", "WAITING" } \subseteq TaskStatus
    BY <1>1, StatusFacts DEF TypeOK, ErrorKind
  <1>5. \A g \in Restorable : Kept(g)
    BY <1>2 DEF Accounted
  <1>6. /\ Kept(graph)
        /\ \A u \in Task : co[u] = "mutating" => Kept(mutation[u].original)
    BY <1>5 DEF Restorable
  <1>7. ASSUME NEW g \in Graph, Kept(g), NEW u \in Task, NEW s \in TaskStatus, s # "FAILED"
        PROVE  Kept(SetStatus(g, u, s))
    BY <1>7, StatusFailed DEF Degraded
  <1>8. ASSUME NEW g \in Graph, Kept(g), NEW outs \in Publishable
        PROVE  Kept(Publish(g, t, outs))
    BY <1>8 DEF Publish, Degraded, Graph
  <1>9. ASSUME NEW g \in Graph, Kept(g), NEW kind \in ErrorKind, HandleError(t, kind, g),
               g.status[t] = "FAILED" => Degraded(g, t) \/ co[t] \notin { "failing", "ended" }
        PROVE  Kept(graph') /\ co'[t] # "mutating"
    <2>1. /\ graph'.outputs = g.outputs
          /\ \A u \in Task : graph'.status[u] = "FAILED" =>
                g.status[u] = "FAILED" \/ (u = t /\ Excuse(t)')
          /\ co'[t] # "mutating"
      BY <1>1, <1>9, HandleErrorAccounts
    <2>2. QED
      BY <1>9, <2>1 DEF Degraded
  <1>10. SUFFICES /\ Kept(graph')
                  /\ \A u \in Task : co'[u] = "mutating" => Kept(mutation'[u].original)
    BY DEF Restorable, Accounted
  <1> HIDE DEF Kept
  \* The steps that mutate nothing: the graphs to put back stay as they are.
  <1>11. ASSUME UNCHANGED mutation \/ mutation' = [mutation EXCEPT ![t] = NoMutation],
                co'[t] # "mutating"
         PROVE  \A u \in Task : co'[u] = "mutating" => Kept(mutation'[u].original)
    BY <1>1, <1>3, <1>6, <1>11 DEF TypeOK
  <1>13. CASE \/ StartAnnounced(t) \/ EmissionRaises(t) \/ CompletionAnnounced(t)
              \/ FailureAnnounced(t) \/ MutationAudited(t)
    <2>1. UNCHANGED graph /\ co'[t] # "mutating"
      BY <1>1, <1>13 DEF StartAnnounced, EmissionRaises, CompletionAnnounced, FailureAnnounced,
                         MutationAudited, Go, End, TypeOK
    <2>2. UNCHANGED mutation \/ mutation' = [mutation EXCEPT ![t] = NoMutation]
      BY <1>13 DEF StartAnnounced, EmissionRaises, CompletionAnnounced, FailureAnnounced,
                   MutationAudited
    <2>3. QED
      BY <1>6, <1>11, <2>1, <2>2
  <1>14. CASE BeginAttempt(t) \/ BeginBuild(t)
    <2>1. /\ UNCHANGED mutation /\ co'[t] # "mutating"
          /\ graph' \in { SetStatus(graph, t, "RUNNING"),
                          SetStatus(graph, t, "WAITING_FOR_CAPABILITY") }
      BY <1>1, <1>14 DEF BeginAttempt, BeginBuild, Go, TypeOK
    <2>2. QED
      BY <1>4, <1>6, <1>7, <1>11, <2>1
  <1>15. CASE ExecutorReturns(t)
    <2>1. PICK outs \in Publishable :
             \/ graph' = SetStatus(Publish(graph, t, outs), t, "COMPLETED")
             \/ graph' = Publish(graph, t, outs)
      BY <1>15 DEF ExecutorReturns
    <2>2. Publish(graph, t, outs) \in Graph /\ Kept(Publish(graph, t, outs))
      BY <1>4, <1>6, <1>8, PublishType
    <2>3. Kept(graph')
      BY <1>4, <1>7, <2>1, <2>2
    <2>4. UNCHANGED mutation /\ co'[t] # "mutating"
      BY <1>1, <1>15 DEF ExecutorReturns, Go, End, TypeOK
    <2>5. QED
      BY <1>11, <2>3, <2>4
  <1>16. CASE ExecutorRaises(t)
    <2>1. PICK kind \in ErrorKind, outs \in Publishable :
             HandleError(t, kind, Publish(graph, t, outs))
      BY <1>16 DEF ExecutorRaises
    <2>2. Publish(graph, t, outs) \in Graph /\ Kept(Publish(graph, t, outs))
      BY <1>4, <1>6, <1>8, PublishType
    <2>3. co[t] = "executing" /\ UNCHANGED mutation
      BY <1>16 DEF ExecutorRaises
    <2>4. Kept(graph') /\ co'[t] # "mutating"
      BY <1>9, <2>1, <2>2, <2>3
    <2>5. QED
      BY <1>11, <2>3, <2>4
  <1>17. ASSUME NEW m \in Mutations, Mutate(t, m)
         PROVE  /\ Kept(graph')
                /\ \A u \in Task : co'[u] = "mutating" => Kept(mutation'[u].original)
    <2> DEFINE staged == Staged(graph, m, copies + 1)
    <2>1. staged \in Graph
      BY <1>1, <1>4, <1>17, StagedType DEF TypeOK
    <2>2. Kept(staged)
      BY <1>4, <1>6 DEF Staged, Degraded, Kept, Graph
    <2>3. graph' = InvalidateReady(staged)
      BY <1>17 DEF Mutate
    <2> HIDE DEF staged
    <2>4. Kept(graph')
      BY <2>1, <2>2, <2>3, StatusFailed DEF InvalidateReady, Degraded, Kept
    <2>5. mutation'[t].original = graph /\ \A u \in Task \ {t} : mutation'[u] = mutation[u]
      BY <1>1, <1>17 DEF Mutate, TypeOK
    <2>6. QED
      BY <1>3, <1>6, <2>4, <2>5
  <1>18. ASSUME NEW m \in Mutations, MutationRefused(t, m)
         PROVE  /\ Kept(graph')
                /\ \A u \in Task : co'[u] = "mutating" => Kept(mutation'[u].original)
    <2>1. co[t] = "executing" /\ UNCHANGED mutation /\ HandleError(t, "error", graph)
      BY <1>18 DEF MutationRefused
    <2>2. QED
      BY <1>4, <1>6, <1>9, <1>11, <2>1
  <1>19. CASE MutationRolledBack(t)
    <2>1. /\ co[t] = "mutating" /\ mutation' = [mutation EXCEPT ![t] = NoMutation]
          /\ HandleError(t, "error", mutation[t].original)
      BY <1>19 DEF MutationRolledBack
    <2>2. QED
      BY <1>4, <1>6, <1>9, <1>11, <2>1
  <1>20. CASE BuildEnds(t)
    <2>1. PICK s \in { "RUNNING", "CAPABILITY_BUILD_FAILED" } : WriteHeld(t, s)
      BY <1>20 DEF BuildEnds
    <2> DEFINE Write(g) == IF g.copy = held[t] THEN SetStatus(g, t, s) ELSE g
    <2>2. ASSUME NEW g \in Graph, Kept(g) PROVE Kept(Write(g))
      BY <1>4, <1>7, <2>2
    <2>3. /\ graph' = Write(graph)
          /\ \A u \in Task : mutation'[u].original = Write(mutation[u].original)
      <3>1. \A u \in Task : mutation[u] \in [original : Graph, added : SUBSET Task]
        BY <1>1 DEF TypeOK
      <3>2. QED
        BY <2>1, <3>1 DEF WriteHeld
    <2> HIDE DEF Write
    <2>4. co'[t] # "mutating"
      BY <1>1, <1>20 DEF BuildEnds, Go, TypeOK
    <2>5. QED
      BY <1>3, <1>4, <1>6, <2>2, <2>3, <2>4
  <1>21. CASE BuildInterrupted(t)
    <2>1. co[t] = "building" /\ UNCHANGED mutation /\ HandleError(t, "error", graph)
      BY <1>21 DEF BuildInterrupted
    <2>2. QED
      BY <1>4, <1>6, <1>9, <1>11, <2>1
  <1>22. CASE Abandon(t)
    <2>1. /\ graph' \in { graph, SetStatus(graph, t, "CANCELLED") }
          /\ mutation' = [mutation EXCEPT ![t] = NoMutation]
          /\ End(t, "cancelled")
      BY <1>22 DEF Abandon
    <2>2. co'[t] # "mutating"
      BY <1>1, <2>1 DEF End, Go, TypeOK
    <2>3. QED
      BY <1>4, <1>6, <1>7, <1>11, <2>1, <2>2
  <1>23. QED
    BY <1>13, <1>14, <1>15, <1>16, <1>17, <1>18, <1>19, <1>20, <1>21, <1>22 DEF CoroutineStep

LEMMA InitRevInv == Init => RevInv
  BY PlannedGraphType, StatusFacts
  DEF Init, RevInv, Resolved, PlannedGraph, ReviewIsEarned

\* A pass of the loop: what goes to review has been judged.
LEMMA FormWaveReviews ==
    ASSUME TypeOK, FormWave, Resolved(graph), runStatus = "RUNNING"
    PROVE  Resolved(graph') /\ ReviewIsEarned'
  <1> DEFINE admitted == Admit(graph)
             blocked == BlockFailedDependents(admitted)
             formed(ready) == WithStatus(blocked, ready, "READY")
  <1>1. graph \in Graph
    BY DEF TypeOK
  <1>2. admitted \in Graph /\ blocked \in Graph
    BY <1>1, AdmitType, BlockFailedDependentsType
  <1>3. Resolved(admitted) /\ \A ready : Resolved(formed(ready))
    BY <1>1, PassesResolve
  <1>4. \A ready :
           /\ formed(ready).tasks = blocked.tasks
           /\ \A u \in Task :
                 formed(ready).status[u] = IF u \in ready THEN "READY" ELSE blocked.status[u]
    BY <1>2, StatusFailed
  <1>5. blocked.tasks \subseteq Task
    BY <1>2 DEF Graph
  <1>6. \/ AllCompleted(admitted) /\ graph' = admitted
        \/ \E ready :
              /\ graph' = formed(ready)
              /\ runStatus' = IF ready # {} THEN runStatus
                              ELSE IF SettledForReview(blocked) THEN "REVIEW" ELSE "FAILED"
    BY DEF FormWave
  <1> HIDE DEF admitted, blocked, formed
  <1>7. CASE AllCompleted(admitted) /\ graph' = admitted
    BY <1>3, <1>7 DEF ReviewIsEarned
  <1>8. ASSUME NEW ready, graph' = formed(ready),
               runStatus' = IF ready # {} THEN runStatus
                            ELSE IF SettledForReview(blocked) THEN "REVIEW" ELSE "FAILED"
        PROVE  Resolved(graph') /\ ReviewIsEarned'
    <2>1. ASSUME runStatus' = "REVIEW"
          PROVE  /\ SettledForReview(graph')
                 /\ \A t \in graph'.tasks :
                       graph'.status[t] = "FAILED" => "degraded" \in graph'.outputs[t]
      <3>1. ready = {} /\ SettledForReview(blocked)
        BY <1>8, <2>1
      <3>2. SettledForReview(graph')
        BY <1>4, <1>5, <1>8, <3>1 DEF SettledForReview
      <3>3. QED
        BY <1>3, <1>4, <1>5, <1>8, <3>2 DEF Resolved, Degraded
    <2>2. QED
      BY <1>3, <1>8, <2>1 DEF ReviewIsEarned
  <1>9. QED
    BY <1>6, <1>7, <1>8

\* Judging the wave: an error nobody recorded as a degraded output is fatal.
LEMMA JudgedWaveResolves ==
    ASSUME TypeOK, Accounted(graph), \A t \in Task : result[t] # "cancelled",
           \A t \in wave : ~Fatal(t)
    PROVE  Resolved(graph)
  BY DEF Accounted, Excuse, Fatal, Degraded, Resolved, ErrorKind

LEMMA NextRevInv == IInv /\ EndInv /\ RevInv /\ [Next]_vars => RevInv'
  <1> SUFFICES ASSUME IInv, EndInv, RevInv, [Next]_vars PROVE RevInv'
    OBVIOUS
  <1>1. TypeOK /\ graph \in Graph
    BY DEF IInv, TypeOK
  <1>2. CASE UNCHANGED vars
    BY <1>2 DEF RevInv, Resolved, Accounted, Excuse, Restorable, ReviewIsEarned, vars
  <1>3. CASE Begin
    BY <1>1, <1>3, PassesResolve DEF Begin, RevInv, Resolved, ReviewIsEarned
  <1>4. CASE RunStarted
    BY <1>4 DEF RunStarted, RevInv, Resolved, ReviewIsEarned
  <1>5. CASE FormWave
    <2>1. main = "loop" /\ main' \in { "announcing", "closing" }
      BY <1>5 DEF FormWave
    <2>2. Resolved(graph) /\ runStatus = "RUNNING"
      BY <2>1 DEF RevInv, EndInv, Open
    <2>3. Resolved(graph)' /\ ReviewIsEarned'
      BY <1>1, <1>5, <2>2, FormWaveReviews DEF Resolved
    <2>4. QED
      BY <2>1, <2>3 DEF RevInv
  <1>6. CASE WaveAnnounced
    <2>1. Resolved(graph) /\ UNCHANGED <<graph, runStatus>>
      BY <1>6 DEF WaveAnnounced, RevInv
    <2>2. ReviewIsEarned'
      BY <2>1 DEF RevInv, ReviewIsEarned
    <2>3. CASE main' = "raised"
      BY <2>2, <2>3 DEF RevInv
    <2>4. CASE main' = "gather"
      <3>1. \A u \in Task : co'[u] # "mutating"
        BY <1>6, <2>4 DEF WaveAnnounced
      <3>2. (\A g \in Restorable : Accounted(g))'
        BY <2>1, <3>1 DEF Restorable, Accounted, Resolved
      <3>3. QED
        BY <2>2, <2>4, <3>2 DEF RevInv
    <2>5. QED
      BY <1>6, <2>3, <2>4 DEF WaveAnnounced
  <1>7. CASE WaveSettled
    <2>1. CASE EnterCancellation
      BY <2>1 DEF EnterCancellation, RevInv, ReviewIsEarned
    <2>2. CASE ~EnterCancellation
      <3>1. /\ main = "gather" /\ main' = "checkpointing" /\ ~cancelled
            /\ UNCHANGED <<graph, runStatus, wave, co, result>>
        BY <1>7, <2>2 DEF WaveSettled, coVars
      <3>2. Accounted(graph) /\ \A t \in Task : result[t] # "cancelled"
        BY <3>1 DEF RevInv, Restorable, EndInv
      <3>3. Accounted(graph)'
        BY <3>1, <3>2 DEF Accounted, Excuse
      <3>4. QED
        BY <3>1, <3>2, <3>3 DEF RevInv, ReviewIsEarned
    <2>3. QED
      BY <2>1, <2>2
  <1>8. CASE WaveCheckpointed
    <2>1. main = "checkpointing" /\ runStatus = "RUNNING" /\ UNCHANGED result
      BY <1>8 DEF WaveCheckpointed, EndInv, Open
    <2>2. Accounted(graph) /\ \A t \in Task : result[t] # "cancelled"
      BY <2>1 DEF RevInv
    <2>3. CASE main' = "loop" /\ UNCHANGED <<graph, runStatus>> /\ \A t \in wave : ~Fatal(t)
      <3>1. Resolved(graph)
        BY <1>1, <2>2, <2>3, JudgedWaveResolves
      <3>2. QED
        BY <2>1, <2>3, <3>1 DEF RevInv, Resolved, ReviewIsEarned
    <2>4. CASE main' \in { "closing", "raised" } /\ runStatus' # "REVIEW"
      BY <2>4 DEF RevInv, ReviewIsEarned
    <2>5. QED
      BY <1>8, <2>1, <2>3, <2>4 DEF WaveCheckpointed
  <1>9. CASE RunClosed \/ CancellationClosed \/ RunSealed
    BY <1>9 DEF RunClosed, CancellationClosed, RunSealed, RevInv, ReviewIsEarned
  <1>10. CASE CancelRun
    <2>1. CASE EnterCancellation
      BY <2>1 DEF EnterCancellation, RevInv, ReviewIsEarned
    <2>2. CASE UNCHANGED <<graph, runStatus>> /\ main' = "raised"
      BY <2>2 DEF RevInv, ReviewIsEarned
    <2>3. CASE UNCHANGED <<main, graph, runStatus>>
      <3>1. UNCHANGED <<wave, co, result, mutation>>
        BY <1>10 DEF CancelRun, coVars
      <3>2. QED
        BY <2>3, <3>1 DEF RevInv, Resolved, Accounted, Excuse, Restorable, ReviewIsEarned
    <2>4. QED
      BY <1>10, <2>1, <2>2, <2>3 DEF CancelRun
  <1>11. ASSUME NEW t \in Task, CoroutineStep(t) PROVE RevInv'
    <2>1. main = "gather"
      <3>1. co[t] \notin { "idle", "ended" }
        BY <1>1, <1>11, CoroutineEffect
      <3>2. QED
        BY <3>1 DEF IInv, Quiet
    <2>2. UNCHANGED <<main, runStatus>> /\ runStatus = "RUNNING"
      BY <1>1, <1>11, <2>1, CoroutineFrame DEF EndInv, Open
    <2>3. (\A g \in Restorable : Accounted(g))'
      BY <1>11, <2>1, CoroutineAccounts DEF RevInv
    <2>4. QED
      BY <2>1, <2>2, <2>3 DEF RevInv, ReviewIsEarned
  <1>12. QED
    BY <1>2, <1>3, <1>4, <1>5, <1>6, <1>7, <1>8, <1>9, <1>10, <1>11
    DEF Next, SchedulerStep, Finished

\* Only a run whose every failure was recorded as a degraded output, and whose
\* every task is over, goes to review, whatever was replanned, put back, retried
\* or lost on the way.
THEOREM ReviewsAreEarned == Spec => []ReviewIsEarned
  <1>1. RevInv => ReviewIsEarned
    BY DEF RevInv
  <1>2. QED
    BY <1>1, IInvHolds, EndInvHolds, InitRevInv, NextRevInv, PTL DEF Spec

-----------------------------------------------------------------------------
(* Completions.  What each operation does to the completed tasks of a      *)
(* graph: the passes of the scheduler leave them alone, the transition     *)
(* table has no way out of COMPLETED, and only an executor that returned   *)
(* adds to them.                                                           *)

Completed(g) == { t \in Task : g.status[t] = "COMPLETED" }

LEMMA CompletedSet ==
    ASSUME NEW g \in Graph
    PROVE  /\ \A t \in Task, s \in TaskStatus :
                /\ SetStatus(g, t, s).tasks = g.tasks
                /\ SetStatus(g, t, s).version = g.version
                /\ Completed(SetStatus(g, t, s)) =
                      IF s = "COMPLETED" THEN Completed(g) \cup {t} ELSE Completed(g) \ {t}
           /\ \A S, s : s # "COMPLETED" =>
                /\ WithStatus(g, S, s).tasks = g.tasks
                /\ WithStatus(g, S, s).version = g.version
                /\ Completed(WithStatus(g, S, s)) = Completed(g) \ S
  <1>1. ASSUME NEW t \in Task, NEW s \in TaskStatus
        PROVE  /\ SetStatus(g, t, s).tasks = g.tasks
               /\ SetStatus(g, t, s).version = g.version
               /\ Completed(SetStatus(g, t, s)) =
                     IF s = "COMPLETED" THEN Completed(g) \cup {t} ELSE Completed(g) \ {t}
    <2>1. SetStatus(g, t, s).tasks = g.tasks /\ SetStatus(g, t, s).version = g.version
      BY DEF SetStatus, Graph
    <2>2. QED
      BY <2>1, StatusFailed DEF Completed
  <1>2. ASSUME NEW S, NEW s, s # "COMPLETED"
        PROVE  /\ WithStatus(g, S, s).tasks = g.tasks
               /\ WithStatus(g, S, s).version = g.version
               /\ Completed(WithStatus(g, S, s)) = Completed(g) \ S
    <2>1. WithStatus(g, S, s).tasks = g.tasks /\ WithStatus(g, S, s).version = g.version
      BY DEF WithStatus, Graph
    <2>2. QED
      BY <1>2, <2>1, StatusFailed DEF Completed
  <1>3. QED
    BY <1>1, <1>2

SameCompletions(g, h) ==
    Completed(g) = Completed(h) /\ g.tasks = h.tasks /\ g.version = h.version

LEMMA PassesKeepCompletions ==
    ASSUME NEW g \in Graph
    PROVE  /\ SameCompletions(Admit(g), g)
           /\ SameCompletions(BlockFailedDependents(g), g)
           /\ SameCompletions(CancelTasks(g), g)
           /\ SameCompletions(InvalidateReady(g), g)
           /\ \A ready \in Promotions(g) :
                 ready \subseteq g.tasks /\ SameCompletions(WithStatus(g, ready, "READY"), g)
  <1>1. SameCompletions(Admit(g), g)
    <2>1. Admit(g).tasks = g.tasks /\ Admit(g).version = g.version
      BY DEF Admit, Graph
    <2>2. \A t \in Task : Admit(g).status[t] =
              IF t \in g.tasks /\ g.status[t] = "CREATED" THEN "WAITING" ELSE g.status[t]
      BY DEF Admit, Graph
    <2>3. QED
      BY <2>1, <2>2 DEF SameCompletions, Completed
  <1>2. ASSUME NEW S, NEW s, s # "COMPLETED", S \cap Completed(g) = {}
        PROVE  SameCompletions(WithStatus(g, S, s), g)
    <2>1. /\ WithStatus(g, S, s).tasks = g.tasks
          /\ WithStatus(g, S, s).version = g.version
          /\ Completed(WithStatus(g, S, s)) = Completed(g) \ S
      BY <1>2, CompletedSet
    <2>2. Completed(g) \ S = Completed(g)
      BY <1>2
    <2>3. QED
      BY <2>1, <2>2 DEF SameCompletions
  <1>3. SameCompletions(BlockFailedDependents(g), g)
    <2> DEFINE waiting == InStatus(g, {"WAITING"})
    <2>1. PICK S : BlockFailedDependents(g) = WithStatus(g, S, "BLOCKED") /\ S \subseteq waiting
      BY DEF BlockFailedDependents
    <2>2. waiting \cap Completed(g) = {}
      BY DEF InStatus, Completed
    <2>3. QED
      BY <1>2, <2>1, <2>2
  <1>4. SameCompletions(CancelTasks(g), g)
    <2>1. (g.tasks \ InStatus(g, TerminalTaskStatus)) \cap Completed(g) = {}
      BY DEF InStatus, Completed, TerminalTaskStatus
    <2>2. QED
      BY <1>2, <2>1 DEF CancelTasks
  <1>5. SameCompletions(InvalidateReady(g), g)
    <2>1. InStatus(g, {"READY"}) \cap Completed(g) = {}
      BY DEF InStatus, Completed
    <2>2. QED
      BY <1>2, <2>1 DEF InvalidateReady
  <1>6. ASSUME NEW ready \in Promotions(g)
        PROVE  ready \subseteq g.tasks /\ SameCompletions(WithStatus(g, ready, "READY"), g)
    <2>1. ready \subseteq InStatus(g, {"WAITING", "BLOCKED"})
      BY DEF Promotions
    <2>2. ready \subseteq g.tasks /\ ready \cap Completed(g) = {}
      BY <2>1 DEF InStatus, Completed
    <2>3. QED
      BY <1>2, <2>2
  <1>7. QED
    BY <1>1, <1>3, <1>4, <1>5, <1>6

LEMMA PublishKeepsCompletions ==
    ASSUME NEW g \in Graph, NEW t \in Task, NEW outs
    PROVE  SameCompletions(Publish(g, t, outs), g)
  BY DEF SameCompletions, Completed, Publish, Graph

LEMMA StagedCompletions ==
    ASSUME NEW g \in Graph, NEW m, NEW c
    PROVE  /\ Completed(Staged(g, m, c)) = Completed(g) \ m.added
           /\ Staged(g, m, c).tasks = g.tasks \cup m.added
           /\ Staged(g, m, c).version = g.version + 1
  BY DEF Completed, Staged

\* No error takes a completion back: COMPLETED has no next status.
LEMMA HandleErrorCompletions ==
    ASSUME TypeOK, NEW t \in Task, NEW kind, NEW g \in Graph, HandleError(t, kind, g)
    PROVE  /\ SameCompletions(graph', g)
           /\ co'[t] \in { "failing", "backoff", "ended" }
  <1>1. "READY" \in TaskStatus /\ "FAILED" \in TaskStatus
    BY StatusFacts
  <1>2. ASSUME NEW s \in { "READY", "FAILED" }, CanTransition(g.status[t], s)
        PROVE  SameCompletions(SetStatus(g, t, s), g)
    <2>1. AllowedTransitions["COMPLETED"] = {}
      BY DEF AllowedTransitions, TaskStatus
    <2>2. g.status[t] # "COMPLETED"
      BY <1>2, <2>1 DEF CanTransition
    <2>3. QED
      BY <1>1, <1>2, <2>2, CompletedSet DEF SameCompletions, Completed
  <1>3. \/ graph' = g
        \/ \E s \in { "READY", "FAILED" } :
              CanTransition(g.status[t], s) /\ graph' = SetStatus(g, t, s)
    BY DEF HandleError
  <1>4. \E place \in { "failing", "backoff", "ended" } : Go(t, place)
    BY DEF HandleError, End
  <1>5. co'[t] \in { "failing", "backoff", "ended" }
    BY <1>4 DEF Go, TypeOK
  <1>6. QED
    BY <1>2, <1>3, <1>5 DEF SameCompletions

-----------------------------------------------------------------------------
(* What a run returned for review has told the log.  Between the status    *)
(* and the event a completion is told by its own coroutine: it is about to *)
(* emit, or it ended with an error that stops the run.  A rollback may put *)
(* back a graph whose completions are older, so the same is asked of every *)
(* graph that may come back.                                               *)

CompletedSomewhere == UNION { Completed(g) : g \in Restorable }

Telling(t) ==
    \/ t \in events.completed
    \/ co[t] = "completing"
    \/ t \in wave /\ co[t] = "ended" /\ result[t] \in { "error", "cancelled" }

ToldInv ==
    /\ main \in { "admitted", "starting", "loop", "announcing" } =>
          Completed(graph) \subseteq events.completed
    /\ main \in { "gather", "checkpointing" } =>
          \A t \in CompletedSomewhere : Telling(t)
    /\ runStatus = "REVIEW" => Completed(graph) \subseteq events.completed

\* A cancelled run is cancelled as soon as its wave is over.
CancelInv == cancelled => main \in { "gather", "raised" } \/ runStatus = "CANCELLED"

LEMMA InitCancelInv == Init => CancelInv
  BY DEF Init, CancelInv

LEMMA NextCancelInv == IInv /\ EndInv /\ CancelInv /\ [Next]_vars => CancelInv'
  <1> SUFFICES ASSUME IInv, EndInv, CancelInv, [Next]_vars PROVE CancelInv'
    OBVIOUS
  <1>1. CASE UNCHANGED vars
    BY <1>1 DEF CancelInv, vars
  <1>2. CASE Begin \/ RunStarted \/ FormWave \/ WaveAnnounced \/ WaveCheckpointed
    <2>1. main \in Open \ { "gather" } /\ UNCHANGED cancelled
      BY <1>2 DEF Begin, RunStarted, FormWave, WaveAnnounced, WaveCheckpointed, Open
    <2>2. runStatus # "CANCELLED" /\ main \notin { "gather", "raised" }
      BY <2>1 DEF EndInv, Open
    <2>3. QED
      BY <2>1, <2>2 DEF CancelInv
  <1>3. CASE WaveSettled
    BY <1>3 DEF WaveSettled, EnterCancellation, CancelInv
  <1>4. CASE RunClosed \/ CancellationClosed \/ RunSealed
    BY <1>4 DEF RunClosed, CancellationClosed, RunSealed, CancelInv
  <1>5. CASE CancelRun
    BY <1>5 DEF CancelRun, EnterCancellation, CancelInv
  <1>6. ASSUME NEW t \in Task, CoroutineStep(t) PROVE CancelInv'
    BY <1>6, CoroutineFrame DEF IInv, CancelInv
  <1>7. QED
    BY <1>1, <1>2, <1>3, <1>4, <1>5, <1>6 DEF Next, SchedulerStep, Finished

\* How a completion reaches the log: on the emission that follows it, or not at
\* all, and then the coroutine ends with an error or a cancellation.
LEMMA CompletionIsTold ==
    ASSUME TypeOK, NEW t \in Task, CoroutineStep(t)
    PROVE  /\ \/ events'.completed = events.completed
              \/ co[t] = "completing" /\ events'.completed = events.completed \cup {t}
           /\ co[t] = "completing" =>
                 /\ co'[t] = "ended"
                 /\ t \in events'.completed \/ result'[t] \in { "error", "cancelled" }
  <1> USE DEF coUnchanged
  <1>1. CASE co[t] # "completing"
    <2>1. ~CompletionAnnounced(t)
      BY <1>1 DEF CompletionAnnounced
    <2>2. /\ \A S : [events EXCEPT !.failed = S].completed = events.completed
          /\ \A S : [events EXCEPT !.added = S].completed = events.completed
      BY DEF TypeOK, EventLog
    <2>3. CASE Abandon(t)
      BY <1>1, <2>2, <2>3 DEF Abandon
    <2>4. CASE FailureAnnounced(t) \/ MutationAudited(t) \/ MutationRolledBack(t)
      <3>1. FailureAnnounced(t) => events'.completed = events.completed
        BY DEF FailureAnnounced, TypeOK, EventLog
      <3>2. MutationAudited(t) => events'.completed = events.completed
        BY DEF MutationAudited, TypeOK, EventLog
      <3>3. MutationRolledBack(t) => events'.completed = events.completed
        BY DEF MutationRolledBack, TypeOK, EventLog
      <3>4. QED
        BY <1>1, <2>4, <3>1, <3>2, <3>3
    <2>5. CASE \/ BeginAttempt(t) \/ StartAnnounced(t) \/ EmissionRaises(t)
               \/ ExecutorReturns(t) \/ ExecutorRaises(t) \/ BeginBuild(t)
               \/ BuildEnds(t) \/ BuildInterrupted(t)
               \/ \E m \in Mutations : Mutate(t, m) \/ MutationRefused(t, m)
      <3>1. UNCHANGED events
        BY <2>5 DEF BeginAttempt, StartAnnounced, EmissionRaises, ExecutorReturns,
                    ExecutorRaises, BeginBuild, BuildEnds, BuildInterrupted, Mutate,
                    MutationRefused
      <3>2. QED
        BY <1>1, <3>1
    <2>6. QED
      BY <1>1, <2>1, <2>3, <2>4, <2>5 DEF CoroutineStep
  <1>2. CASE co[t] = "completing"
    <2>1. EmissionRaises(t) \/ CompletionAnnounced(t) \/ Abandon(t)
      BY <1>2 DEF CoroutineStep, BeginAttempt, StartAnnounced, ExecutorReturns,
                  ExecutorRaises, FailureAnnounced, Mutate, MutationRefused,
                  MutationAudited, MutationRolledBack, BeginBuild, BuildEnds, BuildInterrupted
    <2>2. [events EXCEPT !.completed = @ \cup {t}].completed = events.completed \cup {t}
      BY DEF TypeOK, EventLog
    <2>3. ASSUME NEW r, End(t, r) PROVE co'[t] = "ended" /\ result'[t] = r
      BY <2>3 DEF End, Go, TypeOK
    <2>4. CASE EmissionRaises(t)
      BY <2>3, <2>4 DEF EmissionRaises
    <2>5. CASE CompletionAnnounced(t)
      BY <2>2, <2>3, <2>5 DEF CompletionAnnounced
    <2>6. CASE Abandon(t)
      <3>1. co'[t] = "ended" /\ result'[t] = "cancelled"
        BY <2>3, <2>6 DEF Abandon
      <3>2. events' \in { events, [events EXCEPT !.completed = @ \cup {t}] }
        BY <1>2, <2>6 DEF Abandon
      <3>3. QED
        BY <1>2, <2>2, <3>1, <3>2
    <2>7. QED
      BY <1>2, <2>1, <2>4, <2>5, <2>6
  <1>3. QED
    BY <1>1, <1>2

\* A step of one coroutine completes at most its own task, in the graph it
\* makes and in those that a rollback may still put back.
LEMMA CoroutineCompletes ==
    ASSUME TypeOK, NEW t \in Task, CoroutineStep(t)
    PROVE  \A u \in CompletedSomewhere' :
              u \in CompletedSomewhere \/ (u = t /\ co'[t] = "completing")
  <1> USE DEF coUnchanged
  <1> DEFINE Known(g) == \A u \in Completed(g) :
                            u \in CompletedSomewhere \/ (u = t /\ co'[t] = "completing")
  <1>1. /\ graph \in Graph /\ \A u \in Task : mutation[u].original \in Graph
        /\ "error" \in ErrorKind
        /\ { "RUNNING", "READY", "CANCELLED", "COMPLETED", "WAITING_FOR_CAPABILITY",
             "CAPABILITY_BUILD_FAILED", "WAITING" } \subseteq TaskStatus
    BY StatusFacts DEF TypeOK, ErrorKind
  <1>2. \A u \in Task \ {t} : co'[u] = co[u]
    <2>1. \E place \in CoPlace : Go(t, place)
      BY CoroutineEffect
    <2>2. QED
      BY <2>1 DEF Go, TypeOK
  <1>3. /\ Known(graph)
        /\ \A u \in Task : co[u] = "mutating" => Known(mutation[u].original)
    BY DEF CompletedSomewhere, Restorable
  <1>4. ASSUME NEW g \in Graph, Known(g), NEW h, SameCompletions(h, g)
        PROVE  Known(h)
    BY <1>4 DEF SameCompletions
  <1>5. ASSUME NEW g \in Graph, Known(g), NEW u \in Task,
               NEW s \in TaskStatus, s # "COMPLETED"
        PROVE  Known(SetStatus(g, u, s))
    BY <1>5, CompletedSet
  <1>6. ASSUME NEW g \in Graph, Known(g), NEW kind \in ErrorKind, HandleError(t, kind, g)
        PROVE  Known(graph') /\ co'[t] # "mutating"
    BY <1>4, <1>6, HandleErrorCompletions
  <1>7. SUFFICES /\ Known(graph')
                 /\ \A u \in Task : co'[u] = "mutating" => Known(mutation'[u].original)
    <2>1. \A g \in Restorable' : Known(g)
      BY <1>7 DEF Restorable
    <2>2. QED
      BY <2>1 DEF CompletedSomewhere
  <1> HIDE DEF Known
  <1>8. ASSUME UNCHANGED mutation \/ mutation' = [mutation EXCEPT ![t] = NoMutation],
               co'[t] # "mutating"
        PROVE  \A u \in Task : co'[u] = "mutating" => Known(mutation'[u].original)
    BY <1>2, <1>3, <1>8 DEF TypeOK
  <1>9. CASE \/ StartAnnounced(t) \/ EmissionRaises(t) \/ CompletionAnnounced(t)
             \/ FailureAnnounced(t) \/ MutationAudited(t)
    <2>1. UNCHANGED graph /\ co'[t] # "mutating"
      BY <1>9 DEF StartAnnounced, EmissionRaises, CompletionAnnounced, FailureAnnounced,
                  MutationAudited, Go, End, TypeOK
    <2>2. UNCHANGED mutation \/ mutation' = [mutation EXCEPT ![t] = NoMutation]
      BY <1>9 DEF StartAnnounced, EmissionRaises, CompletionAnnounced, FailureAnnounced,
                  MutationAudited
    <2>3. QED
      BY <1>3, <1>8, <2>1, <2>2
  <1>10. CASE BeginAttempt(t) \/ BeginBuild(t)
    <2>1. /\ UNCHANGED mutation /\ co'[t] # "mutating"
          /\ graph' \in { SetStatus(graph, t, "RUNNING"),
                          SetStatus(graph, t, "WAITING_FOR_CAPABILITY") }
      BY <1>10 DEF BeginAttempt, BeginBuild, Go, TypeOK
    <2>2. QED
      BY <1>1, <1>3, <1>5, <1>8, <2>1
  <1>11. CASE ExecutorReturns(t)
    <2>1. PICK outs \in Publishable :
             \/ graph' = SetStatus(Publish(graph, t, outs), t, "COMPLETED") /\ Go(t, "completing")
             \/ graph' = Publish(graph, t, outs)
      BY <1>11 DEF ExecutorReturns
    <2>2. Publish(graph, t, outs) \in Graph /\ Known(Publish(graph, t, outs))
      BY <1>1, <1>3, <1>4, PublishType, PublishKeepsCompletions
    <2>3. ASSUME graph' = SetStatus(Publish(graph, t, outs), t, "COMPLETED"), Go(t, "completing")
          PROVE  Known(graph')
      <3>1. co'[t] = "completing"
        BY <2>3 DEF Go, TypeOK
      <3>2. Completed(graph') = Completed(Publish(graph, t, outs)) \cup {t}
        BY <1>1, <2>2, <2>3, CompletedSet
      <3>3. QED
        BY <2>2, <3>1, <3>2 DEF Known
    <2>4. UNCHANGED mutation /\ co'[t] # "mutating"
      BY <1>11 DEF ExecutorReturns, Go, End, TypeOK
    <2>5. QED
      BY <1>8, <2>1, <2>2, <2>3, <2>4
  <1>12. CASE ExecutorRaises(t)
    <2>1. PICK kind \in ErrorKind, outs \in Publishable :
             HandleError(t, kind, Publish(graph, t, outs))
      BY <1>12 DEF ExecutorRaises
    <2>2. Publish(graph, t, outs) \in Graph /\ Known(Publish(graph, t, outs))
      BY <1>1, <1>3, <1>4, PublishType, PublishKeepsCompletions
    <2>3. UNCHANGED mutation
      BY <1>12 DEF ExecutorRaises
    <2>4. QED
      BY <1>6, <1>8, <2>1, <2>2, <2>3
  <1>13. ASSUME NEW m \in Mutations, Mutate(t, m)
         PROVE  /\ Known(graph')
                /\ \A u \in Task : co'[u] = "mutating" => Known(mutation'[u].original)
    <2> DEFINE staged == Staged(graph, m, copies + 1)
    <2>1. staged \in Graph
      BY <1>1, <1>13, StagedType DEF TypeOK
    <2>2. Known(staged)
      BY <1>1, <1>3, StagedCompletions DEF Known
    <2>3. graph' = InvalidateReady(staged)
      BY <1>13 DEF Mutate
    <2> HIDE DEF staged
    <2>4. Known(graph')
      BY <1>4, <2>1, <2>2, <2>3, PassesKeepCompletions
    <2>5. mutation'[t].original = graph /\ \A u \in Task \ {t} : mutation'[u] = mutation[u]
      BY <1>13 DEF Mutate, TypeOK
    <2>6. QED
      BY <1>2, <1>3, <2>4, <2>5
  <1>14. ASSUME NEW m \in Mutations, MutationRefused(t, m)
         PROVE  /\ Known(graph')
                /\ \A u \in Task : co'[u] = "mutating" => Known(mutation'[u].original)
    <2>1. UNCHANGED mutation /\ HandleError(t, "error", graph)
      BY <1>14 DEF MutationRefused
    <2>2. QED
      BY <1>1, <1>3, <1>6, <1>8, <2>1
  <1>15. CASE MutationRolledBack(t)
    <2>1. /\ co[t] = "mutating" /\ mutation' = [mutation EXCEPT ![t] = NoMutation]
          /\ HandleError(t, "error", mutation[t].original)
      BY <1>15 DEF MutationRolledBack
    <2>2. QED
      BY <1>1, <1>3, <1>6, <1>8, <2>1
  <1>16. CASE BuildEnds(t)
    <2>1. PICK s \in { "RUNNING", "CAPABILITY_BUILD_FAILED" } : WriteHeld(t, s)
      BY <1>16 DEF BuildEnds
    <2> DEFINE Write(g) == IF g.copy = held[t] THEN SetStatus(g, t, s) ELSE g
    <2>2. ASSUME NEW g \in Graph, Known(g) PROVE Known(Write(g))
      BY <1>1, <1>5, <2>2
    <2>3. /\ graph' = Write(graph)
          /\ \A u \in Task : mutation'[u].original = Write(mutation[u].original)
      <3>1. \A u \in Task : mutation[u] \in [original : Graph, added : SUBSET Task]
        BY DEF TypeOK
      <3>2. QED
        BY <2>1, <3>1 DEF WriteHeld
    <2> HIDE DEF Write
    <2>4. co'[t] # "mutating"
      BY <1>16 DEF BuildEnds, Go, TypeOK
    <2>5. QED
      BY <1>1, <1>2, <1>3, <2>2, <2>3, <2>4
  <1>17. CASE BuildInterrupted(t)
    <2>1. UNCHANGED mutation /\ HandleError(t, "error", graph)
      BY <1>17 DEF BuildInterrupted
    <2>2. QED
      BY <1>1, <1>3, <1>6, <1>8, <2>1
  <1>18. CASE Abandon(t)
    <2>1. /\ graph' \in { graph, SetStatus(graph, t, "CANCELLED") }
          /\ mutation' = [mutation EXCEPT ![t] = NoMutation]
          /\ End(t, "cancelled")
      BY <1>18 DEF Abandon
    <2>2. co'[t] # "mutating"
      BY <2>1 DEF End, Go, TypeOK
    <2>3. QED
      BY <1>1, <1>3, <1>5, <1>8, <2>1, <2>2
  <1>19. QED
    BY <1>9, <1>10, <1>11, <1>12, <1>13, <1>14, <1>15, <1>16, <1>17, <1>18 DEF CoroutineStep

LEMMA InitToldInv == Init => ToldInv
  <1> SUFFICES ASSUME Init PROVE ToldInv
    OBVIOUS
  <1>1. Completed(graph) = {} /\ main = "admitted" /\ runStatus = "PLANNING"
    BY DEF Init, PlannedGraph, Completed
  <1>2. QED
    BY <1>1 DEF ToldInv

\* The passes of the loop complete nothing.
LEMMA FormWaveCompletions ==
    ASSUME TypeOK, FormWave
    PROVE  SameCompletions(graph', graph)
  <1> DEFINE blocked == BlockFailedDependents(Admit(graph))
  <1>1. /\ Admit(graph) \in Graph /\ blocked \in Graph
        /\ SameCompletions(Admit(graph), graph) /\ SameCompletions(blocked, Admit(graph))
    BY AdmitType, BlockFailedDependentsType, PassesKeepCompletions DEF TypeOK
  <1>2. \/ graph' = Admit(graph)
        \/ \E ready \in Promotions(blocked) : graph' = WithStatus(blocked, ready, "READY")
    BY DEF FormWave
  <1> HIDE DEF blocked
  <1>3. QED
    BY <1>1, <1>2, PassesKeepCompletions DEF SameCompletions

LEMMA NextToldInv ==
    IInv /\ EndInv /\ CancelInv /\ ToldInv /\ [Next]_vars => ToldInv'
  <1> SUFFICES ASSUME IInv, EndInv, CancelInv, ToldInv, [Next]_vars PROVE ToldInv'
    OBVIOUS
  <1>1. /\ TypeOK /\ graph \in Graph
        /\ [events EXCEPT !.terminal = "FAILED"].completed = events.completed
        /\ [events EXCEPT !.terminal = "CANCELLED"].completed = events.completed
    BY DEF IInv, TypeOK, EventLog
  <1>2. CASE UNCHANGED vars
    BY <1>2 DEF ToldInv, Telling, Completed, CompletedSomewhere, Restorable, vars
  <1>3. CASE Begin \/ RunStarted \/ FormWave
    <2>1. /\ Completed(graph') = Completed(graph)
          /\ main \in { "admitted", "starting", "loop" }
          /\ main' \notin { "gather", "checkpointing" }
          /\ UNCHANGED events
      <3>1. SameCompletions(Admit(graph), graph)
        BY <1>1, PassesKeepCompletions
      <3>2. FormWave => Completed(graph') = Completed(graph)
        BY <1>1, FormWaveCompletions DEF SameCompletions
      <3>3. QED
        BY <1>3, <3>1, <3>2 DEF Begin, RunStarted, FormWave, SameCompletions
    <2>2. Completed(graph)' \subseteq events'.completed
      BY <2>1 DEF ToldInv, Completed
    <2>3. QED
      BY <2>1, <2>2 DEF ToldInv
  <1>4. CASE WaveAnnounced
    <2>1. Completed(graph) \subseteq events.completed /\ UNCHANGED <<graph, runStatus, events>>
      BY <1>4 DEF WaveAnnounced, ToldInv
    <2>2. Completed(graph)' \subseteq events'.completed
      BY <2>1 DEF Completed
    <2>3. CASE main' = "raised"
      BY <2>2, <2>3 DEF ToldInv
    <2>4. CASE main' = "gather"
      <3>1. \A u \in Task : co'[u] # "mutating"
        BY <1>4, <2>4 DEF WaveAnnounced
      <3>2. CompletedSomewhere' = Completed(graph)'
        BY <3>1 DEF CompletedSomewhere, Restorable, Completed
      <3>3. QED
        BY <2>2, <2>4, <3>2 DEF ToldInv, Telling
    <2>5. QED
      BY <1>4, <2>3, <2>4 DEF WaveAnnounced
  <1>5. CASE WaveSettled
    <2>1. CASE EnterCancellation
      BY <2>1 DEF EnterCancellation, ToldInv
    <2>2. CASE ~EnterCancellation
      <3>1. /\ main = "gather" /\ main' = "checkpointing"
            /\ UNCHANGED <<graph, runStatus, wave, co, result, mutation, events>>
        BY <1>5, <2>2 DEF WaveSettled, coVars
      <3>2. QED
        BY <3>1 DEF ToldInv, Telling, Completed, CompletedSomewhere, Restorable
    <2>3. QED
      BY <2>1, <2>2
  \* The errors of the wave are judged: who could not tell stops the run.
  <1>6. CASE WaveCheckpointed
    <2>1. /\ main = "checkpointing" /\ runStatus = "RUNNING"
          /\ UNCHANGED <<result, events, cancelled>>
      BY <1>6 DEF WaveCheckpointed, EndInv, Open
    <2>2. CASE main' = "loop" /\ UNCHANGED <<graph, runStatus>> /\ \A t \in wave : ~Fatal(t)
      <3>1. \A t \in Completed(graph) : Telling(t)
        BY <2>1 DEF ToldInv, CompletedSomewhere, Restorable
      <3>2. \A t \in Task : co[t] # "completing"
        BY <2>1 DEF IInv, Quiet
      <3>3. \A t \in Task : result[t] # "cancelled"
        BY <2>1 DEF EndInv, CancelInv
      <3>4. \A t \in wave : result[t] # "error"
        BY <2>2 DEF Fatal
      <3>5. Completed(graph) \subseteq events.completed
        BY <3>1, <3>2, <3>3, <3>4 DEF Telling, Completed
      <3>6. QED
        BY <2>1, <2>2, <3>5 DEF ToldInv, Completed
    <2>3. CASE main' \in { "closing", "raised" } /\ runStatus' # "REVIEW"
      BY <2>3 DEF ToldInv
    <2>4. QED
      BY <1>6, <2>1, <2>2, <2>3 DEF WaveCheckpointed
  <1>7. CASE RunClosed \/ CancellationClosed \/ RunSealed
    <2>1. /\ main' \in { "sealing", "raised", "returned" }
          /\ UNCHANGED <<graph, runStatus>> /\ events'.completed = events.completed
      BY <1>1, <1>7 DEF RunClosed, CancellationClosed, RunSealed
    <2>2. QED
      BY <2>1 DEF ToldInv, Completed
  <1>8. CASE CancelRun
    <2>1. CASE EnterCancellation
      BY <2>1 DEF EnterCancellation, ToldInv
    <2>2. CASE ~EnterCancellation
      <3>1. /\ main' = "raised" \/ main' = main
            /\ UNCHANGED <<graph, runStatus, wave, co, result, mutation, events>>
        BY <1>8, <2>2 DEF CancelRun, coVars
      <3>2. QED
        BY <3>1 DEF ToldInv, Telling, Completed, CompletedSomewhere, Restorable
    <2>3. QED
      BY <2>1, <2>2
  <1>9. ASSUME NEW t \in Task, CoroutineStep(t) PROVE ToldInv'
    <2>1. co[t] \notin { "idle", "ended" } /\ t \in Task
      BY <1>1, <1>9, CoroutineEffect
    <2>2. main = "gather" /\ t \in wave
      BY <2>1 DEF IInv, Quiet
    <2>3. UNCHANGED <<main, runStatus, wave>> /\ runStatus = "RUNNING"
      BY <1>1, <1>9, <2>2, CoroutineFrame DEF EndInv, Open
    <2>4. \A u \in Task \ {t} : co'[u] = co[u] /\ result'[u] = result[u]
      BY <1>1, <1>9, CoroutineFrame, ExcuseKept
    <2>5. events.completed \subseteq events'.completed
      BY <1>1, <1>9, CompletionIsTold
    <2>6. ASSUME NEW u \in Task, Telling(u) PROVE Telling(u)'
      <3>1. CASE u # t
        BY <2>3, <2>4, <2>5, <2>6, <3>1 DEF Telling
      <3>2. CASE u = t
        <4>1. t \in events.completed \/ co[t] = "completing"
          BY <2>1, <2>6, <3>2 DEF Telling
        <4>2. t \in events'.completed \/ (co'[t] = "ended" /\ result'[t] \in { "error", "cancelled" })
          BY <1>1, <1>9, <2>5, <4>1, CompletionIsTold
        <4>3. QED
          BY <2>2, <2>3, <3>2, <4>2 DEF Telling
      <3>3. QED
        BY <3>1, <3>2
    <2>7. \A u \in CompletedSomewhere' : Telling(u)'
      <3>1. CompletedSomewhere \subseteq Task
        BY DEF CompletedSomewhere, Completed
      <3>2. \A u \in CompletedSomewhere : Telling(u)
        BY <2>2 DEF ToldInv
      <3>3. \A u \in CompletedSomewhere' :
               u \in CompletedSomewhere \/ (u = t /\ co'[t] = "completing")
        BY <1>1, <1>9, CoroutineCompletes
      <3>4. co'[t] = "completing" => Telling(t)'
        BY DEF Telling
      <3>5. QED
        BY <2>6, <3>1, <3>2, <3>3, <3>4
    <2>8. QED
      BY <2>2, <2>3, <2>7 DEF ToldInv
  <1>10. QED
    BY <1>2, <1>3, <1>4, <1>5, <1>6, <1>7, <1>8, <1>9 DEF Next, SchedulerStep, Finished

-----------------------------------------------------------------------------
(* While every write succeeds nothing is rolled back, and the graph only   *)
(* grows: completions stay, the log says exactly which, and every task is  *)
(* planned, announced or in an audit under way.                            *)

AtWork == { "starting", "executing", "building", "mutating" }

Auditing == UNION { mutation[t].added : t \in { u \in Task : co[u] = "mutating" } }

CleanInv ==
    faults = 0 =>
        /\ \A t \in Task : co[t] = "completing" => t \in Completed(graph)
        /\ \A t \in Task : co[t] \in AtWork => t \notin Completed(graph)
        /\ Completed(graph) \subseteq graph.tasks
        /\ main \in { "announcing", "gather" } => wave \subseteq graph.tasks
        /\ events.completed \subseteq Completed(graph)
        /\ ~cancelled => graph.tasks = Planned \cup events.added \cup Auditing
        /\ \A v \in events.versions : v <= graph.version

\* A step of one coroutine in which no write fails, without the three that do.
CleanStep(t) ==
    \/ BeginAttempt(t) \/ StartAnnounced(t) \/ ExecutorReturns(t) \/ CompletionAnnounced(t)
    \/ ExecutorRaises(t) \/ FailureAnnounced(t)
    \/ \E m \in Mutations : Mutate(t, m) \/ MutationRefused(t, m)
    \/ MutationAudited(t) \/ BeginBuild(t) \/ BuildEnds(t) \/ Abandon(t)

LEMMA CleanSteps ==
    ASSUME TypeOK, NEW t \in Task, CoroutineStep(t), faults' = 0
    PROVE  faults = 0 /\ CleanStep(t)
  <1>1. Raises => faults' # 0
    BY DEF Raises, TypeOK
  <1>2. ~EmissionRaises(t) /\ ~MutationRolledBack(t) /\ ~BuildInterrupted(t)
    BY <1>1 DEF EmissionRaises, MutationRolledBack, BuildInterrupted
  <1>3. CleanStep(t)
    BY <1>2 DEF CoroutineStep, CleanStep
  <1>4. UNCHANGED faults
    BY <1>3 DEF CleanStep, BeginAttempt, StartAnnounced, ExecutorReturns, CompletionAnnounced,
                ExecutorRaises, FailureAnnounced, Mutate, MutationRefused, MutationAudited,
                BeginBuild, BuildEnds, Abandon
  <1>5. QED
    BY <1>3, <1>4

\* What such a step does to the completions, the tasks and the version.
LEMMA CleanStepGraph ==
    ASSUME TypeOK, NEW t \in Task, CleanStep(t),
           co[t] \in AtWork => t \notin Completed(graph),
           Completed(graph) \subseteq graph.tasks
    PROVE  /\ Completed(graph') = IF co'[t] = "completing" THEN Completed(graph) \cup {t}
                                  ELSE Completed(graph)
           /\ graph.tasks \subseteq graph'.tasks
           /\ graph.version <= graph'.version
           /\ co'[t] \in AtWork => t \notin Completed(graph)
  <1>1. /\ graph \in Graph /\ graph.version \in Nat /\ "error" \in ErrorKind
        /\ { "RUNNING", "READY", "CANCELLED", "COMPLETED", "WAITING_FOR_CAPABILITY",
             "CAPABILITY_BUILD_FAILED", "WAITING" } \subseteq TaskStatus
    BY StatusFacts DEF TypeOK, ErrorKind, Graph
  <1>2. \A place : Go(t, place) => co'[t] = place
    BY DEF Go, TypeOK
  <1>3. \A s : CanTransition(graph.status[t], s) /\ s # "COMPLETED" => t \notin Completed(graph)
    <2>1. AllowedTransitions["COMPLETED"] = {}
      BY DEF AllowedTransitions, TaskStatus
    <2>2. QED
      BY <2>1 DEF CanTransition, Completed
  \* A step that leaves the completions alone and does not begin to emit one.
  <1>4. ASSUME SameCompletions(graph', graph), co'[t] # "completing",
               co'[t] \in AtWork => co[t] \in AtWork \/ t \notin Completed(graph)
        PROVE  /\ Completed(graph') = IF co'[t] = "completing" THEN Completed(graph) \cup {t}
                                      ELSE Completed(graph)
               /\ graph.tasks \subseteq graph'.tasks
               /\ graph.version <= graph'.version
               /\ co'[t] \in AtWork => t \notin Completed(graph)
    BY <1>1, <1>4 DEF SameCompletions
  <1>5. SameCompletions(graph, graph)
    BY DEF SameCompletions
  <1>6. \A s \in TaskStatus : s # "COMPLETED" /\ t \notin Completed(graph) =>
            SameCompletions(SetStatus(graph, t, s), graph)
    <2> SUFFICES ASSUME NEW s \in TaskStatus, s # "COMPLETED", t \notin Completed(graph)
                 PROVE  SameCompletions(SetStatus(graph, t, s), graph)
      OBVIOUS
    <2>1. /\ SetStatus(graph, t, s).tasks = graph.tasks
          /\ SetStatus(graph, t, s).version = graph.version
          /\ Completed(SetStatus(graph, t, s)) = Completed(graph) \ {t}
      BY <1>1, CompletedSet
    <2>2. Completed(graph) \ {t} = Completed(graph)
      OBVIOUS
    <2>3. QED
      BY <2>1, <2>2 DEF SameCompletions
  <1>7. CASE BeginAttempt(t)
    <2>1. t \notin Completed(graph) /\ graph' = SetStatus(graph, t, "RUNNING")
      BY <1>3, <1>7 DEF BeginAttempt
    <2>2. co'[t] = "starting"
      BY <1>2, <1>7 DEF BeginAttempt
    <2>3. QED
      BY <1>1, <1>4, <1>6, <2>1, <2>2
  <1>8. CASE StartAnnounced(t) \/ CompletionAnnounced(t) \/ FailureAnnounced(t) \/ MutationAudited(t)
    <2>1. UNCHANGED graph
      BY <1>8 DEF StartAnnounced, CompletionAnnounced, FailureAnnounced, MutationAudited
    <2>2. co'[t] = "ended" \/ (co'[t] = "executing" /\ co[t] \in { "starting", "mutating" })
      BY <1>2, <1>8 DEF StartAnnounced, CompletionAnnounced, FailureAnnounced, MutationAudited, End
    <2>3. QED
      BY <1>4, <1>5, <2>1, <2>2 DEF AtWork
  <1>9. CASE ExecutorReturns(t)
    <2>1. PICK outs \in Publishable :
             \/ graph' = SetStatus(Publish(graph, t, outs), t, "COMPLETED") /\ Go(t, "completing")
             \/ graph' = Publish(graph, t, outs) /\ End(t, "error")
      BY <1>9 DEF ExecutorReturns
    <2> DEFINE published == Publish(graph, t, outs)
    <2>2. published \in Graph /\ SameCompletions(published, graph)
      BY <1>1, PublishType, PublishKeepsCompletions
    <2> HIDE DEF published
    <2>3. CASE graph' = SetStatus(published, t, "COMPLETED") /\ Go(t, "completing")
      <3>1. co'[t] = "completing" /\ "completing" \notin AtWork
        BY <1>2, <2>3 DEF AtWork
      <3>2. /\ Completed(graph') = Completed(published) \cup {t}
            /\ graph'.tasks = published.tasks /\ graph'.version = published.version
        BY <1>1, <2>2, <2>3, CompletedSet
      <3>3. QED
        BY <1>1, <2>2, <3>1, <3>2 DEF SameCompletions
    <2>4. CASE graph' = published /\ End(t, "error")
      <3>1. co'[t] = "ended"
        BY <1>2, <2>4 DEF End
      <3>2. QED
        BY <1>4, <2>2, <2>4, <3>1 DEF AtWork
    <2>5. QED
      BY <2>1, <2>3, <2>4 DEF published
  <1>10. CASE ExecutorRaises(t)
    <2>1. PICK kind \in ErrorKind, outs \in Publishable :
             HandleError(t, kind, Publish(graph, t, outs))
      BY <1>10 DEF ExecutorRaises
    <2>2. Publish(graph, t, outs) \in Graph /\ SameCompletions(Publish(graph, t, outs), graph)
      BY <1>1, PublishType, PublishKeepsCompletions
    <2>3. /\ SameCompletions(graph', Publish(graph, t, outs))
          /\ co'[t] \in { "failing", "backoff", "ended" }
      BY <2>1, <2>2, HandleErrorCompletions
    <2>4. QED
      BY <1>4, <2>2, <2>3 DEF SameCompletions, AtWork
  <1>11. ASSUME NEW m \in Mutations, Mutate(t, m)
         PROVE  /\ Completed(graph') = IF co'[t] = "completing" THEN Completed(graph) \cup {t}
                                       ELSE Completed(graph)
                /\ graph.tasks \subseteq graph'.tasks
                /\ graph.version <= graph'.version
                /\ co'[t] \in AtWork => t \notin Completed(graph)
    <2> DEFINE staged == Staged(graph, m, copies + 1)
    <2>1. staged \in Graph
      BY <1>1, <1>11, StagedType DEF TypeOK
    <2>2. m.added \cap graph.tasks = {}
      BY <1>11 DEF Mutate, Admissible
    <2>3. /\ Completed(staged) = Completed(graph)
          /\ graph.tasks \subseteq staged.tasks
          /\ staged.version = graph.version + 1
      <3>1. /\ Completed(staged) = Completed(graph) \ m.added
            /\ staged.tasks = graph.tasks \cup m.added
            /\ staged.version = graph.version + 1
        BY <1>1, StagedCompletions
      <3> HIDE DEF staged
      <3>2. Completed(graph) \ m.added = Completed(graph)
        BY <2>2
      <3>3. QED
        BY <3>1, <3>2
    <2>4. graph' = InvalidateReady(staged) /\ co[t] = "executing" /\ co'[t] = "mutating"
      BY <1>2, <1>11 DEF Mutate
    <2> HIDE DEF staged
    <2>5. SameCompletions(graph', staged)
      BY <2>1, <2>4, PassesKeepCompletions
    <2>6. QED
      BY <1>1, <2>3, <2>4, <2>5 DEF SameCompletions, AtWork
  <1>12. ASSUME NEW m \in Mutations, MutationRefused(t, m)
         PROVE  /\ SameCompletions(graph', graph)
                /\ co'[t] \in { "failing", "backoff", "ended" }
    BY <1>1, <1>12, HandleErrorCompletions DEF MutationRefused
  <1>13. CASE \E m \in Mutations : MutationRefused(t, m)
    BY <1>4, <1>12, <1>13 DEF AtWork
  <1>14. CASE BeginBuild(t)
    <2>1. t \notin Completed(graph) /\ graph' = SetStatus(graph, t, "WAITING_FOR_CAPABILITY")
      BY <1>14 DEF BeginBuild, Completed
    <2>2. co'[t] = "building"
      BY <1>2, <1>14 DEF BeginBuild
    <2>3. QED
      BY <1>1, <1>4, <1>6, <2>1, <2>2
  <1>15. CASE BuildEnds(t)
    <2>1. PICK s \in { "RUNNING", "CAPABILITY_BUILD_FAILED" } : WriteHeld(t, s)
      BY <1>15 DEF BuildEnds
    <2>2. co[t] = "building" /\ co'[t] = "executing"
      BY <1>2, <1>15 DEF BuildEnds
    <2>3. graph' \in { graph, SetStatus(graph, t, s) }
      BY <2>1 DEF WriteHeld
    <2>4. QED
      BY <1>1, <1>4, <1>5, <1>6, <2>2, <2>3 DEF AtWork
  <1>16. CASE Abandon(t)
    <2>1. co'[t] = "ended"
      BY <1>2, <1>16 DEF Abandon, End
    <2>2. \/ graph' = graph
          \/ co[t] \in AtWork /\ graph' = SetStatus(graph, t, "CANCELLED")
      BY <1>16 DEF Abandon, AtWork
    <2>3. QED
      BY <1>1, <1>4, <1>5, <1>6, <2>1, <2>2 DEF AtWork
  <1>17. QED
    BY <1>7, <1>8, <1>9, <1>10, <1>11, <1>13, <1>14, <1>15, <1>16 DEF CleanStep

\* What such a step does to the announcements: a staged task is in an audit
\* until the log has it, and a version is logged when the graph has it.
LEMMA CleanStepLog ==
    ASSUME TypeOK, NEW t \in Task, CleanStep(t)
    PROVE  /\ events'.versions \subseteq events.versions \cup { graph'.version }
           /\ ~cancelled /\ graph.tasks = Planned \cup events.added \cup Auditing =>
                 graph'.tasks = Planned \cup events'.added \cup Auditing'
  <1> USE DEF coUnchanged
  <1>1. /\ graph \in Graph /\ "error" \in ErrorKind
        /\ { "RUNNING", "COMPLETED", "WAITING_FOR_CAPABILITY", "CAPABILITY_BUILD_FAILED" }
              \subseteq TaskStatus
    BY StatusFacts DEF TypeOK, ErrorKind
  <1>2. \A place : Go(t, place) =>
           co'[t] = place /\ \A u \in Task \ {t} : co'[u] = co[u]
    BY DEF Go, TypeOK
  \* A step that starts no audit and ends none.
  <1>3. ASSUME co[t] # "mutating", co'[t] # "mutating", \A u \in Task \ {t} : co'[u] = co[u],
               \A u \in Task : mutation'[u].added = mutation[u].added
        PROVE  Auditing' = Auditing
    BY <1>3 DEF Auditing
  <1>4. ASSUME graph'.tasks = graph.tasks, events'.added = events.added, Auditing' = Auditing,
               events'.versions = events.versions
        PROVE  /\ events'.versions \subseteq events.versions \cup { graph'.version }
               /\ ~cancelled /\ graph.tasks = Planned \cup events.added \cup Auditing =>
                     graph'.tasks = Planned \cup events'.added \cup Auditing'
    BY <1>4
  <1>5. CASE \/ BeginAttempt(t) \/ StartAnnounced(t) \/ BeginBuild(t)
    <2>1. /\ co[t] # "mutating" /\ co'[t] # "mutating" /\ UNCHANGED <<mutation, events>>
          /\ \A u \in Task \ {t} : co'[u] = co[u]
      BY <1>2, <1>5 DEF BeginAttempt, StartAnnounced, BeginBuild
    <2>2. graph'.tasks = graph.tasks
      BY <1>1, <1>5, CompletedSet DEF BeginAttempt, StartAnnounced, BeginBuild
    <2>3. QED
      BY <1>3, <1>4, <2>1, <2>2
  <1>6. CASE CompletionAnnounced(t) \/ FailureAnnounced(t)
    <2>1. /\ co[t] # "mutating" /\ co'[t] # "mutating" /\ UNCHANGED <<mutation, graph>>
          /\ \A u \in Task \ {t} : co'[u] = co[u]
      BY <1>2, <1>6 DEF CompletionAnnounced, FailureAnnounced, End
    <2>2. CompletionAnnounced(t) => events'.added = events.added /\ events'.versions = events.versions
      BY DEF CompletionAnnounced, TypeOK, EventLog
    <2>3. FailureAnnounced(t) => events'.added = events.added /\ events'.versions = events.versions
      BY DEF FailureAnnounced, TypeOK, EventLog
    <2>4. QED
      BY <1>3, <1>4, <1>6, <2>1, <2>2, <2>3
  <1>7. CASE ExecutorReturns(t)
    <2>1. PICK outs \in Publishable :
             \/ graph' = SetStatus(Publish(graph, t, outs), t, "COMPLETED")
             \/ graph' = Publish(graph, t, outs)
      BY <1>7 DEF ExecutorReturns
    <2>2. Publish(graph, t, outs) \in Graph /\ Publish(graph, t, outs).tasks = graph.tasks
      BY <1>1, PublishType, PublishKeepsCompletions DEF SameCompletions
    <2>3. graph'.tasks = graph.tasks
      BY <1>1, <2>1, <2>2, CompletedSet
    <2>4. /\ co[t] # "mutating" /\ co'[t] # "mutating" /\ UNCHANGED <<mutation, events>>
          /\ \A u \in Task \ {t} : co'[u] = co[u]
      BY <1>2, <1>7 DEF ExecutorReturns, End
    <2>5. QED
      BY <1>3, <1>4, <2>3, <2>4
  <1>8. ASSUME NEW kind \in ErrorKind, NEW g \in Graph, HandleError(t, kind, g), g.tasks = graph.tasks,
               co[t] = "executing", UNCHANGED <<mutation, events>>
        PROVE  /\ events'.versions \subseteq events.versions \cup { graph'.version }
               /\ ~cancelled /\ graph.tasks = Planned \cup events.added \cup Auditing =>
                     graph'.tasks = Planned \cup events'.added \cup Auditing'
    <2>1. graph'.tasks = graph.tasks /\ co'[t] # "mutating"
      BY <1>8, HandleErrorCompletions DEF SameCompletions
    <2>2. \A u \in Task \ {t} : co'[u] = co[u]
      BY <1>2, <1>8, HandleErrorPlace
    <2>3. QED
      BY <1>3, <1>4, <1>8, <2>1, <2>2
  <1>9. CASE ExecutorRaises(t)
    <2>1. PICK kind \in ErrorKind, outs \in Publishable :
             HandleError(t, kind, Publish(graph, t, outs))
      BY <1>9 DEF ExecutorRaises
    <2>2. Publish(graph, t, outs) \in Graph /\ Publish(graph, t, outs).tasks = graph.tasks
      BY <1>1, PublishType, PublishKeepsCompletions DEF SameCompletions
    <2>3. co[t] = "executing" /\ UNCHANGED <<mutation, events>>
      BY <1>9 DEF ExecutorRaises
    <2>4. QED
      BY <1>8, <2>1, <2>2, <2>3
  <1>10. ASSUME NEW m \in Mutations, MutationRefused(t, m)
         PROVE  /\ events'.versions \subseteq events.versions \cup { graph'.version }
                /\ ~cancelled /\ graph.tasks = Planned \cup events.added \cup Auditing =>
                      graph'.tasks = Planned \cup events'.added \cup Auditing'
    BY <1>1, <1>8, <1>10 DEF MutationRefused
  <1>11. ASSUME NEW m \in Mutations, Mutate(t, m)
         PROVE  /\ events'.versions \subseteq events.versions \cup { graph'.version }
                /\ ~cancelled /\ graph.tasks = Planned \cup events.added \cup Auditing =>
                      graph'.tasks = Planned \cup events'.added \cup Auditing'
    <2> DEFINE staged == Staged(graph, m, copies + 1)
    <2>1. staged \in Graph
      BY <1>1, <1>11, StagedType DEF TypeOK
    <2>2. staged.tasks = graph.tasks \cup m.added
      BY <1>1, StagedCompletions
    <2>3. graph' = InvalidateReady(staged)
      BY <1>11 DEF Mutate
    <2> HIDE DEF staged
    <2>4. graph'.tasks = graph.tasks \cup m.added
      BY <2>1, <2>2, <2>3, PassesKeepCompletions DEF SameCompletions
    <2>5. /\ co[t] # "mutating" /\ co'[t] = "mutating" /\ UNCHANGED events
          /\ \A u \in Task \ {t} : co'[u] = co[u]
      BY <1>2, <1>11 DEF Mutate
    <2>6. mutation'[t].added = m.added /\ \A u \in Task \ {t} : mutation'[u] = mutation[u]
      BY <1>11 DEF Mutate, TypeOK
    <2>7. Auditing' = Auditing \cup m.added
      BY <2>5, <2>6 DEF Auditing
    <2>8. QED
      BY <2>4, <2>5, <2>7
  <1>12. CASE MutationAudited(t)
    <2>1. /\ co[t] = "mutating" /\ co'[t] = "executing" /\ UNCHANGED graph
          /\ \A u \in Task \ {t} : co'[u] = co[u]
      BY <1>2, <1>12 DEF MutationAudited
    <2>2. \A u \in Task \ {t} : mutation'[u] = mutation[u]
      BY <1>12 DEF MutationAudited, TypeOK
    <2>3. Auditing = Auditing' \cup mutation[t].added
      BY <2>1, <2>2 DEF Auditing
    <2>4. /\ events'.added = events.added \cup mutation[t].added
          /\ events'.versions = events.versions \cup { graph.version }
      BY <1>12 DEF MutationAudited, TypeOK, EventLog
    <2>5. QED
      BY <2>1, <2>3, <2>4
  <1>13. CASE BuildEnds(t)
    <2>1. PICK s \in { "RUNNING", "CAPABILITY_BUILD_FAILED" } : WriteHeld(t, s)
      BY <1>13 DEF BuildEnds
    <2>2. graph' \in { graph, SetStatus(graph, t, s) }
      BY <2>1 DEF WriteHeld
    <2>3. graph'.tasks = graph.tasks
      BY <1>1, <2>2, CompletedSet
    <2>4. ASSUME NEW u \in Task PROVE mutation'[u].added = mutation[u].added
      <3>1. mutation[u] \in [original : Graph, added : SUBSET Task]
        BY DEF TypeOK
      <3>2. \E h : mutation'[u] = [mutation[u] EXCEPT !.original = h]
        BY <2>1 DEF WriteHeld
      <3>3. QED
        BY <3>1, <3>2
    <2>5. /\ co[t] # "mutating" /\ co'[t] # "mutating" /\ UNCHANGED events
          /\ \A u \in Task \ {t} : co'[u] = co[u]
      BY <1>2, <1>13 DEF BuildEnds
    <2>6. QED
      BY <1>3, <1>4, <2>3, <2>4, <2>5
  <1>14. CASE Abandon(t)
    <2>1. cancelled
      BY <1>14 DEF Abandon
    <2>2. /\ [events EXCEPT !.completed = @ \cup {t}].versions = events.versions
          /\ [events EXCEPT !.failed = @ \cup {t}].versions = events.versions
          /\ [events EXCEPT !.added = @ \cup mutation[t].added].versions = events.versions
      BY DEF TypeOK, EventLog
    <2>3. events'.versions = events.versions
      BY <1>14, <2>2 DEF Abandon
    <2>4. QED
      BY <2>1, <2>3
  <1>15. QED
    BY <1>5, <1>6, <1>7, <1>9, <1>10, <1>11, <1>12, <1>13, <1>14 DEF CleanStep

\* The scheduler's own steps complete nothing, add nothing and tell nothing.
LEMMA SchedulerKeeps ==
    ASSUME TypeOK, SchedulerStep \/ CancelRun
    PROVE  /\ SameCompletions(graph', graph)
           /\ events'.completed = events.completed
           /\ events'.added = events.added
           /\ events'.versions = events.versions
           /\ UNCHANGED mutation
           /\ cancelled => cancelled'
           /\ faults' = 0 => faults = 0
  <1>1. graph \in Graph /\ faults \in Nat
    BY DEF TypeOK
  <1>2. SameCompletions(graph', graph)
    <2>1. /\ SameCompletions(graph, graph)
          /\ SameCompletions(Admit(graph), graph)
          /\ SameCompletions(BlockFailedDependents(graph), graph)
          /\ SameCompletions(CancelTasks(graph), graph)
      BY <1>1, PassesKeepCompletions DEF SameCompletions
    <2>2. CASE FormWave
      BY <2>2, FormWaveCompletions
    <2>3. CASE ~FormWave
      <3>1. graph' \in { graph, Admit(graph), BlockFailedDependents(graph), CancelTasks(graph) }
        BY <2>3
        DEF SchedulerStep, Begin, RunStarted, WaveAnnounced, WaveSettled, WaveCheckpointed,
            RunClosed, CancellationClosed, RunSealed, CancelRun, EnterCancellation
      <3>2. QED
        BY <2>1, <3>1
    <2>4. QED
      BY <2>2, <2>3
  <1>3. /\ events'.completed = events.completed
        /\ events'.added = events.added
        /\ events'.versions = events.versions
    <2>1. ASSUME NEW s
          PROVE  /\ [events EXCEPT !.terminal = s].completed = events.completed
                 /\ [events EXCEPT !.terminal = s].added = events.added
                 /\ [events EXCEPT !.terminal = s].versions = events.versions
      BY DEF TypeOK, EventLog
    <2>2. events' \in { events, [events EXCEPT !.terminal = "FAILED"],
                        [events EXCEPT !.terminal = "CANCELLED"] }
      BY DEF SchedulerStep, Begin, RunStarted, FormWave, WaveAnnounced, WaveSettled,
             WaveCheckpointed, RunClosed, CancellationClosed, RunSealed, CancelRun
    <2>3. QED
      BY <2>1, <2>2
  <1>4. UNCHANGED mutation /\ (cancelled => cancelled')
    BY DEF SchedulerStep, Begin, RunStarted, FormWave, WaveAnnounced, WaveSettled,
           WaveCheckpointed, RunClosed, CancellationClosed, RunSealed, CancelRun, coVars
  <1>5. faults' = 0 => faults = 0
    <2>1. UNCHANGED faults \/ Raises
      BY DEF SchedulerStep, Begin, RunStarted, FormWave, WaveAnnounced, WaveSettled,
             WaveCheckpointed, RunClosed, CancellationClosed, RunSealed, CancelRun
    <2>2. QED
      BY <1>1, <2>1 DEF Raises
  <1>6. QED
    BY <1>2, <1>3, <1>4, <1>5

\* ... and only the steps around a gather touch the coroutines.
LEMMA SchedulerCoroutines ==
    ASSUME IInv, SchedulerStep \/ CancelRun
    PROVE  \/ UNCHANGED co
           \/ /\ \A t \in Task : co[t] \in { "idle", "ended" }
              /\ \A t \in Task : co'[t] \in { "idle", "created" }
  <1>1. CASE WaveAnnounced \/ WaveCheckpointed
    <2>1. \A t \in Task : co[t] \in { "idle", "ended" }
      BY <1>1 DEF WaveAnnounced, WaveCheckpointed, IInv, Quiet
    <2>2. \/ UNCHANGED co
          \/ \A t \in Task : co'[t] \in { "idle", "created" }
      BY <1>1 DEF WaveAnnounced, WaveCheckpointed, Idle
    <2>3. QED
      BY <2>1, <2>2
  <1>2. CASE ~(WaveAnnounced \/ WaveCheckpointed)
    BY <1>2 DEF SchedulerStep, Begin, RunStarted, FormWave, WaveSettled, RunClosed,
                CancellationClosed, RunSealed, CancelRun, coVars
  <1>3. QED
    BY <1>1, <1>2

\* A wave is formed of tasks of the graph.
LEMMA SchedulerWave ==
    ASSUME TypeOK, SchedulerStep \/ CancelRun, main' \in { "announcing", "gather" }
    PROVE  \/ wave' \subseteq graph'.tasks
           \/ main \in { "announcing", "gather" } /\ UNCHANGED wave
  <1>1. CASE FormWave
    <2> DEFINE blocked == BlockFailedDependents(Admit(graph))
    <2>1. blocked \in Graph /\ SameCompletions(graph', graph) /\ SameCompletions(blocked, graph)
      BY <1>1, AdmitType, BlockFailedDependentsType, PassesKeepCompletions, FormWaveCompletions
      DEF TypeOK, SameCompletions
    <2>2. wave' \in Promotions(blocked)
      BY <1>1 DEF FormWave
    <2>3. wave' \subseteq blocked.tasks
      BY <2>1, <2>2, PassesKeepCompletions
    <2>4. blocked.tasks = graph'.tasks
      BY <2>1 DEF SameCompletions
    <2> HIDE DEF blocked
    <2>5. QED
      BY <2>3, <2>4
  <1>2. CASE ~FormWave
    BY <1>2 DEF SchedulerStep, Begin, RunStarted, WaveAnnounced, WaveSettled, WaveCheckpointed,
                RunClosed, CancellationClosed, RunSealed, CancelRun, EnterCancellation
  <1>3. QED
    BY <1>1, <1>2

LEMMA InitCleanInv == Init => CleanInv
  <1> SUFFICES ASSUME Init PROVE CleanInv
    OBVIOUS
  <1>1. Completed(graph) = {} /\ Auditing = {}
    BY DEF Init, PlannedGraph, Completed, Auditing, Idle
  <1>2. QED
    BY <1>1 DEF Init, CleanInv, PlannedGraph, Idle, AtWork

LEMMA NextCleanInv ==
    IInv /\ CleanInv /\ [Next]_vars =>
        /\ CleanInv'
        /\ faults' = 0 => Completed(graph) \subseteq Completed(graph')
  <1> SUFFICES ASSUME IInv, CleanInv, [Next]_vars, faults' = 0
               PROVE  CleanInv' /\ Completed(graph) \subseteq Completed(graph')
    BY DEF CleanInv
  <1>1. TypeOK /\ TypeOK' /\ graph.version \in Nat /\ graph'.version \in Nat
    BY NextType DEF IInv, TypeOK, Graph
  <1>2. CASE UNCHANGED vars
    BY <1>2 DEF CleanInv, Completed, Auditing, vars
  <1>3. CASE SchedulerStep \/ CancelRun
    <2>1. /\ SameCompletions(graph', graph)
          /\ events'.completed = events.completed
          /\ events'.added = events.added
          /\ events'.versions = events.versions
          /\ UNCHANGED mutation
          /\ cancelled => cancelled'
          /\ faults = 0
      BY <1>1, <1>3, SchedulerKeeps
    <2>2. /\ Completed(graph)' = Completed(graph) /\ graph'.tasks = graph.tasks
          /\ graph'.version = graph.version
      BY <2>1 DEF SameCompletions, Completed
    <2>3. /\ \A t \in Task : co'[t] = "completing" => co[t] = "completing"
          /\ \A t \in Task : co'[t] \in AtWork => co[t] \in AtWork
          /\ Auditing' = Auditing
      <3>1. CASE UNCHANGED co
        BY <2>1, <3>1 DEF Auditing
      <3>2. CASE /\ \A t \in Task : co[t] \in { "idle", "ended" }
                 /\ \A t \in Task : co'[t] \in { "idle", "created" }
        BY <3>2 DEF Auditing, AtWork
      <3>3. QED
        BY <1>3, <3>1, <3>2, SchedulerCoroutines
    <2>4. main' \in { "announcing", "gather" } => wave' \subseteq graph'.tasks
      BY <1>1, <1>3, <2>1, <2>2, SchedulerWave DEF CleanInv
    <2>5. CleanInv'
      BY <2>1, <2>2, <2>3, <2>4 DEF CleanInv
    <2>6. QED
      BY <2>2, <2>5 DEF Completed
  <1>4. ASSUME NEW t \in Task, CoroutineStep(t)
        PROVE  CleanInv' /\ Completed(graph) \subseteq Completed(graph')
    <2>1. faults = 0 /\ CleanStep(t)
      BY <1>1, <1>4, CleanSteps
    <2>2. co[t] \notin { "idle", "ended" } /\ UNCHANGED <<main, wave, cancelled>>
      BY <1>1, <1>4, CoroutineEffect, CoroutineFrame
    <2>3. main = "gather" /\ t \in wave /\ t \in graph.tasks
      <3>1. main = "gather" /\ t \in wave
        BY <2>2 DEF IInv, Quiet
      <3>2. QED
        BY <2>1, <3>1 DEF CleanInv
    <2>4. /\ Completed(graph') = IF co'[t] = "completing" THEN Completed(graph) \cup {t}
                                 ELSE Completed(graph)
          /\ graph.tasks \subseteq graph'.tasks
          /\ graph.version <= graph'.version
          /\ co'[t] \in AtWork => t \notin Completed(graph)
      BY <1>1, <2>1, CleanStepGraph DEF CleanInv
    <2>5. Completed(graph)' = Completed(graph')
      BY DEF Completed
    <2>6. \A u \in Task \ {t} : co'[u] = co[u]
      BY <1>4, ExcuseKept
    <2>7. /\ \A u \in Task : co'[u] = "completing" => u \in Completed(graph')
          /\ \A u \in Task : co'[u] \in AtWork => u \notin Completed(graph')
      <3>1. "completing" \notin AtWork
        BY DEF AtWork
      <3>2. QED
        BY <2>1, <2>4, <2>6, <3>1 DEF CleanInv
    <2>8. Completed(graph') \subseteq graph'.tasks /\ wave' \subseteq graph'.tasks
      BY <2>1, <2>2, <2>3, <2>4 DEF CleanInv
    <2>9. events'.completed \subseteq Completed(graph')
      <3>1. \/ events'.completed = events.completed
            \/ co[t] = "completing" /\ events'.completed = events.completed \cup {t}
        BY <1>1, <1>4, CompletionIsTold
      <3>2. QED
        BY <2>1, <2>4, <3>1 DEF CleanInv
    <2>10. ~cancelled' => graph'.tasks = Planned \cup events'.added \cup Auditing'
      BY <1>1, <2>1, <2>2, CleanStepLog DEF CleanInv
    <2>11. \A v \in events'.versions : v <= graph'.version
      <3>1. events'.versions \subseteq events.versions \cup { graph'.version }
        BY <1>1, <2>1, CleanStepLog
      <3>2. \A v \in events.versions : v \in Nat /\ v <= graph.version
        BY <1>1, <2>1 DEF CleanInv, TypeOK, EventLog
      <3>3. QED
        BY <1>1, <2>4, <3>1, <3>2
    <2>12. CleanInv'
      BY <2>5, <2>7, <2>8, <2>9, <2>10, <2>11 DEF CleanInv
    <2>13. QED
      BY <2>4, <2>12
  <1>5. QED
    BY <1>2, <1>3, <1>4 DEF Next, Finished

\* While every emission succeeds a completed task stays completed, whatever its
\* neighbours' executors mutate, build, retry or abandon on the same graph: only
\* the rollback of _apply_atomic takes a completion back.
THEOREM CompletionsSurvive == Spec => CompletionSurvivesReplans
  <1>1. IInv /\ CleanInv /\ [Next]_vars =>
           [ faults' = 0 =>
                \A t \in Task : graph.status[t] = "COMPLETED" => graph'.status[t] = "COMPLETED" ]_vars
    BY NextCleanInv DEF Completed
  <1>2. QED
    BY <1>1, IInvHolds, InitCleanInv, NextCleanInv, PTL DEF Spec, CompletionSurvivesReplans

\* A run that execute returned for review has told the log every completion the
\* graph holds, whatever was lost, rolled back or retried on the way; and with no
\* write lost, the log says neither more nor less than the graph.
THEOREM ReturnedRunsAreLogged == Spec => []ReturnedRunIsLogged
  <1>1. IInv /\ EndInv /\ CancelInv /\ ToldInv /\ CleanInv => ReturnedRunIsLogged
    <2> SUFFICES ASSUME IInv, EndInv, CancelInv, ToldInv, CleanInv, main = "returned"
                 PROVE  /\ InStatus(graph, {"COMPLETED"}) \subseteq events.completed
                        /\ faults = 0 =>
                              /\ events.completed \subseteq InStatus(graph, {"COMPLETED"})
                              /\ graph.tasks = Planned \cup events.added
                              /\ \A v \in events.versions : v <= graph.version
      BY DEF ReturnedRunIsLogged
    <2>1. runStatus = "REVIEW" /\ ~cancelled /\ graph \in Graph
      BY DEF EndInv, CancelInv, IInv, TypeOK
    <2>2. InStatus(graph, {"COMPLETED"}) \subseteq Completed(graph)
      BY <2>1 DEF InStatus, Completed, Graph
    <2>3. InStatus(graph, {"COMPLETED"}) \subseteq events.completed
      BY <2>1, <2>2 DEF ToldInv
    <2>4. ASSUME faults = 0
          PROVE  /\ events.completed \subseteq InStatus(graph, {"COMPLETED"})
                 /\ graph.tasks = Planned \cup events.added
                 /\ \A v \in events.versions : v <= graph.version
      <3>1. events.completed \subseteq Completed(graph) /\ Completed(graph) \subseteq graph.tasks
        BY <2>4 DEF CleanInv
      <3>2. events.completed \subseteq InStatus(graph, {"COMPLETED"})
        BY <3>1 DEF InStatus, Completed
      <3>3. Auditing = {}
        BY DEF IInv, Quiet, Auditing
      <3>4. QED
        BY <2>1, <2>4, <3>2, <3>3 DEF CleanInv
    <2>5. QED
      BY <2>3, <2>4
  <1>2. QED
    BY <1>1, IInvHolds, EndInvHolds, InitCancelInv, NextCancelInv, InitToldInv, NextToldInv,
       InitCleanInv, NextCleanInv, PTL DEF Spec


-----------------------------------------------------------------------------
(* What the tasks of a wave wait for is there while the wave runs, and in  *)
(* every graph that may come back, unless a replan rewires the wave itself *)
(* or a contracted task is beside a predecessor.                           *)

\* No replan rewires a task of the wave that is running.
WavesKeepEdges ==
    [][ main = "gather" => \A t \in wave : graph'.deps[t] = graph.deps[t] ]_vars

\* No contracted task is in one wave with a task it waits for.
ContractsWaitOutside ==
    main = "gather" => \A t \in wave \cap Required : graph.deps[t] \cap wave = {}

\* Task t of the wave may start on graph g, as far as the tasks outside the wave go.
Startable(g, t) ==
    /\ t \in g.tasks /\ g.deps[t] \subseteq g.tasks
    /\ IF t \in Required
       THEN /\ \A p \in g.deps[t] \ wave : g.status[p] \in Settled
            /\ \A a \in HardInput[t] : a \in g.tasks /\ "available" \in g.outputs[a]
       ELSE \A p \in g.deps[t] : p \notin wave /\ g.status[p] = "COMPLETED"

StartInv ==
    main \in { "announcing", "gather" } => \A g \in Restorable : \A t \in wave : Startable(g, t)

\* What may become of a graph without a task of the wave losing what it waits for.
Follows(g, h) ==
    /\ g.tasks \subseteq h.tasks
    /\ \A t \in wave : h.deps[t] = g.deps[t]
    /\ \A p \in g.tasks \ wave : g.status[p] \in Settled => h.status[p] = g.status[p]
    /\ \A a \in g.tasks : g.outputs[a] \subseteq h.outputs[a]

LEMMA StartableFollows ==
    ASSUME NEW g, NEW h, Follows(g, h), NEW t \in wave, Startable(g, t)
    PROVE  Startable(h, t)
  <1>1. "COMPLETED" \in Settled
    BY DEF Settled, TerminalTaskStatus
  <1>2. /\ t \in h.tasks /\ h.deps[t] = g.deps[t] /\ h.deps[t] \subseteq h.tasks
        /\ g.deps[t] \subseteq g.tasks
    BY DEF Follows, Startable
  <1>3. CASE t \in Required
    BY <1>2, <1>3 DEF Follows, Startable
  <1>4. CASE t \notin Required
    BY <1>1, <1>2, <1>4 DEF Follows, Startable
  <1>5. QED
    BY <1>3, <1>4

\* What a coroutine of the wave does to its own task disturbs no other.
LEMMA OwnTaskFollows ==
    ASSUME NEW g \in Graph, NEW t \in Task, t \in wave
    PROVE  /\ Follows(g, g)
           /\ \A s : Follows(g, SetStatus(g, t, s))
           /\ \A outs : Follows(g, Publish(g, t, outs))
  <1>1. Follows(g, g)
    BY DEF Follows
  <1>2. ASSUME NEW s PROVE Follows(g, SetStatus(g, t, s))
    <2>1. /\ SetStatus(g, t, s).tasks = g.tasks /\ SetStatus(g, t, s).deps = g.deps
          /\ SetStatus(g, t, s).outputs = g.outputs
          /\ \A p \in Task \ {t} : SetStatus(g, t, s).status[p] = g.status[p]
      BY DEF SetStatus, Graph
    <2>2. g.tasks \subseteq Task
      BY DEF Graph
    <2>3. QED
      BY <2>1, <2>2 DEF Follows
  <1>3. ASSUME NEW outs PROVE Follows(g, Publish(g, t, outs))
    <2>1. /\ Publish(g, t, outs).tasks = g.tasks /\ Publish(g, t, outs).deps = g.deps
          /\ Publish(g, t, outs).status = g.status
          /\ \A a \in Task : g.outputs[a] \subseteq Publish(g, t, outs).outputs[a]
      BY DEF Publish, Graph
    <2>2. g.tasks \subseteq Task
      BY DEF Graph
    <2>3. QED
      BY <2>1, <2>2 DEF Follows
  <1>4. QED
    BY <1>1, <1>2, <1>3

LEMMA FollowsFurther ==
    ASSUME NEW f, NEW g, NEW h, Follows(f, g), Follows(g, h)
    PROVE  Follows(f, h)
  BY DEF Follows

LEMMA HandleErrorFollows ==
    ASSUME TypeOK, NEW t \in Task, t \in wave, NEW kind, NEW g \in Graph, HandleError(t, kind, g)
    PROVE  Follows(g, graph') /\ co'[t] # "mutating"
  <1>1. graph' = g \/ \E s : graph' = SetStatus(g, t, s)
    BY DEF HandleError
  <1>2. \E place \in { "failing", "backoff", "ended" } : Go(t, place)
    BY DEF HandleError, End
  <1>3. QED
    BY <1>1, <1>2, OwnTaskFollows DEF Go, TypeOK

\* A replan that leaves the wave's edges alone leaves what its tasks wait for alone.
LEMMA StagedFollows ==
    ASSUME NEW g \in Graph, NEW m, m \in MutationType, NEW c, Admissible(g, m),
           Staged(g, m, c) \in Graph,
           \A t \in wave : InvalidateReady(Staged(g, m, c)).deps[t] = g.deps[t]
    PROVE  Follows(g, InvalidateReady(Staged(g, m, c)))
  <1> DEFINE staged == Staged(g, m, c)
             h == InvalidateReady(staged)
  <1>0. g.tasks \subseteq Task
    BY DEF Graph
  <1>1. m.added \cap g.tasks = {}
    BY DEF Admissible
  <1>2. /\ g.tasks \subseteq staged.tasks
        /\ \A p \in g.tasks : staged.status[p] = g.status[p] /\ staged.outputs[p] = g.outputs[p]
    BY <1>0, <1>1 DEF Staged
  <1>3. staged \in Graph
    OBVIOUS
  <1> HIDE DEF staged
  <1>4. /\ h.tasks = staged.tasks /\ h.outputs = staged.outputs
        /\ \A p \in Task : staged.status[p] # "READY" => h.status[p] = staged.status[p]
    BY <1>3 DEF InvalidateReady, WithStatus, InStatus, Graph
  <1>5. "READY" \notin Settled
    BY DEF Settled, TerminalTaskStatus
  <1>6. \A t \in wave : h.deps[t] = g.deps[t]
    BY DEF staged
  <1> HIDE DEF h
  <1>7. Follows(g, h)
    BY <1>0, <1>2, <1>4, <1>5, <1>6 DEF Follows
  <1>8. QED
    BY <1>7 DEF h, staged

\* A step of one coroutine keeps what the wave waits for, in the graph it makes
\* and in those that a rollback may still put back.
LEMMA CoroutineStartable ==
    ASSUME IInv, main = "gather", NEW t \in Task, CoroutineStep(t),
           \A u \in wave : graph'.deps[u] = graph.deps[u],
           \A g \in Restorable : \A u \in wave : Startable(g, u)
    PROVE  \A g \in Restorable' : \A u \in wave : Startable(g, u)
  <1> USE DEF coUnchanged
  <1> DEFINE Able(g) == \A u \in wave : Startable(g, u)
  <1>1. /\ TypeOK /\ t \in wave /\ graph \in Graph
        /\ \A u \in Task : mutation[u].original \in Graph
    BY CoroutineEffect DEF IInv, TypeOK
  <1>2. \A u \in Task \ {t} : co'[u] = co[u]
    BY ExcuseKept
  <1>3. /\ Able(graph)
        /\ \A u \in Task : co[u] = "mutating" => Able(mutation[u].original)
    BY DEF Restorable
  <1>4. ASSUME NEW g, Able(g), NEW h, Follows(g, h) PROVE Able(h)
    BY <1>4, StartableFollows
  <1>5. ASSUME NEW g \in Graph, Able(g), NEW s PROVE Able(SetStatus(g, t, s))
    BY <1>1, <1>4, <1>5, OwnTaskFollows
  <1>6. ASSUME NEW g \in Graph, Able(g), NEW kind, HandleError(t, kind, g)
        PROVE  Able(graph') /\ co'[t] # "mutating"
    BY <1>1, <1>4, <1>6, HandleErrorFollows
  <1>7. SUFFICES /\ Able(graph')
                 /\ \A u \in Task : co'[u] = "mutating" => Able(mutation'[u].original)
    BY DEF Restorable
  <1> HIDE DEF Able
  <1>8. ASSUME UNCHANGED mutation \/ mutation' = [mutation EXCEPT ![t] = NoMutation],
               co'[t] # "mutating"
        PROVE  \A u \in Task : co'[u] = "mutating" => Able(mutation'[u].original)
    BY <1>1, <1>2, <1>3, <1>8 DEF TypeOK
  <1>9. CASE \/ StartAnnounced(t) \/ EmissionRaises(t) \/ CompletionAnnounced(t)
             \/ FailureAnnounced(t) \/ MutationAudited(t)
    <2>1. UNCHANGED graph /\ co'[t] # "mutating"
      BY <1>1, <1>9 DEF StartAnnounced, EmissionRaises, CompletionAnnounced, FailureAnnounced,
                        MutationAudited, Go, End, TypeOK
    <2>2. UNCHANGED mutation \/ mutation' = [mutation EXCEPT ![t] = NoMutation]
      BY <1>9 DEF StartAnnounced, EmissionRaises, CompletionAnnounced, FailureAnnounced,
                  MutationAudited
    <2>3. QED
      BY <1>3, <1>8, <2>1, <2>2
  <1>10. CASE BeginAttempt(t) \/ BeginBuild(t)
    <2>1. /\ UNCHANGED mutation /\ co'[t] # "mutating"
          /\ \E s : graph' = SetStatus(graph, t, s)
      BY <1>1, <1>10 DEF BeginAttempt, BeginBuild, Go, TypeOK
    <2>2. QED
      BY <1>1, <1>3, <1>5, <1>8, <2>1
  <1>11. ASSUME NEW outs \in Publishable
         PROVE  Publish(graph, t, outs) \in Graph /\ Able(Publish(graph, t, outs))
    BY <1>1, <1>3, <1>4, PublishType, OwnTaskFollows
  <1>12. CASE ExecutorReturns(t)
    <2>1. PICK outs \in Publishable :
             \/ graph' = SetStatus(Publish(graph, t, outs), t, "COMPLETED")
             \/ graph' = Publish(graph, t, outs)
      BY <1>12 DEF ExecutorReturns
    <2>2. UNCHANGED mutation /\ co'[t] # "mutating"
      BY <1>1, <1>12 DEF ExecutorReturns, Go, End, TypeOK
    <2>3. QED
      BY <1>5, <1>8, <1>11, <2>1, <2>2
  <1>13. CASE ExecutorRaises(t)
    <2>1. PICK kind \in ErrorKind, outs \in Publishable :
             HandleError(t, kind, Publish(graph, t, outs))
      BY <1>13 DEF ExecutorRaises
    <2>2. UNCHANGED mutation
      BY <1>13 DEF ExecutorRaises
    <2>3. QED
      BY <1>6, <1>8, <1>11, <2>1, <2>2
  <1>14. ASSUME NEW m \in Mutations, Mutate(t, m)
         PROVE  /\ Able(graph')
                /\ \A u \in Task : co'[u] = "mutating" => Able(mutation'[u].original)
    <2>1. Admissible(graph, m) /\ graph' = InvalidateReady(Staged(graph, m, copies + 1))
      BY <1>14 DEF Mutate
    <2>2. m \in MutationType /\ copies + 1 \in Nat
      BY <1>1, SchedulerAssumption DEF TypeOK
    <2>6. Staged(graph, m, copies + 1) \in Graph
      BY <1>1, <2>2, StagedType
    <2>3. Follows(graph, graph')
      <3>1. \A u \in wave : InvalidateReady(Staged(graph, m, copies + 1)).deps[u] = graph.deps[u]
        BY <2>1
      <3>2. QED
        BY <1>1, <2>1, <2>2, <2>6, <3>1, StagedFollows
    <2>4. mutation'[t].original = graph /\ \A u \in Task \ {t} : mutation'[u] = mutation[u]
      BY <1>1, <1>14 DEF Mutate, TypeOK
    <2>5. QED
      BY <1>2, <1>3, <1>4, <2>3, <2>4
  <1>15. ASSUME NEW m \in Mutations, MutationRefused(t, m)
         PROVE  /\ Able(graph')
                /\ \A u \in Task : co'[u] = "mutating" => Able(mutation'[u].original)
    <2>1. UNCHANGED mutation /\ HandleError(t, "error", graph)
      BY <1>15 DEF MutationRefused
    <2>2. QED
      BY <1>1, <1>3, <1>6, <1>8, <2>1
  <1>16. CASE MutationRolledBack(t)
    <2>1. /\ co[t] = "mutating" /\ mutation' = [mutation EXCEPT ![t] = NoMutation]
          /\ HandleError(t, "error", mutation[t].original)
      BY <1>16 DEF MutationRolledBack
    <2>2. QED
      BY <1>1, <1>3, <1>6, <1>8, <2>1
  <1>17. CASE BuildEnds(t)
    <2>1. PICK s \in { "RUNNING", "CAPABILITY_BUILD_FAILED" } : WriteHeld(t, s)
      BY <1>17 DEF BuildEnds
    <2> DEFINE Write(g) == IF g.copy = held[t] THEN SetStatus(g, t, s) ELSE g
    <2>2. ASSUME NEW g \in Graph, Able(g) PROVE Able(Write(g))
      BY <1>5, <2>2
    <2>3. /\ graph' = Write(graph)
          /\ \A u \in Task : mutation'[u].original = Write(mutation[u].original)
      <3>1. \A u \in Task : mutation[u] \in [original : Graph, added : SUBSET Task]
        BY <1>1 DEF TypeOK
      <3>2. QED
        BY <2>1, <3>1 DEF WriteHeld
    <2> HIDE DEF Write
    <2>4. co'[t] # "mutating"
      BY <1>1, <1>17 DEF BuildEnds, Go, TypeOK
    <2>5. QED
      BY <1>1, <1>2, <1>3, <2>2, <2>3, <2>4
  <1>18. CASE BuildInterrupted(t)
    <2>1. UNCHANGED mutation /\ HandleError(t, "error", graph)
      BY <1>18 DEF BuildInterrupted
    <2>2. QED
      BY <1>1, <1>3, <1>6, <1>8, <2>1
  <1>19. CASE Abandon(t)
    <2>1. /\ graph' \in { graph, SetStatus(graph, t, "CANCELLED") }
          /\ mutation' = [mutation EXCEPT ![t] = NoMutation]
          /\ End(t, "cancelled")
      BY <1>19 DEF Abandon
    <2>2. co'[t] # "mutating"
      BY <1>1, <2>1 DEF End, Go, TypeOK
    <2>3. QED
      BY <1>1, <1>3, <1>5, <1>8, <2>1, <2>2
  <1>20. QED
    BY <1>9, <1>10, <1>12, <1>13, <1>14, <1>15, <1>16, <1>17, <1>18, <1>19 DEF CoroutineStep

\* What resolves a task to READY is in the graph.
LEMMA AncestorsInGraph ==
    ASSUME NEW g \in Graph, WellFormed(g.tasks, g.deps), NEW t \in g.tasks
    PROVE  Ancestors(g, t) \subseteq g.tasks
  <1>1. g.tasks \in SUBSET Task /\ g.deps[t] \subseteq g.tasks
    BY DEF Graph, WellFormed
  <1>2. \A b \in g.tasks : g.deps[b] \subseteq g.tasks
    BY DEF WellFormed
  <1>3. QED
    BY <1>1, <1>2 DEF Ancestors

\* The tasks of a new wave have what they wait for.
LEMMA PromotedStart ==
    ASSUME NEW g \in Graph, WellFormed(g.tasks, g.deps), wave' \in Promotions(g),
           graph' = WithStatus(g, wave', "READY"), NEW t \in wave'
    PROVE  Startable(graph, t)'
  <1>1. /\ t \in g.tasks /\ Resolve(g, t) = "READY"
        /\ \A u \in wave' : u \in g.tasks /\ g.status[u] \in { "WAITING", "BLOCKED" }
    BY DEF Promotions, InStatus
  <1>2. /\ graph'.tasks = g.tasks /\ graph'.deps = g.deps /\ graph'.outputs = g.outputs
        /\ \A p \in Task \ wave' : graph'.status[p] = g.status[p]
    BY DEF WithStatus, Graph
  <1>3. g.tasks \subseteq Task /\ g.deps[t] \subseteq g.tasks
    BY <1>1 DEF Graph, WellFormed
  <1>4. CASE t \notin Required
    <2>1. \A p \in g.deps[t] : g.status[p] = "COMPLETED"
      BY <1>1, <1>4 DEF Resolve
    <2>2. \A p \in g.deps[t] : p \notin wave'
      BY <1>1, <2>1
    <2>3. QED
      BY <1>1, <1>2, <1>3, <1>4, <2>1, <2>2 DEF Startable
  <1>5. CASE t \in Required
    <2>1. /\ \A p \in g.deps[t] : g.status[p] \in Settled
          /\ ContractMet(g, t)
      BY <1>1, <1>5 DEF Resolve
    <2>2. \A a \in HardInput[t] : a \in g.tasks /\ "available" \in g.outputs[a]
      BY <1>1, <2>1, AncestorsInGraph DEF ContractMet
    <2>3. QED
      BY <1>1, <1>2, <1>3, <1>5, <2>1, <2>2 DEF Startable
  <1>6. QED
    BY <1>4, <1>5

LEMMA NextStartInv ==
    ASSUME IInv, IInv', GInv, StartInv, [Next]_vars,
           main = "gather" => \A t \in wave : graph'.deps[t] = graph.deps[t]
    PROVE  StartInv'
  <1>1. CASE UNCHANGED vars
    BY <1>1 DEF StartInv, Startable, Restorable, vars
  <1>2. CASE Begin \/ RunStarted \/ WaveSettled \/ WaveCheckpointed \/ RunClosed
             \/ CancellationClosed \/ RunSealed
    <2>1. main' \notin { "announcing", "gather" }
      BY <1>2 DEF Begin, RunStarted, WaveSettled, EnterCancellation, WaveCheckpointed, RunClosed,
                  CancellationClosed, RunSealed
    <2>2. QED
      BY <2>1 DEF StartInv
  <1>3. CASE FormWave
    <2> DEFINE admitted == Admit(graph)
               blocked == BlockFailedDependents(admitted)
    <2>1. CASE AllCompleted(admitted)
      <3>1. main' = "closing"
        BY <1>3, <2>1 DEF FormWave
      <3>2. QED
        BY <3>1 DEF StartInv
    <2>2. CASE ~AllCompleted(admitted)
      <3>1. /\ wave' \in Promotions(blocked) /\ graph' = WithStatus(blocked, wave', "READY")
            /\ main' \in { "announcing", "closing" }
        BY <1>3, <2>2 DEF FormWave
      <3>2. admitted \in Graph /\ SameShape(admitted, graph)
        BY AdmitType, StatusShape DEF IInv, TypeOK
      <3>3. blocked \in Graph /\ SameShape(blocked, admitted)
        <4> HIDE DEF admitted
        <4>1. QED
          BY <3>2, BlockFailedDependentsType, StatusShape
      <3>4. WellFormed(blocked.tasks, blocked.deps)
        BY <3>2, <3>3 DEF GInv, ActualGraphWellFormed, SameShape
      <3> HIDE DEF blocked
      <3>5. \A t \in wave' : Startable(graph, t)'
        BY <3>1, <3>3, <3>4, PromotedStart
      <3>6. main' # "gather" /\ \A t \in Task : co'[t] # "mutating"
        BY <3>1 DEF IInv, Quiet
      <3>7. \A g \in Restorable' : g = graph'
        BY <3>6 DEF Restorable
      <3>8. QED
        BY <3>5, <3>7 DEF StartInv
    <2>3. QED
      BY <2>1, <2>2
  <1>4. CASE WaveAnnounced
    <2>1. main = "announcing" /\ main' \in { "gather", "raised" } /\ UNCHANGED <<graph, wave>>
      BY <1>4 DEF WaveAnnounced
    <2>2. main' = "gather" => \A t \in Task : co'[t] # "mutating"
      BY <1>4 DEF WaveAnnounced
    <2>3. main' = "gather" => \A g \in Restorable' : g = graph
      BY <2>1, <2>2 DEF Restorable
    <2>4. \A t \in wave : Startable(graph, t)
      BY <2>1 DEF StartInv, Restorable
    <2>5. QED
      BY <2>1, <2>3, <2>4 DEF StartInv, Startable
  <1>5. CASE CancelRun
    <2>1. \/ main = "gather" /\ UNCHANGED <<main, graph, wave, co, mutation>>
          \/ main' \in { "raised", "cancelling" }
      BY <1>5 DEF CancelRun, EnterCancellation, coVars
    <2>2. QED
      BY <2>1 DEF StartInv, Startable, Restorable
  <1>6. CASE Finished
    BY <1>1, <1>6 DEF Finished
  <1>7. ASSUME NEW t \in Task, CoroutineStep(t) PROVE StartInv'
    <2>1. co[t] \notin { "idle", "ended" } /\ UNCHANGED <<main, wave>>
      BY <1>7, CoroutineEffect DEF IInv
    <2>2. main = "gather"
      BY <2>1 DEF IInv, Quiet
    <2>3. \A g \in Restorable : \A u \in wave : Startable(g, u)
      BY <2>2 DEF StartInv
    <2>4. \A g \in Restorable' : \A u \in wave : Startable(g, u)
      BY <1>7, <2>2, <2>3, CoroutineStartable
    <2>5. QED
      BY <2>1, <2>4 DEF StartInv, Startable
  <1>8. QED
    BY <1>1, <1>2, <1>3, <1>4, <1>5, <1>6, <1>7 DEF Next, SchedulerStep

LEMMA InitStartInv == Init => StartInv
  BY DEF Init, StartInv

\* An attempt begins in a wave, and what its task waits for is there.
LEMMA StartIsSatisfied ==
    ASSUME IInv, StartInv, ContractsWaitOutside, [Next]_vars,
           NEW t \in Task, attempts'[t] # attempts[t]
    PROVE  Satisfied(t)
  <1>1. BeginAttempt(t)
    <2>1. ~UNCHANGED attempts
      OBVIOUS
    <2>2. ~(SchedulerStep \/ CancelRun \/ Finished \/ UNCHANGED vars)
      BY <2>1 DEF SchedulerStep, CancelRun, Finished, vars, coVars, Begin, RunStarted, FormWave,
                  WaveAnnounced, WaveSettled, WaveCheckpointed, RunClosed, CancellationClosed,
                  RunSealed
    <2>3. PICK u \in Task : CoroutineStep(u)
      BY <2>2 DEF Next
    <2>4. BeginAttempt(u)
      BY <2>1, <2>3 DEF CoroutineStep, StartAnnounced, EmissionRaises, ExecutorReturns,
            CompletionAnnounced, ExecutorRaises, FailureAnnounced, Mutate, MutationRefused,
            MutationAudited, MutationRolledBack, BeginBuild, BuildEnds, BuildInterrupted, Abandon
    <2>5. u = t
      BY <2>4 DEF BeginAttempt, IInv, TypeOK
    <2>6. QED
      BY <2>4, <2>5
  <1>2. main = "gather" /\ t \in wave
    BY <1>1 DEF BeginAttempt, IInv
  <1>3. Startable(graph, t)
    BY <1>2 DEF StartInv, Restorable
  <1>4. CASE t \in Required
    <2>1. \A p \in graph.deps[t] : p \notin wave
      BY <1>2, <1>4 DEF ContractsWaitOutside
    <2>2. QED
      BY <1>3, <1>4, <2>1 DEF Startable, Satisfied
  <1>5. CASE t \notin Required
    BY <1>3, <1>5 DEF Startable, Satisfied
  <1>6. QED
    BY <1>4, <1>5

\* A task starts only when its edges and its output contract are satisfied in
\* the graph as it is at that moment, for every plan and replan, unless one of
\* two things happens: a replan rewires a task of the wave that runs, or the
\* promote pass puts a contracted task beside a task it waits for.
THEOREM StartsAreSatisfied ==
    Spec /\ WavesKeepEdges /\ []ContractsWaitOutside => StartsSatisfied
  <1>1. IInv /\ IInv' /\ GInv /\ StartInv /\ [Next]_vars
        /\ [ main = "gather" => \A t \in wave : graph'.deps[t] = graph.deps[t] ]_vars
            => StartInv'
    <2>1. ASSUME IInv, IInv', GInv, StartInv, [Next]_vars, UNCHANGED vars PROVE StartInv'
      BY <2>1 DEF StartInv, Startable, Restorable, vars
    <2>2. QED
      BY <2>1, NextStartInv
  <1>2. IInv /\ StartInv /\ ContractsWaitOutside /\ [Next]_vars =>
           [ \A t \in Task : attempts'[t] # attempts[t] => Satisfied(t) ]_vars
    BY StartIsSatisfied
  <1>3. QED
    BY <1>1, <1>2, IInvHolds, InitGInv, NextGInv, InitStartInv, PTL
    DEF Spec, WavesKeepEdges, StartsSatisfied
=============================================================================
