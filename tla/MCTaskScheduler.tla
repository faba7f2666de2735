--------------------------- MODULE MCTaskScheduler ---------------------------
(***************************************************************************)
(* Small plans for TaskScheduler: the research pipeline with its risk      *)
(* replan, and plans that put two mutating executors in one wave.          *)
(***************************************************************************)
EXTENDS TaskScheduler, TLC

CONSTANTS fundamental, risk, peers, followup, synthesis

NoDeps == [t \in Task |-> {}]
AllOutputs == SUBSET OutputKind
DegradedOnly == { {"degraded"} }
NoGroups == [t \in Task |-> {}]

\* fundamental -> {risk, peers} -> synthesis, risk and synthesis contracted
\* to the fundamental outputs; followup is what the risk replan inserts.
PipelineTasks == { fundamental, risk, peers, followup, synthesis }
PipelinePlan == PipelineTasks \ { followup }
PipelineDeps ==
    (risk :> {fundamental}) @@ (peers :> {fundamental})
        @@ (synthesis :> {risk, peers}) @@ NoDeps
PipelineRequired == { risk, synthesis }
PipelineHard ==
    (risk :> {fundamental}) @@ (synthesis :> {fundamental}) @@ NoDeps

InsertFollowup ==
    [ requester |-> risk, authorised |-> TRUE, added |-> {followup}, newDeps |-> NoDeps,
      plus |-> { <<risk, followup>>, <<followup, synthesis>> },
      minus |-> { <<risk, synthesis>> } ]

PipelineMutations == { InsertFollowup }

\* left and right are one wave; last waits on both.  Executors of the wave
\* may each apply a mutation: left adds a task, or an edge from it, right
\* rewires last.
CONSTANTS left, right, last, extra

PairTasks == { left, right, last, extra }
PairPlan == PairTasks \ { extra }
PairDeps == (last :> {left, right}) @@ NoDeps
PairRequired == {}

AddExtra ==
    [ requester |-> left, authorised |-> TRUE, added |-> {extra},
      newDeps |-> (extra :> {left}) @@ NoDeps, plus |-> {}, minus |-> {} ]
ExtraBeforeLast ==
    [ requester |-> left, authorised |-> TRUE, added |-> {}, newDeps |-> NoDeps,
      plus |-> { <<extra, last>> }, minus |-> {} ]
LastBeforeExtra ==
    [ requester |-> right, authorised |-> TRUE, added |-> {}, newDeps |-> NoDeps,
      plus |-> { <<last, extra>> }, minus |-> {} ]
Unauthorised == [ AddExtra EXCEPT !.authorised = FALSE ]
LastBeforeRight ==
    [ requester |-> left, authorised |-> TRUE, added |-> {}, newDeps |-> NoDeps,
      plus |-> { <<last, right>> }, minus |-> { <<right, last>> } ]

PairMutations == { AddExtra, ExtraBeforeLast, LastBeforeExtra, Unauthorised }
RewireMutation == { LastBeforeRight }
PairBuilder == { left }

=============================================================================
