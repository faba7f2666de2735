SPECIFICATION FairSpec
CONSTANTS
    fundamental = fundamental
    risk = risk
    peers = peers
    followup = followup
    synthesis = synthesis
    left = left
    right = right
    last = last
    extra = extra
    AnyInput <- NoGroups
    Task <- PairTasks
    Planned <- PairPlan
    PlannedDeps <- PairDeps
    Required <- PairRequired
    HardInput <- NoDeps
    Mutations <- PairMutations
    Publishable <- DegradedOnly
    MaxAttempts = 2
    MaxFaults = 1
    MaxBuilds = 1
    Builder <- PairBuilder
    MayCancel = TRUE
INVARIANTS
    NoOrphanWork
    ActualGraphWellFormed
PROPERTIES
    CompletionSurvivesReplans
    RunEnds
    KeepsPromise
