SPECIFICATION FairSpec
CONSTANTS
    fundamental = fundamental
    risk = risk
    peers = peers
    followup = followup
    synthesis = synthesis
    left = left
    right = right
    last = last
    extra = extra
    AnyInput <- NoGroups
    Task <- PairTasks
    Planned <- PairPlan
    PlannedDeps <- PairDeps
    Required <- PairRequired
    HardInput <- NoDeps
    Mutations <- RewireMutation
    Publishable <- DegradedOnly
    MaxAttempts = 1
    MaxFaults = 0
    MaxBuilds = 0
    Builder = {}
    MayCancel = FALSE
PROPERTIES
    StartsSatisfied
