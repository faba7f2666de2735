SPECIFICATION Spec
CONSTANTS
    fundamental = fundamental
    risk = risk
    peers = peers
    followup = followup
    synthesis = synthesis
    left = left
    right = right
    last = last
    extra = extra
    AnyInput <- NoGroups
    Task <- PipelineTasks
    Planned <- PipelinePlan
    PlannedDeps <- PipelineDeps
    Required <- PipelineRequired
    HardInput <- PipelineHard
    Mutations <- PipelineMutations
    Publishable <- AllOutputs
    MaxAttempts = 1
    MaxFaults = 1
    MaxBuilds = 0
    Builder = {}
    MayCancel = TRUE
INVARIANTS
    TypeOK
    ReviewIsEarned
    ReturnedRunIsLogged
    FinalCheckpointIsCurrent
    FailureIsAnnounced
PROPERTIES
    StartsSatisfied
