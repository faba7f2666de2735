CONSTANTS
    margin = margin
    average = average
    trend = trend
    signal = signal
    Branch = {margin, average, trend, signal}
    Generated = margin
    Dependencies <- MCDependencies
    Concurrency = 2
    MaxAttempts = 2
SPECIFICATION Spec
INVARIANTS
    TypeOK
    RecordsFollowRegistry
    CallIsSettled
PROPERTY CallConcludes
CHECK_DEADLOCK FALSE
