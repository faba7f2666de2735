SPECIFICATION Spec
CONSTANTS
    Key = {k1, k2}
    Process = {p1, p2}
    MaxDrafts = 2
    MaxRuns = 3
    MaxAuths = 1
    MaxTime = 1
    MaxStops = 1
SYMMETRY Interchangeable
INVARIANTS
    TypeOK
    ExecutedOnce
    ConfirmedOnItsLease
    IntentInMemoryOnce
    CompletedInMemory
PROPERTIES
    KeepsSlot
CHECK_DEADLOCK FALSE
