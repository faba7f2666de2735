SPECIFICATION Spec
CONSTANTS
    Key = {k1, k2}
    Process = {p1}
    MaxDrafts = 2
    MaxRuns = 4
    MaxAuths = 2
    MaxTime = 0
    MaxStops = 0
SYMMETRY Interchangeable
PROPERTIES
    NoAdmissionAfterRelease
CHECK_DEADLOCK FALSE
