CONSTANTS
    Task = {t1}
    Main = main
    MaxEvents = 2
    MaxFaults = 0
    MayCancel = TRUE
    MayCrash = FALSE
SPECIFICATION Spec
INVARIANT AggregateIsPersisted
CHECK_DEADLOCK FALSE
