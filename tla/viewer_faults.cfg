CONSTANTS
    Task = {t1, t2}
    Main = main
    MaxEvents = 3
    MaxFaults = 2
    MayCancel = TRUE
    MayCrash = TRUE
    MaxDrops = 1
    MaxReloads = 1
SPECIFICATION ViewSpec
INVARIANTS
    ViewTypeOK
    OutcomeIsLast
    OutcomeIsReal
CHECK_DEADLOCK FALSE
