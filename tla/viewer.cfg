CONSTANTS
    Task = {t1, t2}
    Main = main
    MaxEvents = 4
    MaxFaults = 0
    MayCancel = FALSE
    MayCrash = TRUE
    MaxDrops = 1
    MaxReloads = 1
SPECIFICATION ViewSpec
PROPERTIES
    KeepsPage
    Converges
    PublishesRun
CHECK_DEADLOCK FALSE
