CONSTANTS
    t1 = t1
    t2 = t2
    Tasks = {t1, t2}
    Window <- Windows
    Symbols = {s1}
    LastDay = 2
    MaxCrashes = 1
    MaxDrifts = 1
SPECIFICATION MaintenanceSpec
INVARIANTS
    MaintenanceTypeOK
    OpenPoolIsFinished
    OpenPoolIsWhole
    RestoreLosesNothing
PROPERTIES
    HalfMovedIsUntouched
