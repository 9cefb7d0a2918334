CONSTANTS
    t1 = t1
    Tasks = {t1}
    Window <- WholeWindow
    Symbols = {s1}
    LastDay = 2
    MaxCrashes = 1
SPECIFICATION Spec
INVARIANT DependentsFollow
