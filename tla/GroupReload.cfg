SPECIFICATION GroupSpec
CONSTANTS
    Factories = {f1, f2}
    Goroutines = {g1, g2}
    Free = Free
    Other = Other
CHECK_DEADLOCK FALSE
INVARIANTS RunsWhileLoaded
