SPECIFICATION Spec
CONSTANTS
    MaxRuns = 2
    MaxSignals = 2
    MaxHandlers = 1
    MaxFaults = 1
CHECK_DEADLOCK FALSE
INVARIANTS
    TypeOK
    StoreOutlivesUsers
    ExitHonest
PROPERTIES
    StopSettles
