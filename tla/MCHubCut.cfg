SPECIFICATION Spec
CONSTANTS
    MaxRuns = 1
    MaxSignals = 1
    MaxHandlers = 1
    MaxFaults = 0
CHECK_DEADLOCK FALSE
INVARIANTS
    OrdinaryStopIsClean
