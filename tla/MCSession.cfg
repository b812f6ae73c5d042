SPECIFICATION Spec
CONSTANTS
    MaxClients = 3
    MaxFails = 2
    MaxEdits = 1
    MaxFaults = 2
CHECK_DEADLOCK FALSE
INVARIANTS
    TypeOK
    ClientsAccounted
    BeatsJudgeOwnSession
    SharesConverge
PROPERTIES
    SessionRecovers
    StopEnds
