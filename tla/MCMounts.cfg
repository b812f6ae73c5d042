SPECIFICATION Spec
CONSTANTS
    Peer = {p}
    Share = {s}
    Endpoint = {e1, e2}
    p = p
    s = s
    e1 = e1
    e2 = e2
    None = None
    MaxGen = 3
    MaxFaults = 2
    MaxInputs = 2
CHECK_DEADLOCK FALSE
INVARIANTS
    TypeOK
    UnmountedIsGuarded
    ProbeSingleFlight
PROPERTIES
    TableRefined
    DeadIsHealed
