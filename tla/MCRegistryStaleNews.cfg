SPECIFICATION Spec
CONSTANTS
    Device = {d1, p1}
    Handler = {h1, h2}
    Shares = {none, v1}
    v1 = v1
    NoShares = none
    MaxStreams = 1
    Retention = FALSE
    Caller = {d1}
    d1 = d1
    p1 = p1
    h1 = h1
    h2 = h2
    none = none
    Rpc = {"Register", "Subscribe", "Heartbeat"}
SYMMETRY HandlerSymmetry
INVARIANT
    RecoveryIsCurrent
