SPECIFICATION FairSpec
CONSTANTS
    Device = {d1}
    Handler = {h1, h2}
    Shares = {none}
    NoShares = none
    MaxStreams = 1
    Retention = FALSE
    Caller = {d1}
    d1 = d1
    h1 = h1
    h2 = h2
    none = none
    Rpc = {"Register", "Subscribe", "Heartbeat", "UpdateShares"}
PROPERTIES
    ShutdownSettles
    GivenUpIsRecovered
    SilentIsDemoted
