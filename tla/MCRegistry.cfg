SPECIFICATION Spec
CONSTANTS
    Device = {d1, p1}
    Handler = {h1, h2}
    Shares = {none}
    NoShares = none
    MaxStreams = 1
    Retention = TRUE
    Caller = {d1}
    d1 = d1
    p1 = p1
    h1 = h1
    h2 = h2
    none = none
    Rpc = {"Join", "Register", "Subscribe", "Heartbeat", "Deregister", "Leave"}
SYMMETRY HandlerSymmetry
INVARIANTS
    TypeOK
    SectionsExclusive
    NoPhantomOnline
    NoOrphanStream
    OnlineWasSeen
    PeersHearDeparture
PROPERTIES
    OnlyRegisterRaisesUnsubscribed
    PruneSparesConnected
