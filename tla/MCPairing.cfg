SPECIFICATION Spec
CONSTANTS
    Device = {a, b}
    Handler = {h1, h2}
    Code = {c1, c2}
    c2 = c2
    MaxAttempts = 1
    MaxStreams = 1
    Initiator = {a}
    Invited = {b}
    Restless = {a}
    a = a
    b = b
    h1 = h1
    h2 = h2
    c1 = c1
SYMMETRY Symmetry
INVARIANTS
    TypeOK
    PairingWasAsked
    ConfirmOnce
    ToldIsPaired
    NotHalfDone
    AttemptsBounded
    NoOrphans
