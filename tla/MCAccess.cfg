SPECIFICATION Spec
CONSTANTS
    a = a
    b = b
    x = x
    y = y
    Device = {a, b}
    Name = {x, y}
    NoName = NoName
    Token = {t1, t2}
    t1 = t1
    t2 = t2
    MaxRenames = 1
    Peer = {a}
    Tok <- MCTok
    First = {x}
    MaxEdits = 1
    MaxStops = 1
SYMMETRY TokenSymmetry
CHECK_DEADLOCK FALSE
INVARIANTS
    TypeOK
    AdmissionSound
    GrantJustified
    EditInForce
