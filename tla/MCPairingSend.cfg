SPECIFICATION Spec
CONSTANTS
    Device = {a, b}
    Handler = {h1}
    Code = {c1}
    MaxAttempts = 1
    MaxStreams = 2
    Initiator = {a}
    Invited = {b}
    Restless = {a}
    a = a
    b = b
    h1 = h1
    c1 = c1
INVARIANT
    NoSendOnClosed
