SPECIFICATION Spec
CONSTANTS
    u1 = u1
    u2 = u2
    u3 = u3
    ws = ws
    http = http
    Users = {u1, u2}
    NoUser = NoUser
    Slots = {ws}
    MaxMsgs = 3
    MaxLeaves = 1
    OutOfOrder = FALSE
    Faults = FALSE
SYMMETRY Symmetry
INVARIANTS
    TypeOK
    CountExact
    ShownIsHonest
PROPERTY ImplementsReceipts
CHECK_DEADLOCK FALSE
