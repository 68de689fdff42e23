SPECIFICATION Spec
CONSTANTS
    u1 = u1
    u2 = u2
    u3 = u3
    ws = ws
    http = http
    Users = {u1, u2}
    NoUser = NoUser
    Slots = {ws, http}
    MaxMsgs = 2
    MaxLeaves = 0
    OutOfOrder = TRUE
    Faults = TRUE
SYMMETRY Symmetry
INVARIANTS
    NoUndercount
    NoOvercount
CHECK_DEADLOCK FALSE
