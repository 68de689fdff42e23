SPECIFICATION Spec
CONSTANTS
    a = a
    b = b
    z = z
    a1 = a1
    a2 = a2
    b1 = b1
    b2 = b2
    m1 = m1
    m2 = m2
    Users <- TwoUsers
    Conns = {a1, b1}
    UserOf <- OwnerOf
    Msgs = {m1, m2}
    AuthorOf <- ByA
    NoConn = NoConn
    SyncLimit = 1
    Readers = {b}
    MaxSends = 1
    MaxLeaves = 0
    MaxCrashes = 0
    Faults = {b}
SYMMETRY Symmetry
INVARIANTS TypeOK GroupBacklogGivesOldest
CHECK_DEADLOCK FALSE
