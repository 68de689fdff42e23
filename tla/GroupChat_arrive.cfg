SPECIFICATION FairSpec
CONSTANTS
    a = a
    b = b
    z = z
    a1 = a1
    a2 = a2
    b1 = b1
    b2 = b2
    m1 = m1
    m2 = m2
    Users <- ThreeUsers
    Conns = {a1, b1}
    UserOf <- OwnerOf
    Msgs = {m1}
    AuthorOf <- ByA
    NoConn = NoConn
    SyncLimit = 4
    Readers = {}
    MaxSends = 2
    MaxLeaves = 1
    MaxCrashes = 1
    Faults = {a, b, z}
INVARIANTS AckedIsStored NoLostGroupMessage
PROPERTY GroupMessageArrives
CHECK_DEADLOCK FALSE
