SPECIFICATION FairSpec
CONSTANTS
    u1 = u1
    c1 = c1
    c2 = c2
    c3 = c3
    push = push
    Users <- OneUser
    Conns = {c1, c2}
    UserOf <- OneUserOf
    Frames <- OnePush
    Kicked = kicked
    NoConn = NoConn
    MaxQueue = 1
INVARIANTS
    TypeOK
    CheckedEntryStable
    LiveIsReachable
PROPERTIES CleanupOnlyDead ReplacedSessionEnds KickedClientLeaves ImplementsRegistry
CHECK_DEADLOCK FALSE
