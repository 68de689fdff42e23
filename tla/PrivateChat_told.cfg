SPECIFICATION Spec
CONSTANTS
    m1 = m1
    m2 = m2
    a1 = a1
    a2 = a2
    b1 = b1
    b2 = b2
    Msgs = {m1}
    Keyed = {m1}
    SenderConns = {a1}
    RecipientConns = {b1}
    Sender = Sender
    Recipient = Recipient
    NoConn = NoConn
    SyncLimit = 4
    MaxSends = 1
    MaxCrashes = 0
    MaxReloads = 0
    Faults = FALSE
INVARIANT ToldMeansRead
CHECK_DEADLOCK FALSE
