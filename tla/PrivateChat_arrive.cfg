SPECIFICATION FairSpec
CONSTANTS
    m1 = m1
    m2 = m2
    a1 = a1
    a2 = a2
    b1 = b1
    b2 = b2
    Msgs = {m1}
    Keyed = {m1}
    SenderConns = {a1}
    RecipientConns = {b1, b2}
    Sender = Sender
    Recipient = Recipient
    NoConn = NoConn
    SyncLimit = 4
    MaxSends = 1
    MaxCrashes = 1
    MaxReloads = 0
    Faults = FALSE
INVARIANT NoLostMessage
PROPERTY MessageArrives
CHECK_DEADLOCK FALSE
