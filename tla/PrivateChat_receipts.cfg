SPECIFICATION Spec
CONSTANTS
    m1 = m1
    m2 = m2
    a1 = a1
    a2 = a2
    b1 = b1
    b2 = b2
    Msgs = {m1, m2}
    Keyed = {m1, m2}
    SenderConns = {a1}
    RecipientConns = {b1}
    Sender = Sender
    Recipient = Recipient
    NoConn = NoConn
    SyncLimit = 1
    MaxSends = 1
    MaxCrashes = 0
    MaxReloads = 1
    Faults = TRUE
SYMMETRY MsgSymmetry
INVARIANTS
    SeenReportedOnce
    ReadReceiptHonest
    EveryFrameAnswered
    BacklogGivesOldest
 
CHECK_DEADLOCK FALSE
