SPECIFICATION FairSpec
CONSTANTS
    ann = ann
    bob = bob
    name1 = name1
    name2 = name2
    Users = {ann, bob}
    NameOf <- OwnNames
    MaxGroups = 1
    Titles = {t}
    Writing <- AnnToBob
    Reqs = {r1, r2}
    Faults = TRUE
    None = None
INVARIANTS
    TypeOK
    FriendsSymmetric
    AddedAreFriends
    CreatedGroupHasOwner
    DeletedLeavesNothing
    OpenTransactionsResolve
PROPERTIES OnlyOwnDataGoes RequestEnds ImplementsFriendship
CHECK_DEADLOCK FALSE
