--------------------------- MODULE DirectoryProofs ---------------------------
(* Safety of accounts, friends and groups for any number of users, groups   *)
(* and requests; add_friend and delete_user implement Friendship.            *)
EXTENDS Directory, TLAPS

LEMMA IndInit == Init => IInv
  BY DirectoryAssumption
  DEF Init, IInv, TypeOK, OpFits, OwnerKnown, OpenRows, RowsDisjoint, FriendsSymmetric,
      AddedAreFriends, CreatedGroupHasOwner, NoLeftovers, RequestType, Idle, Exists,
      PastChats, Deleted, Group, HeldIsFree, Cascading

-----------------------------------------------------------------------------
(* Requests begin and end without touching a table                         *)

LEMMA BeginStep ==
    ASSUME IInv, NEW r \in Reqs, NEW u \in Users,
           NEW to \in Users \cup Nat \cup {None}, NEW name \in Titles \cup {None},
           NEW op, NEW at, Begin(r, op, u, to, name, at),
           \/ op = "friend" /\ at = "forward" /\ to \in born /\ to # u
           \/ op = "create" /\ at = "name"
           \/ op = "gmsg" /\ at = "member"
           \/ op = "delete" /\ at = "chats"
    PROVE  IInv'
<1>1. /\ \A q \in Reqs \ {r} : req'[q] = req[q]
      /\ req'[r] = [op |-> op, by |-> u, to |-> to, name |-> name, at |-> at,
                    own |-> {}, todo |-> {}]
      /\ u \in born
      /\ req' \in [Reqs -> RequestType]
  BY DEF IInv, TypeOK, RequestType, Begin, Idle
<1>2. UNCHANGED <<accounts, friends, grouping, chats, told, late>>
  BY DEF Begin
<1>3. TypeOK' /\ OpFits'
  BY <1>1, <1>2 DEF IInv, TypeOK, OpFits, Exists, accounts, grouping
<1>4. OwnerKnown' /\ OpenRows' /\ RowsDisjoint'
  BY <1>1, <1>2
  DEF IInv, OwnerKnown, OpenRows, RowsDisjoint, Forth, Back, BothLive, accounts, grouping
<1>5. NoLeftovers'
  BY <1>1, <1>2 DEF IInv, NoLeftovers, PastChats, Deleted, accounts, grouping
<1>6. HeldIsFree'
  BY <1>1, <1>2 DEF IInv, HeldIsFree, Cascading, Referenced, accounts, grouping
<1> QED
  BY <1>2, <1>3, <1>4, <1>5, <1>6
  DEF IInv, FriendsSymmetric, AddedAreFriends, CreatedGroupHasOwner, grouping

\* Ending a request gives up its open rows; nothing else depends on it.
LEMMA EndStep ==
    ASSUME IInv, NEW r \in Reqs, End(r),
           UNCHANGED <<accounts, friends, grouping, chats, told, late>>
    PROVE  IInv'
  BY DirectoryAssumption
  DEF IInv, TypeOK, OpFits, OwnerKnown, OpenRows, RowsDisjoint, FriendsSymmetric,
      HeldIsFree, Cascading, Referenced, AddedAreFriends, CreatedGroupHasOwner, NoLeftovers,
      RequestType, End, Idle, Exists,
      Forth, Back, BothLive, PastChats, Deleted, accounts, grouping

LEMMA RequestStep ==
    ASSUME IInv, NEW r \in Reqs, NEW u \in Users, Request(r, u)
    PROVE  IInv'
<1>1. CASE DeleteUser(r, u)
  BY <1>1, BeginStep DEF DeleteUser
<1>2. ASSUME NEW v \in Users, AddFriend(r, u, v) PROVE IInv'
  BY <1>2, BeginStep DEF AddFriend
<1>3. ASSUME NEW name \in Titles, CreateGroup(r, u, name) PROVE IInv'
  BY <1>3, BeginStep DEF CreateGroup
<1>4. ASSUME NEW g \in 1..made, GroupMessage(r, u, g) PROVE IInv'
  <2>1. g \in Nat
    BY DEF IInv, TypeOK
  <2> QED
    BY <1>4, <2>1, BeginStep DEF GroupMessage
<1> QED
  BY <1>1, <1>2, <1>3, <1>4 DEF Request

\* Statements of one request that only move it on or end it.
LEMMA MoveStep ==
    ASSUME IInv, NEW r \in Reqs,
           \/ NameTaken(r) \/ NameFree(r) \/ InsertGroupRefused(r) \/ InsertOwnerRefused(r)
           \/ CheckMember(r) \/ DeleteAccountRefused(r) \/ AccountGone(r) \/ PairRefused(r)
           \/ AbortVictim(r) \/ StatementFails(r)
    PROVE  IInv'
<1>1. CASE End(r) /\ UNCHANGED <<accounts, friends, grouping, chats, told, late>>
  BY <1>1, EndStep
<1>2. ASSUME NEW at \in {"insert", "store"}, Goto(r, at), req[r].at \in {"name", "member"},
             UNCHANGED <<accounts, friends, grouping, chats, told, late>>
      PROVE  IInv'
  BY <1>2
  DEF IInv, TypeOK, OpFits, OwnerKnown, OpenRows, RowsDisjoint, FriendsSymmetric,
      HeldIsFree, Cascading, Referenced, AddedAreFriends, CreatedGroupHasOwner, NoLeftovers,
      RequestType, Goto, Exists,
      Forth, Back, BothLive, PastChats, Deleted, accounts, grouping
<1> QED
  BY <1>1, <1>2
  DEF NameTaken, NameFree, InsertGroupRefused, InsertOwnerRefused, CheckMember,
      DeleteAccountRefused, AccountGone, PairRefused, AbortVictim, StatementFails

-----------------------------------------------------------------------------
(* Requests of one statement                                               *)

LEMMA SingleStep ==
    ASSUME IInv, NEW u \in Users, Single(u)
    PROVE  IInv'
<1> USE DirectoryAssumption
    DEF IInv, TypeOK, OpFits, OwnerKnown, OpenRows, RowsDisjoint, FriendsSymmetric,
        HeldIsFree, Cascading, Referenced, AddedAreFriends, CreatedGroupHasOwner,
        NoLeftovers, RequestType, Exists, Forth, Back, BothLive, PastChats, Deleted,
        accounts, grouping
<1>1. CASE Register(u)
  BY <1>1 DEF Register, SaveUser
<1>2. ASSUME NEW g \in 1..made, JoinGroup(u, g) PROVE IInv'
  BY <1>2 DEF JoinGroup
<1>3. ASSUME NEW g \in 1..made, LeaveGroup(u, g) PROVE IInv'
  BY <1>3 DEF LeaveGroup
<1>4. ASSUME NEW v \in Users, PrivateMessage(u, v) PROVE IInv'
  BY <1>4 DEF PrivateMessage
<1> QED
  BY <1>1, <1>2, <1>3, <1>4 DEF Single

-----------------------------------------------------------------------------
(* Friends                                                                 *)

\* A pair that is stored is stored both ways: the request holds no row, and
\* both pairs are there when it goes on.
LEMMA PairThereStep ==
    ASSUME IInv, NEW r \in Reqs, PairThere(r)
    PROVE  IInv'
<1> USE DEF IInv, TypeOK, RequestType, PairThere, AfterPair, Pair, Inserting, Goto, OpFits,
            accounts, grouping
<1>1. TypeOK' /\ OpFits'
  BY DEF Exists
<1>2. OpenRows'
  BY DEF OpenRows, FriendsSymmetric, Forth, Back, BothLive
<1>3. RowsDisjoint'
  BY DEF RowsDisjoint
<1>4. OwnerKnown'
  BY DEF OwnerKnown
<1>5. NoLeftovers'
  BY DEF NoLeftovers, PastChats, Deleted
<1>6. FriendsSymmetric' /\ AddedAreFriends' /\ CreatedGroupHasOwner'
  BY DEF FriendsSymmetric, AddedAreFriends, CreatedGroupHasOwner
<1>7. HeldIsFree'
  BY DEF HeldIsFree, Cascading, Referenced
<1> QED
  BY <1>1, <1>2, <1>3, <1>4, <1>5, <1>6, <1>7

LEMMA InsertPairStep ==
    ASSUME IInv, NEW r \in Reqs, InsertPair(r)
    PROVE  IInv'
<1> USE DEF IInv, TypeOK, RequestType, InsertPair, AfterPair, Pair, Inserting, OpFits,
            accounts, grouping
<1>1. TypeOK' /\ OpFits'
  BY DEF Exists
<1>2. OpenRows'
  BY DEF OpenRows, Free, WaitsFor, InsertWaits, Forth, Back, BothLive
<1>3. RowsDisjoint'
  BY DEF RowsDisjoint, Free, WaitsFor, InsertWaits
<1>4. OwnerKnown'
  BY DEF OwnerKnown
<1>5. NoLeftovers'
  BY DEF NoLeftovers, PastChats, Deleted
<1>6. FriendsSymmetric' /\ AddedAreFriends' /\ CreatedGroupHasOwner'
  BY DEF FriendsSymmetric, AddedAreFriends, CreatedGroupHasOwner
<1>7. HeldIsFree'
  BY DEF HeldIsFree, Cascading, Referenced, Free, WaitsFor, InsertWaits
<1> QED
  BY <1>1, <1>2, <1>3, <1>4, <1>5, <1>6, <1>7

\* The rows of the transaction become visible together: none, or both pairs.
LEMMA CommitPairsStep ==
    ASSUME IInv, NEW r \in Reqs, CommitPairs(r)
    PROVE  IInv'
<1>1. /\ req[r].own = {} \/ req[r].own = {Forth(r), Back(r)}
      /\ req[r].own \subseteq users \X users
      /\ friends' = friends \cup req[r].own
      /\ told' = told \cup ({Forth(r)} \cap (users \X users))
  BY DEF IInv, OpenRows, CommitPairs, Forth
<1>2. FriendsSymmetric'
  <2>1. ASSUME NEW p \in friends PROVE p[1] # p[2] /\ <<p[2], p[1]>> \in friends'
    BY <1>1, <2>1 DEF IInv, FriendsSymmetric
  <2>2. Forth(r)[1] = req[r].by /\ Forth(r)[2] = req[r].to
    BY DEF Forth
  <2>3. Back(r)[1] = req[r].to /\ Back(r)[2] = req[r].by
    BY DEF Back
  <2>4. req[r].to # req[r].by
    BY DEF IInv, OpFits, CommitPairs
  <2>5. ASSUME NEW p \in req[r].own PROVE p[1] # p[2] /\ <<p[2], p[1]>> \in friends'
    BY <1>1, <2>2, <2>3, <2>4, <2>5 DEF Forth, Back
  <2>6. \A p \in friends' : p \in friends \/ p \in req[r].own
    BY <1>1
  <2> QED
    BY <2>1, <2>5, <2>6 DEF FriendsSymmetric
<1>3. Forth(r) \in users \X users => {Forth(r), Back(r)} \subseteq friends'
  BY <1>1 DEF IInv, OpenRows, CommitPairs, BothLive, Forth
<1>4. AddedAreFriends'
  <2>1. ASSUME NEW p \in told PROVE {p, <<p[2], p[1]>>} \subseteq friends'
    BY <1>1, <2>1 DEF IInv, AddedAreFriends
  <2>2. Back(r) = <<Forth(r)[2], Forth(r)[1]>>
    BY DEF Forth, Back
  <2> QED
    BY <1>1, <1>3, <2>1, <2>2 DEF AddedAreFriends
<1>5. TypeOK' /\ OpFits' /\ OwnerKnown'
  BY <1>1, DirectoryAssumption
  DEF IInv, TypeOK, OpFits, OwnerKnown, RequestType, CommitPairs, End, Idle, Exists,
      accounts, grouping
<1>6. OpenRows' /\ RowsDisjoint'
  BY <1>1
  DEF IInv, TypeOK, RequestType, OpenRows, RowsDisjoint, CommitPairs, End, Idle, Forth,
      Back, BothLive, accounts
<1>7. NoLeftovers' /\ CreatedGroupHasOwner'
  BY DEF IInv, TypeOK, NoLeftovers, CreatedGroupHasOwner, CommitPairs, End, Idle, PastChats,
         Deleted, accounts, grouping
<1>8. HeldIsFree'
  BY DEF IInv, TypeOK, RequestType, HeldIsFree, Cascading, Referenced, CommitPairs, End, Idle,
         accounts, grouping
<1> QED
  BY <1>2, <1>4, <1>5, <1>6, <1>7, <1>8 DEF IInv

-----------------------------------------------------------------------------
(* Groups                                                                  *)

LEMMA InsertGroupStep ==
    ASSUME IInv, NEW r \in Reqs, InsertGroup(r)
    PROVE  IInv'
<1> USE DEF InsertGroup, IInv, TypeOK, RequestType, accounts, grouping
<1>1. TypeOK' /\ OpFits'
  BY DEF OpFits, Exists, Group
<1>2. OwnerKnown' /\ CreatedGroupHasOwner'
  BY DEF OwnerKnown, CreatedGroupHasOwner, Group
<1>3. RowsDisjoint'
  BY DEF RowsDisjoint
<1>5. OpenRows'
  <2>1. /\ \A q \in Reqs \ {r} : req'[q] = req[q]
        /\ req'[r].own = req[r].own /\ req'[r].at = "owner" /\ req[r].at = "insert"
    OBVIOUS
  <2> QED
    BY <2>1 DEF OpenRows, Forth, Back, BothLive
<1>4. NoLeftovers'
  BY DEF NoLeftovers, PastChats, Deleted
<1>6. HeldIsFree'
  BY DEF HeldIsFree, Cascading, Referenced, Free, WaitsFor, AccountWaits, Group
<1> QED
  BY <1>1, <1>2, <1>3, <1>4, <1>5, <1>6 DEF FriendsSymmetric, AddedAreFriends

LEMMA InsertOwnerStep ==
    ASSUME IInv, NEW r \in Reqs, InsertOwner(r)
    PROVE  IInv'
<1> USE DEF IInv, TypeOK, RequestType, InsertOwner, End, Idle, accounts, grouping
<1>1. TypeOK' /\ OpFits'
  BY DirectoryAssumption DEF OpFits, Exists
<1>2. OwnerKnown' /\ CreatedGroupHasOwner'
  BY DEF OwnerKnown, CreatedGroupHasOwner, Group
<1>3. OpenRows' /\ RowsDisjoint'
  BY DEF OpenRows, RowsDisjoint, Forth, Back, BothLive
<1>4. NoLeftovers'
  BY DEF NoLeftovers, PastChats, Deleted
<1>5. HeldIsFree'
  BY DEF HeldIsFree, Cascading, Referenced
<1> QED
  BY <1>1, <1>2, <1>3, <1>4, <1>5 DEF FriendsSymmetric, AddedAreFriends

LEMMA StoreGroupMessageStep ==
    ASSUME IInv, NEW r \in Reqs, StoreGroupMessage(r)
    PROVE  IInv'
  BY DirectoryAssumption
  DEF StoreGroupMessage, End, IInv, TypeOK, OpFits, OwnerKnown, OpenRows, RowsDisjoint,
      FriendsSymmetric, AddedAreFriends, CreatedGroupHasOwner, NoLeftovers, RequestType,
      HeldIsFree, Cascading, Referenced, Free, WaitsFor, AccountWaits, Idle, Exists, Forth,
      Back, BothLive, PastChats, Deleted, accounts, grouping

-----------------------------------------------------------------------------
(* Deleting an account                                                     *)

LEMMA DeleteChatsStep ==
    ASSUME IInv, NEW r \in Reqs, DeleteChats(r)
    PROVE  IInv'
<1>1. /\ req[r].at = "chats" /\ req' = [req EXCEPT ![r].at = "owned"]
      /\ chats' = {m \in chats : req[r].by \notin {m[1], m[2]}}
      /\ late' = {m \in late : ~(m \in chats /\ req[r].by \in {m[1], m[2]})}
      /\ UNCHANGED <<accounts, friends, grouping, told>>
  BY DEF DeleteChats, Goto
<1>2. req' \in [Reqs -> RequestType]
  BY <1>1 DEF IInv, TypeOK, RequestType
<1>3. chats' \subseteq chats /\ late' \subseteq chats'
  BY <1>1 DEF IInv, TypeOK
<1>4. TypeOK'
  BY <1>1, <1>2, <1>3 DEF IInv, TypeOK, Exists, accounts, grouping
<1>5. /\ \A q \in Reqs \ {r} : req'[q] = req[q]
      /\ req'[r] = [req[r] EXCEPT !.at = "owned"]
      /\ req[r] \in RequestType
  BY <1>1 DEF IInv, TypeOK
<1>6. /\ req'[r].op = req[r].op /\ req'[r].by = req[r].by /\ req'[r].to = req[r].to
      /\ req'[r].own = req[r].own /\ req'[r].todo = req[r].todo /\ req'[r].at = "owned"
  BY <1>5 DEF RequestType
<1>7. OpFits'
  BY <1>1, <1>5, <1>6 DEF IInv, OpFits, accounts
<1>8. OwnerKnown' /\ OpenRows' /\ RowsDisjoint'
  BY <1>1, <1>5, <1>6
  DEF IInv, OwnerKnown, OpenRows, RowsDisjoint, Forth, Back, BothLive, accounts, grouping
<1>9. NoLeftovers'
  BY <1>1, <1>5, <1>6 DEF IInv, NoLeftovers, PastChats, Deleted, accounts
<1>10. HeldIsFree'
  BY <1>1, <1>5, <1>6 DEF IInv, HeldIsFree, Cascading, Referenced, accounts, grouping
<1> QED
  BY <1>1, <1>4, <1>7, <1>8, <1>9, <1>10
  DEF IInv, FriendsSymmetric, AddedAreFriends, CreatedGroupHasOwner, grouping

LEMMA DeleteGroupMessagesStep ==
    ASSUME IInv, NEW r \in Reqs, DeleteGroupMessages(r)
    PROVE  IInv'
<1> USE DEF IInv, TypeOK, RequestType, DeleteGroupMessages, Goto, accounts, grouping
<1>1. TypeOK' /\ OpFits'
  BY DEF OpFits, Exists
<1>2. OwnerKnown' /\ OpenRows' /\ RowsDisjoint'
  BY DEF OwnerKnown, OpenRows, RowsDisjoint, Forth, Back, BothLive
<1>3. NoLeftovers'
  BY DEF NoLeftovers, PastChats, Deleted, OpFits
<1>4. HeldIsFree'
  BY DEF HeldIsFree, Cascading, Referenced
<1> QED
  BY <1>1, <1>2, <1>3, <1>4
  DEF FriendsSymmetric, AddedAreFriends, CreatedGroupHasOwner

LEMMA SelectOwnedStep ==
    ASSUME IInv, NEW r \in Reqs, SelectOwned(r)
    PROVE  IInv'
<1> DEFINE owned == {h.id : h \in {k \in groups : k.owner = req[r].by}}
           next == IF owned = {} THEN "gmsgs" ELSE "groups"
<1>1. owned \subseteq 1..made /\ \A h \in groups : h.id \in owned => h.owner = req[r].by
  BY DEF IInv, TypeOK, Group
<1>2. /\ req' = [req EXCEPT ![r].todo = owned, ![r].at = next]
      /\ req[r].at = "owned" /\ next \in {"gmsgs", "groups"}
      /\ UNCHANGED <<accounts, friends, grouping, chats, told, late>>
  BY DEF SelectOwned
<1> HIDE DEF owned, next
<1> USE <1>2 DEF IInv, TypeOK, RequestType, accounts, grouping
<1>3. TypeOK' /\ OpFits'
  BY <1>1 DEF OpFits, Exists
<1>4. OwnerKnown'
  BY <1>1 DEF OwnerKnown
<1>5. OpenRows' /\ RowsDisjoint'
  BY DEF OpenRows, RowsDisjoint, Forth, Back, BothLive
<1>6. NoLeftovers'
  BY DEF NoLeftovers, PastChats, Deleted, OpFits
<1>7. HeldIsFree'
  BY DEF HeldIsFree, Cascading, Referenced
<1> QED
  BY <1>3, <1>4, <1>5, <1>6, <1>7
  DEF FriendsSymmetric, AddedAreFriends, CreatedGroupHasOwner

LEMMA DeleteGroupStep ==
    ASSUME IInv, NEW r \in Reqs, DeleteGroup(r)
    PROVE  IInv'
<1>1. PICK g \in req[r].todo :
        /\ groups' = {h \in groups : h.id # g}
        /\ members' = {m \in members : m[1] # g}
        /\ gmsgs' = {m \in gmsgs : m[1] # g}
        /\ created' = {h \in created : h.id # g}
        /\ req' = [req EXCEPT ![r].todo = @ \ {g},
                              ![r].at = IF req[r].todo = {g} THEN "gmsgs" ELSE @]
  BY DEF DeleteGroup
<1> DEFINE next == IF req[r].todo = {g} THEN "gmsgs" ELSE req[r].at
<1>2. /\ req' = [req EXCEPT ![r].todo = req[r].todo \ {g}, ![r].at = next]
      /\ req[r].at = "groups" /\ next \in {"gmsgs", "groups"}
      /\ UNCHANGED <<accounts, friends, made, chats, told, late>>
  BY <1>1 DEF DeleteGroup, IInv, TypeOK, RequestType
<1> HIDE DEF next
<1> USE <1>2 DEF IInv, TypeOK, RequestType, accounts
<1>3. req' \in [Reqs -> RequestType]
  <2>1. req[r] \in RequestType /\ req[r].todo \ {g} \subseteq Nat
    OBVIOUS
  <2>2. req[r].todo \ {g} \in SUBSET Nat
    BY <2>1
  <2>3. req'[r] = [req[r] EXCEPT !.todo = req[r].todo \ {g}, !.at = next]
    OBVIOUS
  <2>4. [req[r] EXCEPT !.todo = req[r].todo \ {g}, !.at = next] \in RequestType
    BY <2>1, <2>2
  <2> QED
    BY <2>3, <2>4
<1>4. TypeOK' /\ OpFits'
  BY <1>1, <1>3 DEF OpFits, Exists
<1>5. OwnerKnown' /\ CreatedGroupHasOwner'
  BY <1>1 DEF OwnerKnown, CreatedGroupHasOwner
<1>6. OpenRows' /\ RowsDisjoint'
  BY DEF OpenRows, RowsDisjoint, Forth, Back, BothLive
<1>7. NoLeftovers'
  BY DEF NoLeftovers, PastChats, Deleted, OpFits
<1>8. HeldIsFree'
  BY <1>1 DEF HeldIsFree, Cascading, Referenced
<1> QED
  BY <1>4, <1>5, <1>6, <1>7, <1>8 DEF FriendsSymmetric, AddedAreFriends

\* A delete takes the account when nothing open refers to it, and alone.
LEMMA TakeAccountStep ==
    ASSUME IInv, NEW r \in Reqs, TakeAccount(r)
    PROVE  IInv'
<1> USE DEF IInv, TypeOK, RequestType, TakeAccount, Goto, accounts, grouping
<1>1. TypeOK' /\ OpFits'
  BY DEF OpFits, Exists
<1>2. OwnerKnown' /\ OpenRows' /\ RowsDisjoint'
  BY DEF OwnerKnown, OpenRows, RowsDisjoint, Forth, Back, BothLive
<1>3. HeldIsFree'
  BY DEF HeldIsFree, Cascading, Referenced, Free, WaitsFor, DeleteWaits, AccountWaits
<1>4. NoLeftovers'
  BY DEF NoLeftovers, PastChats, Deleted, OpFits
<1> QED
  BY <1>1, <1>2, <1>3, <1>4
  DEF FriendsSymmetric, AddedAreFriends, CreatedGroupHasOwner

\* The account goes with its pairs; no open transaction holds a pair of it.
LEMMA DeleteAccountStep ==
    ASSUME IInv, NEW r \in Reqs, DeleteAccount(r)
    PROVE  IInv'
<1> USE DEF IInv, TypeOK, RequestType, DeleteAccount, End, Idle, accounts, grouping
<1>1. /\ req[r].at = "cascade" /\ req[r].by \in users /\ ~Referenced(req[r].by)
      /\ \A q \in Reqs : \A p \in req[q].own : req[r].by \notin {p[1], p[2]}
      /\ \A q \in Reqs \ {r} : req[q].at = "cascade" => req[q].by # req[r].by
  BY DEF HeldIsFree, Cascading
<1>2. TypeOK' /\ OpFits'
  BY <1>1, DirectoryAssumption DEF OpFits, Exists, Referenced
<1>3. OwnerKnown' /\ CreatedGroupHasOwner'
  BY <1>1 DEF OwnerKnown, CreatedGroupHasOwner, Referenced, Group
<1>4. OpenRows' /\ RowsDisjoint'
  BY <1>1 DEF OpenRows, RowsDisjoint, Forth, Back, BothLive
<1>5. NoLeftovers'
  BY <1>1 DEF NoLeftovers, PastChats, Deleted, OpFits
<1>6. HeldIsFree'
  BY <1>1 DEF HeldIsFree, Cascading, Referenced
<1>7. FriendsSymmetric'
  BY DEF FriendsSymmetric
<1>8. AddedAreFriends'
  <2>1. ASSUME NEW p \in told' PROVE {p, <<p[2], p[1]>>} \subseteq friends'
    BY <2>1 DEF AddedAreFriends
  <2> QED
    BY <2>1 DEF AddedAreFriends
<1> QED
  BY <1>2, <1>3, <1>4, <1>5, <1>6, <1>7, <1>8

-----------------------------------------------------------------------------
(* The theorems                                                            *)

LEMMA IndStep == IInv /\ [Next]_vars => IInv'
<1> SUFFICES ASSUME IInv, [Next]_vars PROVE IInv'
  OBVIOUS
<1>1. ASSUME NEW u \in Users, Single(u) PROVE IInv'
  BY <1>1, SingleStep
<1>2. ASSUME NEW u \in Users, NEW r \in Reqs, Request(r, u) PROVE IInv'
  BY <1>2, RequestStep
<1>3. ASSUME NEW r \in Reqs, Step(r) \/ AbortVictim(r) \/ StatementFails(r) PROVE IInv'
  <2>1. CASE FriendStep(r)
    BY <2>1, PairThereStep, InsertPairStep, CommitPairsStep, MoveStep DEF FriendStep
  <2>2. CASE CreateStep(r) \/ CheckMember(r) \/ StoreGroupMessage(r)
    BY <2>2, InsertGroupStep, InsertOwnerStep, StoreGroupMessageStep, MoveStep DEF CreateStep
  <2>3. CASE DeleteStep(r)
    BY <2>3, DeleteChatsStep, DeleteGroupMessagesStep, SelectOwnedStep,
       DeleteGroupStep, TakeAccountStep, DeleteAccountStep, MoveStep
    DEF DeleteStep
  <2> QED
    BY <1>3, <2>1, <2>2, <2>3, MoveStep DEF Step
<1>4. CASE UNCHANGED vars
  BY <1>4
  DEF IInv, TypeOK, OpFits, OwnerKnown, OpenRows, RowsDisjoint, FriendsSymmetric,
      HeldIsFree, Cascading, Referenced, AddedAreFriends, CreatedGroupHasOwner, NoLeftovers,
      RequestType, Exists, Forth, Back,
      BothLive, PastChats, Deleted, vars, accounts, grouping
<1> QED
  BY <1>1, <1>2, <1>3, <1>4 DEF Next

LEMMA Inductive == Spec => []IInv
  BY IndInit, IndStep, PTL DEF Spec

\* Every row refers to rows that exist, ids are unique, and what was answered is
\* about accounts and groups that exist: dao.rs over the keys of init.sql.
THEOREM TypeCorrect == Spec => []TypeOK
<1>1. IInv => TypeOK
  BY DEF IInv
<1> QED
  BY <1>1, Inductive, PTL

\* add_friend in its transaction, delete_user's cascades and PostgreSQL's aborts
\* keep friendship mutual.
THEOREM FriendshipIsMutual == Spec => []FriendsSymmetric
<1>1. IInv => FriendsSymmetric
  BY DEF IInv
<1> QED
  BY <1>1, Inductive, PTL

\* "friend added" stays true while both accounts live.
THEOREM AddedStay == Spec => []AddedAreFriends
<1>1. IInv => AddedAreFriends
  BY DEF IInv
<1> QED
  BY <1>1, Inductive, PTL

\* The owner of a created group is a member, whatever became of a deletion.
THEOREM OwnerIsMember == Spec => []CreatedGroupHasOwner
<1>1. IInv => CreatedGroupHasOwner
  BY DEF IInv
<1> QED
  BY <1>1, Inductive, PTL

\* delete_user leaves no row of the account but private messages stored after it
\* had begun.
THEOREM DeletedIsGone == Spec => []DeletedLeavesNothing
<1>1. IInv => DeletedLeavesNothing
  <2> SUFFICES ASSUME IInv, NEW u \in Deleted
               PROVE  /\ \A p \in friends : u \notin {p[1], p[2]}
                      /\ \A m \in members \cup gmsgs : m[2] # u
                      /\ \A h \in groups : h.owner # u
                      /\ \A m \in chats \ late : u \notin {m[1], m[2]}
    BY DEF DeletedLeavesNothing
  <2>1. u \in Users /\ u \notin users /\ PastChats(u)
    BY DEF IInv, TypeOK, PastChats, Deleted
  <2>2. \A p \in friends : p[1] \in users /\ p[2] \in users
    BY DEF IInv, TypeOK
  <2>3. \A m \in members \cup gmsgs : m[2] \in users
    BY DEF IInv, TypeOK
  <2> QED
    BY <2>1, <2>2, <2>3 DEF IInv, TypeOK, NoLeftovers
<1> QED
  BY <1>1, Inductive, PTL

LEMMA Loss == IInv /\ [Next]_vars => LossStep
<1> SUFFICES ASSUME IInv, [Next]_vars PROVE LossStep
  OBVIOUS
<1>1. CASE groups \subseteq groups' /\ gmsgs \subseteq gmsgs' /\ chats \subseteq chats'
  BY <1>1 DEF LossStep
<1>2. ASSUME NEW r \in Reqs, DeleteChats(r) PROVE LossStep
  BY <1>2 DEF LossStep, DeleteChats, Deleting, IInv, OpFits, grouping
<1>3. ASSUME NEW r \in Reqs, DeleteGroup(r) PROVE LossStep
  BY <1>3 DEF LossStep, DeleteGroup, Deleting, IInv, TypeOK, OpFits, OwnerKnown, Exists
<1>4. ASSUME NEW r \in Reqs, DeleteGroupMessages(r) PROVE LossStep
  BY <1>4 DEF LossStep, DeleteGroupMessages, Deleting, IInv, OpFits
<1>5. CASE UNCHANGED vars
  BY <1>5, <1>1 DEF vars, grouping
<1>6. ASSUME NEW u \in Users, Single(u) PROVE LossStep
  BY <1>6, <1>1
  DEF Single, Register, SaveUser, JoinGroup, LeaveGroup, PrivateMessage, grouping
<1>7. ASSUME NEW u \in Users, NEW r \in Reqs, Request(r, u) PROVE LossStep
  BY <1>7, <1>1
  DEF Request, DeleteUser, AddFriend, CreateGroup, GroupMessage, Begin, grouping
<1>8. ASSUME NEW r \in Reqs, FriendStep(r) \/ CreateStep(r) PROVE LossStep
  BY <1>8, <1>1
  DEF FriendStep, PairThere, InsertPair, PairRefused, CommitPairs, CreateStep, NameTaken,
      NameFree, InsertGroup, InsertGroupRefused, InsertOwner, InsertOwnerRefused, grouping
<1>9. ASSUME NEW r \in Reqs,
             \/ CheckMember(r) \/ StoreGroupMessage(r) \/ AbortVictim(r) \/ StatementFails(r)
             \/ SelectOwned(r) \/ TakeAccount(r) \/ AccountGone(r) \/ DeleteAccount(r)
             \/ DeleteAccountRefused(r)
      PROVE  LossStep
  BY <1>9, <1>1
  DEF CheckMember, StoreGroupMessage, AbortVictim, StatementFails, SelectOwned, TakeAccount,
      AccountGone, DeleteAccount, DeleteAccountRefused, grouping
<1> QED
  BY <1>2, <1>3, <1>4, <1>5, <1>6, <1>7, <1>8, <1>9 DEF Next, Step, DeleteStep

\* A deletion takes nothing of others along: what goes is of an account that is
\* being deleted, or in a group of it.
THEOREM OthersKeepTheirs == Spec => OnlyOwnDataGoes
<1>1. IInv /\ [Next]_vars => [LossStep]_vars
  BY Loss
<1> QED
  BY <1>1, Inductive, PTL DEF Spec, OnlyOwnDataGoes

-----------------------------------------------------------------------------
(* Waiting for other requests                                              *)

\* A request with open rows has one row and waits with the other. The account of
\* no delete that is under way is in them, so that it waits for an insert only; a
\* transaction with its second key has not got its first, and waits for it.
LEMMA WaitsInPairs ==
    ASSUME IInv, NEW r \in Reqs, req[r].own # {}, NEW q \in Reqs, WaitsFor(r, q)
    PROVE  req[q].own # {} /\ WaitsFor(q, r)
<1>1. /\ req[r].at \in {"reverse", "commit"} /\ Forth(r) \in req[r].own
      /\ Forth(r) = <<req[r].by, req[r].to>> /\ req[r].to # req[r].by
      /\ req[r].by \in users /\ req[r].to \in users
  BY DEF IInv, OpenRows, OpFits, Forth
<1>2. ASSUME Cascading(q) PROVE req[q].by \notin {req[r].by, req[r].to}
  BY <1>1, <1>2 DEF IInv, HeldIsFree
<1>3. Pair(r) = Back(r) \/ req[r].at = "commit"
  BY <1>1 DEF Pair, Back
<1>4. req[r].at = "reverse" /\ Back(r) \in req[q].own
  BY <1>1, <1>2, <1>3
  DEF WaitsFor, InsertWaits, DeleteWaits, AccountWaits, Inserting, Cascading, Back
<1>5. q # r
  BY <1>1, <1>4 DEF IInv, OpenRows, Forth, Back
<1>6. Forth(r) \notin req[q].own
  BY <1>1, <1>5 DEF IInv, RowsDisjoint
<1>7. req[q].at = "reverse" /\ req[q].own = {Forth(q)}
  <2>1. Back(r) = Forth(q) => Forth(r) = Back(q)
    BY DEF Forth, Back
  <2>2. Back(r) = Back(q) => Forth(r) = Forth(q)
    BY DEF Forth, Back
  <2>3. req[q].own # {Forth(q), Back(q)}
    BY <1>4, <1>6, <2>1, <2>2
  <2> QED
    BY <1>4, <2>3 DEF IInv, OpenRows
<1>8. Back(q) = Forth(r)
  BY <1>4, <1>7 DEF Forth, Back
<1> QED
  BY <1>1, <1>4, <1>7, <1>8 DEF WaitsFor, InsertWaits, Inserting, Pair, Back

\* An add_friend with rows waits only for one that waits for it, never for a
\* delete_user, and is always being worked on, under any number of requests: what
\* keeps others waiting is committed, rolled back, or aborted by PostgreSQL.
THEOREM OpenTransactionsGoOn == Spec => []OpenTransactionsResolve
<1>1. ASSUME IInv, NEW r \in Reqs, req[r].own # {} PROVE req[r].op # "idle"
  BY <1>1 DEF IInv, OpenRows, OpFits
<1>2. IInv => OpenTransactionsResolve
  BY <1>1, WaitsInPairs DEF OpenTransactionsResolve
<1> QED
  BY <1>2, Inductive, PTL

-----------------------------------------------------------------------------
(* add_friend and delete_user implement Friendship                         *)

\* The commit makes both pairs visible at once, with the answer; when an account
\* has gone, after the statements that found both rows there, nothing changes.
LEMMA CommitMaps ==
    ASSUME IInv, NEW r \in Reqs, CommitPairs(r)
    PROVE  Friendships!Next \/ UNCHANGED Friendships!fvars
<1> DEFINE by == req[r].by
           to == req[r].to
<1>1. /\ req[r].at = "commit" /\ to # by
      /\ req[r].own = {} \/ req[r].own = {Forth(r), Back(r)}
      /\ req[r].own \subseteq users \X users
      /\ friends' = friends \cup req[r].own
      /\ told' = told \cup ({Forth(r)} \cap (users \X users))
      /\ UNCHANGED users
  BY DEF IInv, OpFits, OpenRows, CommitPairs, Forth, accounts
<1>2. CASE BothLive(r)
  <2>1. friends' = friends \cup {Forth(r), Back(r)}
    BY <1>1, <1>2 DEF IInv, OpenRows
  <2>2. told' = told \cup {Forth(r)}
    BY <1>1, <1>2 DEF BothLive, Forth
  <2>3. Friendships!Befriend(by, to)
    BY <1>1, <1>2, <2>1, <2>2 DEF Friendships!Befriend, BothLive, Forth, Back
  <2>4. by \in Users /\ to \in Users
    BY <1>2 DEF IInv, TypeOK, BothLive
  <2> QED
    BY <2>3, <2>4 DEF Friendships!Next
<1>3. CASE ~BothLive(r)
  <2>1. Forth(r) \notin users \X users
    BY <1>3 DEF BothLive, Forth
  <2>2. req[r].own = {}
    BY <1>1, <2>1
  <2> QED
    BY <1>1, <2>1, <2>2 DEF Friendships!fvars
<1> QED
  BY <1>2, <1>3

LEMMA LeaveMaps ==
    ASSUME IInv, NEW r \in Reqs, DeleteAccount(r)
    PROVE  Friendships!Next
<1>1. req[r].by \in Users
  BY DEF IInv, TypeOK, HeldIsFree, DeleteAccount
<1>2. Friendships!Leave(req[r].by)
  BY DEF IInv, HeldIsFree, DeleteAccount, Friendships!Leave, Friendships!Of
<1> QED
  BY <1>1, <1>2 DEF Friendships!Next

LEMMA StepMaps == IInv /\ [Next]_vars => [Friendships!Next]_(Friendships!fvars)
<1> SUFFICES ASSUME IInv, [Next]_vars
             PROVE  Friendships!Next \/ UNCHANGED Friendships!fvars
  OBVIOUS
<1>1. ASSUME NEW u \in Users, Register(u) PROVE Friendships!Next
  <2>1. Friendships!Register(u)
    BY <1>1 DEF Register, SaveUser, Friendships!Register, IInv, TypeOK
  <2> QED
    BY <2>1 DEF Friendships!Next
<1>2. ASSUME NEW u \in Users, Single(u), ~Register(u) PROVE UNCHANGED Friendships!fvars
  BY <1>2 DEF Single, JoinGroup, LeaveGroup, PrivateMessage, accounts, Friendships!fvars
<1>3. ASSUME NEW u \in Users, NEW r \in Reqs, Request(r, u)
      PROVE  UNCHANGED Friendships!fvars
  BY <1>3
  DEF Request, DeleteUser, AddFriend, CreateGroup, GroupMessage, Begin, accounts,
      Friendships!fvars
<1>4. ASSUME NEW r \in Reqs, FriendStep(r), ~CommitPairs(r)
      PROVE  UNCHANGED Friendships!fvars
  BY <1>4 DEF FriendStep, PairThere, InsertPair, PairRefused, accounts, Friendships!fvars
<1>5. ASSUME NEW r \in Reqs,
             \/ CreateStep(r) \/ CheckMember(r) \/ StoreGroupMessage(r)
             \/ AbortVictim(r) \/ StatementFails(r)
      PROVE  UNCHANGED Friendships!fvars
  BY <1>5
  DEF CreateStep, NameTaken, NameFree, InsertGroup, InsertGroupRefused, InsertOwner,
      InsertOwnerRefused, CheckMember, StoreGroupMessage, AbortVictim, StatementFails,
      accounts, Friendships!fvars
<1>6. ASSUME NEW r \in Reqs, DeleteStep(r), ~DeleteAccount(r)
      PROVE  UNCHANGED Friendships!fvars
  BY <1>6
  DEF DeleteStep, DeleteChats, SelectOwned, DeleteGroup, DeleteGroupMessages, TakeAccount,
      AccountGone, DeleteAccountRefused, accounts, Friendships!fvars
<1>7. CASE UNCHANGED vars
  BY <1>7 DEF vars, accounts, Friendships!fvars
<1> QED
  BY <1>1, <1>2, <1>3, <1>4, <1>5, <1>6, <1>7, CommitMaps, LeaveMaps DEF Next, Step

\* add_friend's two inserts in one transaction, PostgreSQL's waiting, aborts and
\* cascade, and the deletion of an account implement the atomic friendship.
THEOREM FriendshipImplemented == Spec => ImplementsFriendship
<1>1. Init => Friendships!Init
  BY DEF Init, Friendships!Init
<1> QED
  BY <1>1, Inductive, StepMaps, PTL DEF Spec, ImplementsFriendship, Friendships!Spec
=============================================================================
