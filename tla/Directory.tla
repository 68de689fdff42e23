------------------------------ MODULE Directory ------------------------------
(***************************************************************************)
(* Accounts, friends and groups: the tables of init.sql and the requests   *)
(* of src/router.rs that change them through src/service.rs and            *)
(* src/dao.rs.  Every statement outside a transaction commits on its own,  *)
(* so a request is a sequence of atomic statements with other requests in  *)
(* between; only add_friend runs in a transaction.  PostgreSQL's part is   *)
(* taken from how the code uses it: foreign keys and unique constraints    *)
(* fail a statement, ON DELETE CASCADE takes dependent rows along, an      *)
(* insert waits for the transaction that has inserted the same key, and    *)
(* an open transaction keeps the users its new rows refer to from being    *)
(* deleted, and the last statement of delete_user holds the account and    *)
(* its rows of im_friends while its cascade waits for those of another.    *)
(* Tables are sets of keys: <<g, u>> in gmsgs stands for the messages of u *)
(* in g, <<u, v>> in chats for the private messages from u to v.           *)
(***************************************************************************)
EXTENDS Naturals, FiniteSets

CONSTANTS Users,    \* user ids that may ever be registered
          NameOf,   \* the username an id is registered with
          Titles,   \* group names
          Writing,  \* pairs <<u, v>> such that u may send private messages to v
          Reqs,     \* slots for requests of several statements under way
          MaxGroups, \* bound: the insert of a further group fails
          Faults,   \* TRUE: a statement of a request may fail
          None      \* "no user", "no group", "no name"

ASSUME DirectoryAssumption == Faults \in BOOLEAN /\ None \notin Users /\ Writing \subseteq Users \X Users

VARIABLES users,     \* im_users
          born,      \* ids ever registered: their tokens and sessions outlive them
          friends,   \* im_friends, committed rows
          groups,    \* im_groups
          made,      \* number of group ids generated: each is new
          members,   \* im_group_members
          gmsgs,     \* im_group_messages
          chats,     \* im_chat_messages
          req,       \* the requests under way
          created,   \* groups answered as created whose owner has not left
          told,      \* friend pairs answered as added, of accounts that exist
          late       \* private messages stored after a party began to be deleted

accounts == <<users, born>>
grouping == <<groups, made, members, gmsgs, created>>
vars == <<accounts, friends, grouping, chats, req, told, late>>

Group == [id : Nat \ {0}, owner : Users, name : Titles]
Idle == [op |-> "idle", by |-> None, to |-> None, name |-> None, at |-> "end",
         own |-> {}, todo |-> {}]

Init ==
    /\ users = {} /\ born = {}
    /\ friends = {} /\ told = {}
    /\ groups = {} /\ made = 0 /\ members = {} /\ gmsgs = {} /\ created = {}
    /\ chats = {} /\ late = {}
    /\ req = [r \in Reqs |-> Idle]

Exists(g) == \E h \in groups : h.id = g
Deleted == born \ users

-----------------------------------------------------------------------------
(* Requests that wait for each other                                       *)

Inserting(r) == req[r].at \in {"forward", "reverse"}
Pair(r) == IF req[r].at = "forward" THEN <<req[r].by, req[r].to>>
           ELSE <<req[r].to, req[r].by>>

\* The last statement of delete_user has taken the account, with what it owned.
Cascading(q) == req[q].at = "cascade"
Held(u) == \E q \in Reqs : Cascading(q) /\ req[q].by = u

\* The insert of a pair waits for the transaction that has inserted the same key,
\* and for a delete that has taken the row, or an account the new row refers to.
InsertWaits(r, q) ==
    /\ Inserting(r)
    /\ \/ Pair(r) \in req[q].own
       \/ Cascading(q) /\ Pair(r) \in friends /\ req[q].by = Pair(r)[1]
       \/ Cascading(q) /\ Pair(r) \notin friends /\ req[q].by \in {req[r].by, req[r].to}

\* The delete of an account waits for the rows of an open add_friend that refer to
\* it; its cascade, over user_id and then friend_id, for pairs another has taken.
DeleteWaits(r, q) ==
    \/ req[r].at = "user" /\ \E p \in req[q].own : req[r].by \in {p[1], p[2]}
    \/ Cascading(r) /\ Cascading(q) /\ q # r /\ <<req[q].by, req[r].by>> \in friends

\* An insert that refers to an account, or the delete of it, waits for a delete.
AccountWaits(r, q) ==
    req[r].at \in {"insert", "owner", "store", "user"} /\ Cascading(q) /\ req[q].by = req[r].by

WaitsFor(r, q) == InsertWaits(r, q) \/ DeleteWaits(r, q) \/ AccountWaits(r, q)
Free(r) == \A q \in Reqs : ~WaitsFor(r, q)

\* A request of a user with a valid token: its first statement comes next.
Begin(r, op, u, to, name, at) ==
    /\ req[r].op = "idle"
    /\ u \in born
    /\ req' = [req EXCEPT ![r] = [Idle EXCEPT !.op = op, !.by = u, !.to = to,
                                              !.name = name, !.at = at]]
    /\ UNCHANGED <<accounts, friends, grouping, chats, told, late>>

Goto(r, at) == req' = [req EXCEPT ![r].at = at]

\* Mutant: the connection goes back to the pool with its transaction open.
EndLeavingOpen(r) == req' = [req EXCEPT ![r] = [Idle EXCEPT !.own = req[r].own]]

\* The handler answers; a transaction still open is rolled back.
End(r) == req' = [req EXCEPT ![r] = Idle]

\* A statement fails: lost connection, pool timeout.  The handler answers 500.
StatementFails(r) ==
    /\ Faults
    /\ req[r].op # "idle"
    /\ End(r)
    /\ UNCHANGED <<accounts, friends, grouping, chats, told, late>>

-----------------------------------------------------------------------------
(* Requests of one statement                                               *)

\* save_user: a new id; the username is UNIQUE.
SaveUser(u) ==
    /\ \A v \in users : NameOf[v] # NameOf[u]
    /\ users' = users \cup {u}
    /\ born' = born \cup {u}

\* POST /api/user/register; a taken username is answered with 409.
Register(u) ==
    /\ u \notin born
    /\ SaveUser(u)
    /\ UNCHANGED <<friends, grouping, chats, req, told, late>>

\* POST /api/group/join
JoinGroup(u, g) ==
    /\ u \in users /\ Exists(g) /\ ~Held(u)
    /\ members' = members \cup {<<g, u>>}
    /\ UNCHANGED <<accounts, friends, groups, made, gmsgs, created, chats, req, told, late>>

\* POST /api/group/leave
LeaveGroup(u, g) ==
    /\ <<g, u>> \in members /\ ~Held(u)
    /\ members' = members \ {<<g, u>>}
    /\ created' = {h \in created : ~(h.id = g /\ h.owner = u)}
    /\ UNCHANGED <<accounts, friends, groups, made, gmsgs, chats, req, told, late>>

PastChats(w) ==
    \/ w \in Deleted
    \/ \E r \in Reqs : req[r].op = "delete" /\ req[r].by = w /\ req[r].at # "chats"

\* A private_chat frame: im_chat_messages refers to nobody, any id will do.
PrivateMessage(u, v) ==
    /\ {u, v} \subseteq born
    /\ chats' = chats \cup {<<u, v>>}
    /\ late' = IF PastChats(u) \/ PastChats(v) THEN late \cup {<<u, v>>} ELSE late
    /\ UNCHANGED <<accounts, friends, grouping, req, told>>

-----------------------------------------------------------------------------
(* POST /api/friend/add                                                    *)

\* friend_add_handler refuses the user itself, then opens the transaction.
AddFriend(r, u, v) ==
    /\ u # v
    /\ v \in born
    /\ Begin(r, "friend", u, v, None, "forward")

AfterPair(r) == IF req[r].at = "forward" THEN "reverse" ELSE "commit"

\* ON CONFLICT DO NOTHING: the row is there, nothing is inserted or locked.
PairThere(r) ==
    /\ Inserting(r)
    /\ Free(r)
    /\ Pair(r) \in friends
    /\ Goto(r, AfterPair(r))
    /\ UNCHANGED <<accounts, friends, grouping, chats, told, late>>

\* Mutant: no transaction, every insert commits on its own.
InsertPairAlone(r) ==
    /\ Inserting(r)
    /\ Pair(r) \notin friends
    /\ {req[r].by, req[r].to} \subseteq users
    /\ friends' = friends \cup {Pair(r)}
    /\ Goto(r, AfterPair(r))
    /\ UNCHANGED <<accounts, grouping, chats, told, late>>

InsertPair(r) ==
    /\ Inserting(r)
    /\ Free(r)
    /\ Pair(r) \notin friends
    /\ {req[r].by, req[r].to} \subseteq users
    /\ req' = [req EXCEPT ![r].own = @ \cup {Pair(r)}, ![r].at = AfterPair(r)]
    /\ UNCHANGED <<accounts, friends, grouping, chats, told, late>>

\* One of the two is not in im_users: foreign key violation, 500.
PairRefused(r) ==
    /\ Inserting(r)
    /\ Free(r)
    /\ Pair(r) \notin friends
    /\ ~({req[r].by, req[r].to} \subseteq users)
    /\ End(r)
    /\ UNCHANGED <<accounts, friends, grouping, chats, told, late>>

\* Mutant: the transaction is dropped without its commit.
CommitForgotten(r) ==
    /\ req[r].at = "commit"
    /\ told' = told \cup ({<<req[r].by, req[r].to>>} \cap (users \X users))
    /\ End(r)
    /\ UNCHANGED <<accounts, friends, grouping, chats, late>>

CommitPairs(r) ==
    /\ req[r].at = "commit"
    /\ friends' = friends \cup req[r].own
    /\ told' = told \cup ({<<req[r].by, req[r].to>>} \cap (users \X users))
    /\ End(r)
    /\ UNCHANGED <<accounts, grouping, chats, late>>

\* Two transactions, or two among those of a longer circle, wait for each other:
\* PostgreSQL aborts one of them, 500.
AbortVictim(r) ==
    /\ \E q \in Reqs : WaitsFor(r, q) /\ WaitsFor(q, r)
    /\ End(r)
    /\ UNCHANGED <<accounts, friends, grouping, chats, told, late>>

FriendStep(r) == PairThere(r) \/ InsertPair(r) \/ PairRefused(r) \/ CommitPairs(r)

-----------------------------------------------------------------------------
(* POST /api/group/create and a group_chat frame                           *)

Owns(u, name) == \E h \in groups : h.owner = u /\ h.name = name

CreateGroup(r, u, name) == Begin(r, "create", u, None, name, "name")

\* The group of this owner and name exists already: 409.
NameTaken(r) ==
    /\ req[r].at = "name"
    /\ Owns(req[r].by, req[r].name)
    /\ End(r)
    /\ UNCHANGED <<accounts, friends, grouping, chats, told, late>>

NameFree(r) ==
    /\ req[r].at = "name"
    /\ ~Owns(req[r].by, req[r].name)
    /\ Goto(r, "insert")
    /\ UNCHANGED <<accounts, friends, grouping, chats, told, late>>

InsertGroup(r) ==
    /\ req[r].at = "insert"
    /\ Free(r)
    /\ ~Owns(req[r].by, req[r].name)
    /\ req[r].by \in users
    /\ made < MaxGroups
    /\ made' = made + 1
    /\ groups' = groups \cup {[id |-> made', owner |-> req[r].by, name |-> req[r].name]}
    /\ req' = [req EXCEPT ![r].to = made', ![r].at = "owner"]
    /\ UNCHANGED <<accounts, friends, members, gmsgs, created, chats, told, late>>

\* Unique or foreign key violation, 500; or the bound.
InsertGroupRefused(r) ==
    /\ req[r].at = "insert"
    /\ Owns(req[r].by, req[r].name) \/ req[r].by \notin users \/ made = MaxGroups
    /\ End(r)
    /\ UNCHANGED <<accounts, friends, grouping, chats, told, late>>

InsertOwner(r) ==
    /\ req[r].at = "owner"
    /\ Free(r)
    /\ Exists(req[r].to) /\ req[r].by \in users
    /\ <<req[r].to, req[r].by>> \notin members
    /\ members' = members \cup {<<req[r].to, req[r].by>>}
    /\ created' = created \cup {h \in groups : h.id = req[r].to}
    /\ End(r)
    /\ UNCHANGED <<accounts, friends, groups, made, gmsgs, chats, told, late>>

\* The group was deleted with its owner meanwhile, or the owner has found it
\* in a list and joined: foreign or primary key violation, 500.
InsertOwnerRefused(r) ==
    /\ req[r].at = "owner"
    /\ \/ ~Exists(req[r].to)
       \/ req[r].by \notin users
       \/ <<req[r].to, req[r].by>> \in members
    /\ End(r)
    /\ UNCHANGED <<accounts, friends, grouping, chats, told, late>>

CreateStep(r) ==
    \/ NameTaken(r) \/ NameFree(r) \/ InsertGroup(r) \/ InsertGroupRefused(r)
    \/ InsertOwner(r) \/ InsertOwnerRefused(r)

GroupMessage(r, u, g) == Begin(r, "gmsg", u, g, None, "member")

CheckMember(r) ==
    /\ req[r].at = "member"
    /\ IF <<req[r].to, req[r].by>> \in members THEN Goto(r, "store") ELSE End(r)
    /\ UNCHANGED <<accounts, friends, grouping, chats, told, late>>

\* The insert, or its foreign key violation when the group or user is gone.
StoreGroupMessage(r) ==
    /\ req[r].at = "store"
    /\ Free(r)
    /\ gmsgs' = IF Exists(req[r].to) /\ req[r].by \in users
                THEN gmsgs \cup {<<req[r].to, req[r].by>>} ELSE gmsgs
    /\ End(r)
    /\ UNCHANGED <<accounts, friends, groups, made, members, created, chats, told, late>>

-----------------------------------------------------------------------------
(* POST /api/user/delete                                                   *)

DeleteUser(r, u) == Begin(r, "delete", u, None, None, "chats")

\* Mutant: what others have written to the user stays.
DeleteSentChats(r) ==
    LET mine == {m \in chats : m[1] = req[r].by}
    IN  /\ req[r].at = "chats"
        /\ chats' = chats \ mine
        /\ late' = late \ mine
        /\ Goto(r, "owned")
        /\ UNCHANGED <<accounts, friends, grouping, told>>

\* Mutant: the memberships are deleted first, not with the account.
DeleteMembershipsFirst(r) ==
    LET mine == {m \in chats : req[r].by \in {m[1], m[2]}}
    IN  /\ req[r].at = "chats"
        /\ chats' = chats \ mine
        /\ late' = late \ mine
        /\ members' = {m \in members : m[2] # req[r].by}
        /\ Goto(r, "owned")
        /\ UNCHANGED <<accounts, friends, groups, made, gmsgs, created, told>>

DeleteChats(r) ==
    LET mine == {m \in chats : req[r].by \in {m[1], m[2]}}
    IN  /\ req[r].at = "chats"
        /\ chats' = chats \ mine
        /\ late' = late \ mine
        /\ Goto(r, "owned")
        /\ UNCHANGED <<accounts, friends, grouping, told>>

\* Mutant: the groups the user is a member of are selected.
SelectJoined(r) ==
    LET joined == {m[1] : m \in {n \in members : n[2] = req[r].by}}
    IN  /\ req[r].at = "owned"
        /\ req' = [req EXCEPT ![r].todo = joined,
                              ![r].at = IF joined = {} THEN "gmsgs" ELSE "groups"]
        /\ UNCHANGED <<accounts, friends, grouping, chats, told, late>>

SelectOwned(r) ==
    LET owned == {h.id : h \in {k \in groups : k.owner = req[r].by}}
    IN  /\ req[r].at = "owned"
        /\ req' = [req EXCEPT ![r].todo = owned,
                              ![r].at = IF owned = {} THEN "gmsgs" ELSE "groups"]
        /\ UNCHANGED <<accounts, friends, grouping, chats, told, late>>

\* One group of the selection, with its members and messages.
DeleteGroup(r) ==
    /\ req[r].at = "groups"
    /\ \E g \in req[r].todo :
        /\ \A m \in members : m[1] = g => ~Held(m[2])
        /\ groups' = {h \in groups : h.id # g}
        /\ members' = {m \in members : m[1] # g}
        /\ gmsgs' = {m \in gmsgs : m[1] # g}
        /\ created' = {h \in created : h.id # g}
        /\ req' = [req EXCEPT ![r].todo = @ \ {g},
                              ![r].at = IF req[r].todo = {g} THEN "gmsgs" ELSE @]
    /\ UNCHANGED <<accounts, friends, made, chats, told, late>>

\* The group messages, then the read cursors, a table nothing writes.
DeleteGroupMessages(r) ==
    /\ req[r].at = "gmsgs"
    /\ gmsgs' = {m \in gmsgs : m[2] # req[r].by}
    /\ Goto(r, "user")
    /\ UNCHANGED <<accounts, friends, groups, made, members, created, chats, told, late>>

Referenced(u) == (\E h \in groups : h.owner = u) \/ (\E m \in gmsgs : m[2] = u)

\* Mutant: neither the rows of an open transaction nor a delete are waited for.
TakeLocked(r) ==
    /\ req[r].at = "user"
    /\ req[r].by \in users
    /\ ~Referenced(req[r].by)
    /\ Goto(r, "cascade")
    /\ UNCHANGED <<accounts, friends, grouping, chats, told, late>>

\* DELETE FROM im_users holds the account and its pairs until its cascade is done.
TakeAccount(r) ==
    /\ req[r].at = "user"
    /\ Free(r)
    /\ req[r].by \in users
    /\ ~Referenced(req[r].by)
    /\ Goto(r, "cascade")
    /\ UNCHANGED <<accounts, friends, grouping, chats, told, late>>

\* Another request has deleted the account: no row is deleted, 200.
AccountGone(r) ==
    /\ req[r].at = "user"
    /\ req[r].by \notin users
    /\ End(r)
    /\ UNCHANGED <<accounts, friends, grouping, chats, told, late>>

\* A group or a group message of the user appeared meanwhile: 500.
DeleteAccountRefused(r) ==
    /\ req[r].at = "user"
    /\ Free(r)
    /\ Referenced(req[r].by)
    /\ End(r)
    /\ UNCHANGED <<accounts, friends, grouping, chats, told, late>>

\* The account goes with its memberships and pairs.
DeleteAccount(r) ==
    LET u == req[r].by
    IN  /\ Cascading(r)
        /\ Free(r)
        /\ users' = users \ {u}
        /\ members' = {m \in members : m[2] # u}
        /\ friends' = {p \in friends : u \notin {p[1], p[2]}}
        /\ told' = {p \in told : u \notin {p[1], p[2]}}
        /\ End(r)
        /\ UNCHANGED <<born, groups, made, gmsgs, created, chats, late>>

DeleteStep(r) ==
    \/ DeleteChats(r) \/ SelectOwned(r) \/ DeleteGroup(r)
    \/ DeleteGroupMessages(r) \/ TakeAccount(r) \/ AccountGone(r)
    \/ DeleteAccountRefused(r) \/ DeleteAccount(r)

-----------------------------------------------------------------------------
Step(r) ==
    \/ FriendStep(r) \/ CreateStep(r) \/ CheckMember(r) \/ StoreGroupMessage(r)
    \/ DeleteStep(r)

Request(r, u) ==
    \/ DeleteUser(r, u)
    \/ \E v \in Users : AddFriend(r, u, v)
    \/ \E name \in Titles : CreateGroup(r, u, name)
    \/ \E g \in 1..made : GroupMessage(r, u, g)

Single(u) ==
    \/ Register(u)
    \/ \E g \in 1..made : JoinGroup(u, g) \/ LeaveGroup(u, g)
    \/ \E v \in Users : <<u, v>> \in Writing /\ PrivateMessage(u, v)

Next ==
    \/ \E u \in Users : Single(u) \/ \E r \in Reqs : Request(r, u)
    \/ \E r \in Reqs : Step(r) \/ AbortVictim(r) \/ StatementFails(r)

Spec == Init /\ [][Next]_vars

\* Handlers run on, and PostgreSQL serves those who wait for a lock in turn
\* and looks for deadlocks.  Nobody has to send a request.
Fairness ==
    \A r \in Reqs : SF_vars(Step(r)) /\ WF_vars(AbortVictim(r))

FairSpec == Spec /\ Fairness

-----------------------------------------------------------------------------
(* Properties                                                              *)

RequestType == [op : {"idle", "friend", "create", "gmsg", "delete"},
             by : Users \cup {None}, to : Users \cup Nat \cup {None},
             name : Titles \cup {None},
             at : {"end", "forward", "reverse", "commit", "name", "insert", "owner",
                   "member", "store", "chats", "owned", "groups", "gmsgs", "user",
                   "cascade"},
             own : SUBSET (Users \X Users), todo : SUBSET Nat]

\* Types, primary keys, and the references between the tables.
TypeOK ==
    /\ users \subseteq born /\ born \subseteq Users
    /\ \A u, v \in users : NameOf[u] = NameOf[v] => u = v
    /\ friends \subseteq users \X users
    /\ groups \subseteq Group /\ made \in Nat
    /\ \A h \in groups : h.owner \in users /\ h.id <= made
    /\ \A h, k \in groups : h.id = k.id => h = k
    /\ \A m \in members \cup gmsgs : Exists(m[1]) /\ m[2] \in users
    /\ chats \subseteq born \X born
    /\ req \in [Reqs -> RequestType]
    /\ created \subseteq groups /\ told \subseteq users \X users /\ late \subseteq chats

\* Friendship is between two users and mutual (doc/api.md, "bidirectional"):
\* whoever is in the list of another has the other in theirs, whatever add_friend
\* and delete_user calls overlap, wait for each other, are aborted or fail.
FriendsSymmetric == \A p \in friends : p[1] # p[2] /\ <<p[2], p[1]>> \in friends

\* "friend added" was answered: both pairs are stored while both accounts live.
AddedAreFriends == \A p \in told : {p, <<p[2], p[1]>>} \subseteq friends

\* A group answered as created ("owner auto-joined as member", doc/api.md) has
\* its owner as a member until the owner leaves it, also when the owner's
\* account is being deleted or its deletion has failed half way.
CreatedGroupHasOwner == \A h \in created : <<h.id, h.owner>> \in members

\* What delete_user leaves behind: of a deleted account there is no friend, no
\* group, no membership and no group message, and no private message but those
\* stored after the deletion had begun.
DeletedLeavesNothing ==
    \A u \in Deleted :
        /\ \A p \in friends : u \notin {p[1], p[2]}
        /\ \A m \in members \cup gmsgs : m[2] # u
        /\ \A h \in groups : h.owner # u
        /\ \A m \in chats \ late : u \notin {m[1], m[2]}

Deleting(u) == \E r \in Reqs : req[r].op = "delete" /\ req[r].by = u

\* What others wrote survives a deletion: a group and its messages go only when
\* the owner's account is being deleted, other messages with their author's.
LossStep ==
    /\ \A h \in groups \ groups' : Deleting(h.owner)
    /\ \A m \in gmsgs \ gmsgs' :
          Deleting(m[2]) \/ \E h \in groups \ groups' : h.id = m[1]
    /\ \A m \in chats \ chats' : Deleting(m[1]) \/ Deleting(m[2])

OnlyOwnDataGoes == [][LossStep]_vars

\* Every request is answered: no request waits for ever for the transaction of
\* another, add_friend(A, B) and add_friend(B, A) at the same time included.
RequestEnds == \A r \in Reqs : req[r].op # "idle" ~> req[r].op = "idle"

\* An open add_friend keeps two accounts from being deleted and its keys from
\* being inserted.  Its connection never goes back to the pool with it, and it
\* waits for nothing but an open add_friend that waits for it, of which PostgreSQL
\* aborts one: never for a delete_user, however many of these wait for it or, in
\* circles of any length, for each other.
OpenTransactionsResolve ==
    \A r \in Reqs : req[r].own # {} =>
        /\ req[r].op # "idle"
        /\ \A q \in Reqs : WaitsFor(r, q) => req[q].own # {} /\ WaitsFor(q, r)

\* The inserts of add_friend, whose transactions wait for each other, overlap, are
\* aborted or rolled back, and delete_user with its cascade between them, are one
\* atomic step each, as far as friendship is concerned.
Friendships == INSTANCE Friendship WITH accounts <- users, answered <- told

ImplementsFriendship == Friendships!Spec

\* The inductive invariant.  A request is where its operation can be, and what
\* an earlier statement of it found is still true or too late to matter: the
\* owner of the groups it works on, the friend pairs it has passed.
BothLive(r) == {req[r].by, req[r].to} \subseteq users
Forth(r) == <<req[r].by, req[r].to>>
Back(r) == <<req[r].to, req[r].by>>

OpFits ==
    \A r \in Reqs :
        /\ req[r].op # "idle" => req[r].by \in born
        /\ req[r].at \in {"forward", "reverse", "commit"} =>
              req[r].to \in born /\ req[r].to # req[r].by
        /\ req[r].at \in {"chats", "owned", "groups", "gmsgs", "user", "cascade"} =>
              req[r].op = "delete"
        /\ req[r].at = "end" <=> req[r].op = "idle"

OwnerKnown ==
    \A r \in Reqs :
        /\ req[r].at = "owner" => req[r].to \in 1..made
        /\ req[r].todo \subseteq 1..made
        /\ \A h \in groups :
              \/ req[r].at = "owner" /\ h.id = req[r].to
              \/ req[r].at = "groups" /\ h.id \in req[r].todo
              => h.owner = req[r].by

OpenRows ==
    \A r \in Reqs :
        /\ req[r].own \subseteq (users \X users) \ friends
        /\ \/ req[r].own = {}
           \/ req[r].at = "reverse" /\ req[r].own = {Forth(r)}
           \/ req[r].at = "commit" /\ req[r].own = {Forth(r), Back(r)}
        /\ req[r].own = {} /\ req[r].at \in {"reverse", "commit"} /\ BothLive(r) =>
              {Forth(r), Back(r)} \subseteq friends

RowsDisjoint == \A r, q \in Reqs : r # q => req[r].own \cap req[q].own = {}

\* What a delete has taken refers to nothing open and is referred to by nothing
\* that would stop it, and no two have taken one account.
HeldIsFree ==
    \A r \in Reqs : Cascading(r) =>
        /\ req[r].by \in users /\ ~Referenced(req[r].by)
        /\ \A q \in Reqs : \A p \in req[q].own : req[r].by \notin {p[1], p[2]}
        /\ \A q \in Reqs : Cascading(q) /\ req[q].by = req[r].by => q = r

NoLeftovers ==
    \A u \in Users : PastChats(u) => \A m \in chats \ late : u \notin {m[1], m[2]}

IInv ==
    /\ TypeOK /\ OpFits /\ OwnerKnown /\ OpenRows /\ RowsDisjoint /\ HeldIsFree
    /\ FriendsSymmetric /\ AddedAreFriends /\ CreatedGroupHasOwner /\ NoLeftovers
=============================================================================
