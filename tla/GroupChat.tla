------------------------------ MODULE GroupChat ------------------------------
(***************************************************************************)
(* Delivery of the messages of one group.  handle_biz_msg (src/router.rs)  *)
(* checks that the sender is a member, stores the message, acks it,        *)
(* selects the members and pushes to each; the unseen-sync task of a new   *)
(* connection pushes what lies behind the user's read cursor; the group    *)
(* history request returns a page, then moves the cursor, and so does the  *)
(* mark_group_read frame.  One action is one statement or one run of code  *)
(* between two awaits.  The counts that follow a move of the cursor are in *)
(* GroupRead and change nothing here; the registry is the one OnlineUsers  *)
(* details.                                                                *)
(***************************************************************************)
EXTENDS Naturals, Sequences, FiniteSets

CONSTANTS Users,
          Conns, UserOf,  \* successive connections, and whose they are
          Msgs, AuthorOf, \* messages, by client_msg_id, and who composes them
          NoConn,
          SyncLimit,      \* places of the 200 of get_unseen_group_messages that the
                          \* messages of other groups leave at least
          Readers,        \* bound: users who open the group on their page
          MaxSends,       \* bound: frames sent per message
          MaxLeaves,      \* bound: members who leave
          MaxCrashes,     \* bound: restarts of the server
          Faults          \* bound: users whose statements may fail, and requests be
                          \* abandoned

ASSUME GroupChatAssumption ==
    /\ UserOf \in [Conns -> Users] /\ AuthorOf \in [Msgs -> Users]
    /\ NoConn \notin Conns /\ Readers \subseteq Users
    /\ {SyncLimit, MaxSends, MaxLeaves, MaxCrashes} \subseteq Nat
    /\ Faults \subseteq Users

VARIABLES
    rows,      \* im_group_messages: row id -> message
    members,   \* im_group_members ...
    joined,    \* ... with joined_at, as the last id stored by then
    cursor,    \* im_group_read_cursors: user -> last_read_msg_id, 0 without a row
    online,    \* online_users: the connection send_to_user writes to
    sock,      \* a connection's socket: "new", "open", "closed"
    up,        \* frames of the client the main task has not read
    chan,      \* frames of the server the client has not read
    task,      \* the main task: idle, or where handle_biz_msg stands
    sync,      \* the unseen-sync task: "select", "push", "done" or "failed"
    hist,      \* user -> GET /api/group/history
    viewing,   \* users whose page shows the group
    recv,      \* user -> messages the page was given
    sends,     \* frames sent so far per message
    acked,     \* messages the author's page got an ack for
    unpushed,  \* history: ids whose members could not be selected
    leaves, crashes

db == <<rows, members, joined, cursor>>
net == <<online, sock, up, chan>>
page == <<viewing, recv, sends, acked>>
bounds == <<leaves, crashes>>
vars == <<db, net, task, sync, hist, page, unpushed, bounds>>

Ids == DOMAIN rows
RowsOf(k) == {i \in Ids : rows[i] = k}
From(i) == AuthorOf[rows[i]]
Idle == [pc |-> "idle"]
NoSync == [pc |-> "done"]

Init ==
    /\ rows = <<>>
    /\ members = Users
    /\ joined = [u \in Users |-> 0]
    /\ cursor = [u \in Users |-> 0]
    /\ online = [u \in Users |-> NoConn]
    /\ sock = [c \in Conns |-> "new"]
    /\ up = [c \in Conns |-> <<>>]
    /\ chan = [c \in Conns |-> <<>>]
    /\ task = [c \in Conns |-> Idle]
    /\ sync = [c \in Conns |-> NoSync]
    /\ hist = [u \in Users |-> Idle]
    /\ viewing = {}
    /\ recv = [u \in Users |-> {}]
    /\ sends = [k \in Msgs |-> 0]
    /\ acked = {}
    /\ unpushed = {}
    /\ leaves = 0 /\ crashes = 0

Goto(c, t) == task' = [task EXCEPT ![c] = t]
HistGoto(u, h) == hist' = [hist EXCEPT ![u] = h]

\* tx.send on a connection: what is queued for a closed socket is lost.
Reply(c, fs) ==
    chan' = IF sock[c] = "open" THEN [chan EXCEPT ![c] = @ \o fs] ELSE chan

\* AppState::send_to_user: the frame reaches the registered connection, or is
\* lost with a connection that is down, which may or may not be noticed.
SendToUser(u, f) ==
    LET c == online[u]
    IN  IF c # NoConn /\ sock[c] = "open"
        THEN Reply(c, <<f>>) /\ UNCHANGED online
        ELSE /\ UNCHANGED chan
             /\ \/ UNCHANGED online
                \/ online' = [online EXCEPT ![u] = NoConn]

-----------------------------------------------------------------------------
(* Connections and members                                                 *)

\* handle_im_websocket registers the connection, then spawns its sync task; the
\* page has closed its previous socket.
Connect(c) ==
    LET u == UserOf[c]
    IN  /\ sock[c] = "new"
        /\ \A d \in Conns : UserOf[d] = u => sock[d] # "open"
        /\ sock' = [sock EXCEPT ![c] = "open"]
        /\ online' = [online EXCEPT ![u] = c]
        /\ sync' = [sync EXCEPT ![c] = [pc |-> "select"]]
        /\ UNCHANGED <<db, up, chan, task, hist, page, unpushed, bounds>>

\* The page or the network goes: frames on their way to the client are lost,
\* and so may be the last ones it sent; the server's tasks go on.
Disconnect(c) ==
    /\ sock[c] = "open"
    /\ sock' = [sock EXCEPT ![c] = "closed"]
    /\ chan' = [chan EXCEPT ![c] = <<>>]
    /\ \E n \in 0..Len(up[c]) : up' = [up EXCEPT ![c] = SubSeq(@, 1, n)]
    /\ UNCHANGED <<db, online, task, sync, hist, page, unpushed, bounds>>

\* The server restarts: only the database survives.
Crash ==
    /\ crashes < MaxCrashes
    /\ crashes' = crashes + 1
    /\ online' = [u \in Users |-> NoConn]
    /\ sock' = [c \in Conns |-> IF sock[c] = "open" THEN "closed" ELSE sock[c]]
    /\ up' = [c \in Conns |-> <<>>]
    /\ chan' = [c \in Conns |-> <<>>]
    /\ task' = [c \in Conns |-> Idle]
    /\ sync' = [c \in Conns |-> NoSync]
    /\ hist' = [u \in Users |-> Idle]
    /\ UNCHANGED <<db, page, unpushed, leaves>>

\* leave_group keeps the user's cursor.
LeaveGroup(u) ==
    /\ u \in members
    /\ leaves < MaxLeaves
    /\ leaves' = leaves + 1
    /\ members' = members \ {u}
    /\ UNCHANGED <<rows, joined, cursor, net, task, sync, hist, page, unpushed, crashes>>

JoinGroup(u) ==
    /\ u \notin members
    /\ members' = members \cup {u}
    /\ joined' = [joined EXCEPT ![u] = Len(rows)]
    /\ UNCHANGED <<rows, cursor, net, task, sync, hist, page, unpushed, bounds>>

-----------------------------------------------------------------------------
(* handle_biz_msg: group_chat                                              *)

\* The main task takes the next frame of its client.
TakeFrame(c) ==
    /\ task[c] = Idle
    /\ up[c] # <<>>
    /\ up' = [up EXCEPT ![c] = Tail(@)]
    /\ Goto(c, Head(up[c]))
    /\ UNCHANGED <<db, online, sock, chan, sync, hist, page, unpushed, bounds>>

\* is_group_member; a sender who is not gets an error frame.
CheckMember(c) ==
    LET k == task[c].key
    IN  /\ task[c].pc = "group_chat"
        /\ IF UserOf[c] \in members
           THEN Goto(c, [pc |-> "persist", key |-> k]) /\ UNCHANGED chan
           ELSE Goto(c, Idle) /\ Reply(c, <<[cmd |-> "error", key |-> k]>>)
        /\ UNCHANGED <<db, online, sock, up, sync, hist, page, unpushed, bounds>>

\* A failing check is logged and not answered.
CheckMemberFails(c) ==
    /\ UserOf[c] \in Faults
    /\ task[c].pc = "group_chat"
    /\ Goto(c, Idle)
    /\ UNCHANGED <<db, net, sync, hist, page, unpushed, bounds>>

\* Mutant: a second insert of a client_msg_id is not a conflict.
PersistTwice(c) ==
    /\ task[c].pc = "persist"
    /\ rows' = Append(rows, task[c].key)
    /\ Goto(c, [pc |-> "ack", id |-> Len(rows) + 1])
    /\ UNCHANGED <<members, joined, cursor, net, sync, hist, page, unpushed, bounds>>

\* persist_group_message inserts, member or not by now; on a conflict of
\* client_msg_id it takes the id of the existing row (rows never go, so that its
\* lookup may be part of this step).
PersistMessage(c) ==
    LET k == task[c].key
    IN  /\ task[c].pc = "persist"
        /\ IF RowsOf(k) # {}
           THEN /\ \E i \in RowsOf(k) : Goto(c, [pc |-> "ack", id |-> i])
                /\ UNCHANGED rows
           ELSE /\ rows' = Append(rows, k)
                /\ Goto(c, [pc |-> "ack", id |-> Len(rows) + 1])
        /\ UNCHANGED <<members, joined, cursor, net, sync, hist, page, unpushed, bounds>>

PersistFails(c) ==
    /\ UserOf[c] \in Faults
    /\ task[c].pc = "persist"
    /\ Goto(c, Idle)
    /\ Reply(c, <<[cmd |-> "error", key |-> task[c].key]>>)
    /\ UNCHANGED <<db, online, sock, up, sync, hist, page, unpushed, bounds>>

AckSender(c) ==
    LET i == task[c].id
    IN  /\ task[c].pc = "ack"
        /\ Reply(c, <<[cmd |-> "group_chat_ack", key |-> rows[i]]>>)
        /\ Goto(c, [pc |-> "members", id |-> i])
        /\ UNCHANGED <<db, online, sock, up, sync, hist, page, unpushed, bounds>>

PushNext(c, i, to) ==
    Goto(c, IF to = {} THEN Idle ELSE [pc |-> "push", id |-> i, to |-> to])

\* Mutant: members whose sync task is running are left to it.
SelectSynced(c) ==
    /\ task[c].pc = "members"
    /\ PushNext(c, task[c].id,
                {v \in members \ {UserOf[c]} :
                    online[v] = NoConn \/ sync[online[v]] = NoSync})
    /\ UNCHANGED <<db, net, sync, hist, page, unpushed, bounds>>

\* get_group_member_uids, after the row is stored.
SelectMembers(c) ==
    /\ task[c].pc = "members"
    /\ PushNext(c, task[c].id, members \ {UserOf[c]})
    /\ UNCHANGED <<db, net, sync, hist, page, unpushed, bounds>>

\* It fails: the message was acked and is pushed to nobody.
SelectMembersFails(c) ==
    /\ UserOf[c] \in Faults
    /\ task[c].pc = "members"
    /\ Goto(c, Idle)
    /\ unpushed' = unpushed \cup {task[c].id}
    /\ UNCHANGED <<db, net, sync, hist, page, bounds>>

Push(i) == [cmd |-> "group_push", key |-> rows[i]]

PushToMember(c, v) ==
    /\ task[c].pc = "push"
    /\ v \in task[c].to
    /\ SendToUser(v, Push(task[c].id))
    /\ PushNext(c, task[c].id, task[c].to \ {v})
    /\ UNCHANGED <<db, sock, up, sync, hist, page, unpushed, bounds>>

-----------------------------------------------------------------------------
(* handle_biz_msg: mark_group_read                                         *)

Moved(u, latest) == [cursor EXCEPT ![u] = IF @ < latest THEN latest ELSE @]

\* MAX(id); an empty group ends the call.
MarkLatest(c) ==
    /\ task[c].pc = "mark_group_read"
    /\ Goto(c, IF rows = <<>> THEN Idle ELSE [pc |-> "upsert", latest |-> Len(rows)])
    /\ UNCHANGED <<db, net, sync, hist, page, unpushed, bounds>>

\* upsert_group_read_cursor keeps the greater position.
MarkUpsert(c) ==
    /\ task[c].pc = "upsert"
    /\ cursor' = Moved(UserOf[c], task[c].latest)
    /\ Goto(c, Idle)
    /\ UNCHANGED <<rows, members, joined, net, sync, hist, page, unpushed, bounds>>

MarkFails(c) ==
    /\ UserOf[c] \in Faults
    /\ task[c].pc \in {"mark_group_read", "upsert"}
    /\ Goto(c, Idle)
    /\ UNCHANGED <<db, net, sync, hist, page, unpushed, bounds>>

-----------------------------------------------------------------------------
(* The unseen-sync task                                                    *)

Backlog(u) == {i \in Ids : cursor[u] < i}

\* ORDER BY id: the one enumeration of the set in which ids go up.
Ordered(S) == {f \in [1..Cardinality(S) -> S] : \A m, n \in DOMAIN f : m < n => f[m] < f[n]}

\* The places there may be for S, as far as they differ.
Room(S) == {SyncLimit} \cup SyncLimit..Cardinality(S)

\* Mutant: ORDER BY id DESC, the newest come first.
SyncSelectNewest(c) ==
    LET backlog == Backlog(UserOf[c])
    IN  /\ sync[c].pc = "select"
        /\ \E ids \in Ordered(backlog), room \in Room(backlog) :
              sync' = [sync EXCEPT ![c] =
                         [pc |-> "push",
                          ids |-> [n \in {m \in DOMAIN ids : m <= room} |->
                                      ids[Cardinality(backlog) + 1 - n]]]]
        /\ UNCHANGED <<db, net, task, hist, page, unpushed, bounds>>

\* get_unseen_group_messages: everything behind the cursor, one's own messages
\* included, whether or not the user is a member.
SyncSelect(c) ==
    LET backlog == Backlog(UserOf[c])
    IN  /\ sync[c].pc = "select"
        /\ \E ids \in Ordered(backlog), room \in Room(backlog) :
              sync' = [sync EXCEPT ![c] =
                         [pc |-> "push",
                          ids |-> [n \in {m \in DOMAIN ids : m <= room} |-> ids[n]]]]
        /\ UNCHANGED <<db, net, task, hist, page, unpushed, bounds>>

SyncFails(c) ==
    /\ UserOf[c] \in Faults
    /\ sync[c].pc = "select"
    /\ sync' = [sync EXCEPT ![c] = [pc |-> "failed"]]
    /\ UNCHANGED <<db, net, task, hist, page, unpushed, bounds>>

\* The loop of sends has no await.
SyncPush(c) ==
    /\ sync[c].pc = "push"
    /\ Reply(c, [n \in DOMAIN sync[c].ids |-> Push(sync[c].ids[n])])
    /\ sync' = [sync EXCEPT ![c] = NoSync]
    /\ UNCHANGED <<db, online, sock, up, task, hist, page, unpushed, bounds>>

-----------------------------------------------------------------------------
(* GET /api/group/history, by openGroupChat                                *)

\* A page that has been connected opens the group, also when it is not now.
OpenGroupChat(u) ==
    /\ u \in Readers \ viewing
    /\ \E c \in Conns : UserOf[c] = u /\ sock[c] # "new"
    /\ hist[u] = Idle
    /\ viewing' = viewing \cup {u}
    /\ HistGoto(u, [pc |-> "select"])
    /\ UNCHANGED <<db, net, task, sync, recv, sends, acked, unpushed, bounds>>

CloseGroupChat(u) ==
    /\ u \in viewing
    /\ viewing' = viewing \ {u}
    /\ UNCHANGED <<db, net, task, sync, hist, recv, sends, acked, unpushed, bounds>>

\* get_group_history selects the page first ...
HistSelect(u) ==
    /\ hist[u].pc = "select"
    /\ HistGoto(u, [pc |-> "latest", keys |-> {rows[i] : i \in Ids}])
    /\ UNCHANGED <<db, net, task, sync, page, unpushed, bounds>>

\* Mutant: the early return for a group without messages is missing.
HistMarkEmpty(u) ==
    /\ hist[u].pc = "latest"
    /\ HistGoto(u, [pc |-> "upsert", keys |-> hist[u].keys, latest |-> Len(rows)])
    /\ UNCHANGED <<db, net, task, sync, page, unpushed, bounds>>

\* ... then mark_group_read_and_get_delta marks up to the latest row there is.
HistLatest(u) ==
    /\ hist[u].pc = "latest"
    /\ HistGoto(u, IF rows = <<>> THEN [hist[u] EXCEPT !.pc = "respond"]
                   ELSE [pc |-> "upsert", keys |-> hist[u].keys, latest |-> Len(rows)])
    /\ UNCHANGED <<db, net, task, sync, page, unpushed, bounds>>

HistUpsert(u) ==
    /\ hist[u].pc = "upsert"
    /\ cursor' = Moved(u, hist[u].latest)
    /\ HistGoto(u, [pc |-> "respond", keys |-> hist[u].keys])
    /\ UNCHANGED <<rows, members, joined, net, task, sync, page, unpushed, bounds>>

\* A failing mark is logged and the page is returned all the same.
HistMarkFails(u) ==
    /\ u \in Faults
    /\ hist[u].pc \in {"latest", "upsert"}
    /\ HistGoto(u, [pc |-> "respond", keys |-> hist[u].keys])
    /\ UNCHANGED <<db, net, task, sync, page, unpushed, bounds>>

\* The select fails, or the client abandons the request.
HistAborts(u) ==
    /\ u \in Faults
    /\ hist[u].pc \in {"select", "latest", "upsert", "respond"}
    /\ HistGoto(u, Idle)
    /\ UNCHANGED <<db, net, task, sync, page, unpushed, bounds>>

\* loadGroupHistory shows the items.
HistRespond(u) ==
    /\ hist[u].pc = "respond"
    /\ recv' = [recv EXCEPT ![u] = @ \cup hist[u].keys]
    /\ HistGoto(u, Idle)
    /\ UNCHANGED <<db, net, task, sync, viewing, sends, acked, unpushed, bounds>>

-----------------------------------------------------------------------------
(* The pages                                                               *)

\* sendGroupMessage; a client that got no ack may send the client_msg_id again.
SendGroupMessage(c, k) ==
    /\ sock[c] = "open"
    /\ AuthorOf[k] = UserOf[c]
    /\ sends[k] < MaxSends
    /\ k \notin acked
    /\ sends' = [sends EXCEPT ![k] = @ + 1]
    /\ up' = [up EXCEPT ![c] = Append(@, [pc |-> "group_chat", key |-> k])]
    /\ UNCHANGED <<db, online, sock, chan, task, sync, hist, viewing, recv, acked,
                   unpushed, bounds>>

\* onmessage takes the next frame of connection c.
Took(c, cmd) ==
    /\ chan[c] # <<>>
    /\ Head(chan[c]).cmd = cmd
    /\ chan' = [chan EXCEPT ![c] = Tail(@)]
    /\ UNCHANGED <<db, online, sock, task, sync, hist, viewing, sends, unpushed, bounds>>

\* handleGroupPush: a page that shows the group answers another's message with
\* mark_group_read; otherwise, and also then, the badge is counted up.
HandleGroupPush(c) ==
    /\ Took(c, "group_push")
    /\ LET u == UserOf[c]
           k == Head(chan[c]).key
       IN  /\ recv' = [recv EXCEPT ![u] = @ \cup {k}]
           /\ up' = IF u \in viewing /\ AuthorOf[k] # u
                    THEN [up EXCEPT ![c] = Append(@, [pc |-> "mark_group_read"])] ELSE up
    /\ UNCHANGED acked

HandleGroupAck(c) ==
    /\ Took(c, "group_chat_ack")
    /\ acked' = acked \cup {Head(chan[c]).key}
    /\ UNCHANGED <<up, recv>>

\* onmessage has no handler for errors: the page goes on showing the message.
IgnoreError(c) == Took(c, "error") /\ UNCHANGED <<up, recv, acked>>

-----------------------------------------------------------------------------
TaskStep(c) ==
    \/ TakeFrame(c)
    \/ CheckMember(c) \/ CheckMemberFails(c)
    \/ PersistMessage(c) \/ PersistFails(c) \/ AckSender(c)
    \/ SelectMembers(c) \/ SelectMembersFails(c)
    \/ \E v \in Users : PushToMember(c, v)
    \/ MarkLatest(c) \/ MarkUpsert(c) \/ MarkFails(c)

SyncStep(c) == SyncSelect(c) \/ SyncFails(c) \/ SyncPush(c)

HistStep(u) ==
    \/ HistSelect(u) \/ HistLatest(u) \/ HistUpsert(u)
    \/ HistMarkFails(u) \/ HistAborts(u) \/ HistRespond(u)

ClientRead(c) == HandleGroupPush(c) \/ HandleGroupAck(c) \/ IgnoreError(c)

Next ==
    \/ \E c \in Conns : \/ Connect(c) \/ Disconnect(c)
                        \/ TaskStep(c) \/ SyncStep(c) \/ ClientRead(c)
                        \/ \E k \in Msgs : SendGroupMessage(c, k)
    \/ \E u \in Users : \/ LeaveGroup(u) \/ JoinGroup(u)
                        \/ OpenGroupChat(u) \/ CloseGroupChat(u) \/ HistStep(u)
    \/ Crash

Spec == Init /\ [][Next]_vars

\* The runtime runs every ready task, statements return or fail, an open page
\* reads its frames.  Users, disconnects and crashes are not fair.
Fairness ==
    /\ \A c \in Conns : /\ WF_vars(TaskStep(c))
                        /\ WF_vars(SyncStep(c))
                        /\ WF_vars(ClientRead(c))
    /\ \A u \in Users : WF_vars(HistStep(u))

FairSpec == Spec /\ Fairness

-----------------------------------------------------------------------------
(* Properties                                                              *)

Frames(c) == {chan[c][n] : n \in DOMAIN chan[c]}
PushedTo(c) == {f.key : f \in {g \in Frames(c) : g.cmd = "group_push"}}

Request == [pc : {"mark_group_read"}] \cup [pc : {"group_chat"}, key : Msgs]
Frame == [cmd : {"group_push", "group_chat_ack", "error"}, key : Msgs]

Working == Request \cup [pc : {"idle"}] \cup [pc : {"persist"}, key : Msgs]
           \cup [pc : {"ack", "members"}, id : Ids]
           \cup [pc : {"push"}, id : Ids, to : (SUBSET Users) \ {{}}]
           \cup [pc : {"upsert"}, latest : Ids]
Syncing == [pc : {"select", "done", "failed"}] \cup [pc : {"push"}, ids : Seq(Ids)]
Loading == [pc : {"idle", "select"}] \cup [pc : {"latest", "respond"}, keys : SUBSET Msgs]
           \cup [pc : {"upsert"}, keys : SUBSET Msgs, latest : Ids]

\* Types; ids and cursors name rows that exist, and a user is reached through a
\* connection of theirs.
TypeOK ==
    /\ rows \in Seq(Msgs)
    /\ members \subseteq Users
    /\ joined \in [Users -> 0..Len(rows)]
    /\ cursor \in [Users -> 0..Len(rows)]
    /\ online \in [Users -> Conns \cup {NoConn}]
    /\ \A u \in Users : online[u] # NoConn => UserOf[online[u]] = u
    /\ sock \in [Conns -> {"new", "open", "closed"}]
    /\ up \in [Conns -> Seq(Request)]
    /\ chan \in [Conns -> Seq(Frame)]
    /\ task \in [Conns -> Working]
    /\ sync \in [Conns -> Syncing]
    /\ hist \in [Users -> Loading]
    /\ viewing \subseteq Users
    /\ recv \in [Users -> SUBSET Msgs]
    /\ sends \in [Msgs -> 0..MaxSends]
    /\ acked \subseteq Msgs
    /\ unpushed \subseteq Ids
    /\ leaves \in 0..MaxLeaves /\ crashes \in 0..MaxCrashes

\* Message i is on its way to the connection c of a member: in its queue, or a
\* task has stored it and has not pushed it to the member yet.
OnItsWay(i, c) ==
    \/ rows[i] \in PushedTo(c)
    \/ \E d \in Conns :
          /\ task[d].pc \in {"ack", "members", "push"} /\ task[d].id = i
          /\ task[d].pc = "push" => UserOf[c] \in task[d].to

\* The messages others wrote since u joined.
ForMember(u) ==
    IF u \in members THEN {i \in Ids : joined[u] < i /\ From(i) # u} ELSE {}

\* A member who is connected and synced has, or is being sent, every message
\* stored since they joined that is not behind their read cursor: registering
\* before the backlog is selected and storing before the members are selected
\* leave no gap.  (Not those acked whose members could not be selected.)
NoLostGroupMessage ==
    \A c \in Conns : (sock[c] = "open" /\ sync[c] = NoSync) =>
        \A i \in ForMember(UserOf[c]) \ unpushed :
            rows[i] \in recv[UserOf[c]] \/ i <= cursor[UserOf[c]] \/ OnItsWay(i, c)

\* The backlog is cut, at SyncLimit messages or later, the oldest first: what a member
\* who is connected and synced missed of it comes after that many messages their page
\* was given, also when members come and go, the cursor moves and more messages follow.
GroupBacklogGivesOldest ==
    \A c \in Conns : LET given == recv[UserOf[c]] \cup PushedTo(c) IN
        (sock[c] = "open" /\ sync[c] = NoSync) =>
            \A i \in ForMember(UserOf[c]) \ unpushed :
                \/ rows[i] \in given \/ i <= cursor[UserOf[c]] \/ OnItsWay(i, c)
                \/ Cardinality({j \in Ids : j < i /\ rows[j] \in given}) >= SyncLimit

\* What an author's page has an ack for is stored, once, however often it was sent.
AckedIsStored ==
    \A k \in Msgs :
        /\ Cardinality(RowsOf(k)) <= 1
        /\ (k \in acked \/ \E c \in Conns : [cmd |-> "group_chat_ack", key |-> k] \in Frames(c))
               => RowsOf(k) # {}

\* A message of another member reaches a member who stays connected.
GroupMessageArrives ==
    \A k \in Msgs : \A c \in Conns :
        (\E i \in RowsOf(k) : i \in ForMember(UserOf[c]) \ unpushed) /\ sock[c] = "open" ~>
            \/ k \in recv[UserOf[c]] \/ sock[c] # "open"
            \/ UserOf[c] \notin members \/ sync[c].pc = "failed"
            \/ \E i \in RowsOf(k) : i <= cursor[UserOf[c]] \/ i \in unpushed
=============================================================================
