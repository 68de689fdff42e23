----------------------------- MODULE PrivateChat -----------------------------
(***************************************************************************)
(* One direction of a private conversation: a Sender writes to a           *)
(* Recipient.  handle_biz_msg (src/router.rs) runs as one task per         *)
(* connection, the unseen-sync task of a connection and the history        *)
(* request run beside it, and all of them share im_chat_messages and the   *)
(* map of connected users.  One action is one database statement or one    *)
(* run of code between two awaits.  The registry is the one OnlineUsers    *)
(* details: here a call of send_to_user is one step.                       *)
(***************************************************************************)
EXTENDS Integers, Sequences, FiniteSets

CONSTANTS Msgs,        \* messages the sender composes
          Keyed,       \* those that carry a client_msg_id
          SenderConns, RecipientConns,  \* successive connections of the two pages
          Sender, Recipient, NoConn,
          SyncLimit,   \* places of the 200 of get_unseen_messages that the messages
                       \* of other peers leave at least
          MaxSends,    \* bound: frames sent per message
          MaxCrashes,  \* bound: restarts of the server
          MaxReloads,  \* bound: histories loaded by the sender's page
          Faults       \* database statements may fail, HTTP requests be abandoned

Conns == SenderConns \cup RecipientConns
UserOf(c) == IF c \in SenderConns THEN Sender ELSE Recipient

ASSUME PrivateChatAssumption ==
    /\ Keyed \subseteq Msgs
    /\ SenderConns \cap RecipientConns = {} /\ NoConn \notin Conns
    /\ Sender # Recipient
    /\ {SyncLimit, MaxSends, MaxReloads, MaxCrashes} \subseteq Nat
    /\ Faults \in BOOLEAN

VARIABLES
    rows,      \* im_chat_messages: row id -> its message and its seen column
    online,    \* online_users: the connection send_to_user writes to
    sock,      \* a connection's socket: "new", "open", "closed"
    up,        \* frames of the client the main task has not read
    chan,      \* frames of the server the client has not read
    task,      \* the main task: idle, or where handle_biz_msg stands
    sync,      \* the unseen-sync task: "select", "push", "failed" or idle
    hist,      \* the recipient's GET /api/message/history
    shist,     \* the sender's, one at a time
    viewing,   \* the recipient has the sender's chat open
    recv,      \* messages the recipient's page was given
    awaited,   \* history: frames of a message sent on a connection, less the acks and
               \* error frames read there, while the connection is up
    sends,     \* frames sent so far per message
    known,     \* msgById: row ids the sender's page learnt from an ack or a history
    told,      \* row ids of the delivery updates the sender's page received
    saved,     \* row ids the sender's page keeps as read in its localStorage
    read,      \* row ids whose status on the sender's page is read: saved, or seen in
               \* the history it drew last
    reloads,
    crashes

page == <<viewing, recv, awaited, sends, known, told, saved, read>>
reload == <<shist, reloads>>
hists == <<hist, reload>>
vars == <<rows, online, sock, up, chan, task, sync, hists, page, crashes>>

Ids == DOMAIN rows
Unseen == {i \in Ids : ~rows[i].seen}
RowsOf(k) == {i \in Ids : rows[i].key = k}
Idle == [pc |-> "idle"]

Init ==
    /\ rows = <<>>
    /\ online = [u \in {Sender, Recipient} |-> NoConn]
    /\ sock = [c \in Conns |-> "new"]
    /\ up = [c \in Conns |-> <<>>]
    /\ chan = [c \in Conns |-> <<>>]
    /\ task = [c \in Conns |-> Idle]
    /\ sync = [c \in Conns |-> Idle]
    /\ hist = Idle /\ shist = Idle
    /\ viewing = FALSE
    /\ recv = {} /\ known = {} /\ told = {} /\ saved = {} /\ read = {}
    /\ awaited = [c \in Conns |-> [k \in Msgs |-> 0]]
    /\ sends = [k \in Msgs |-> 0]
    /\ reloads = 0 /\ crashes = 0

\* tx.send on a connection: what is queued for a closed socket is lost.
Reply(c, fs) ==
    chan' = IF sock[c] = "open" THEN [chan EXCEPT ![c] = @ \o fs] ELSE chan

\* AppState::send_to_user: the frame reaches the registered connection, or is
\* lost with a connection that is down, which may or may not be noticed.
SendToUser(u, f) ==
    LET c == online[u]
    IN  IF c # NoConn /\ sock[c] = "open"
        THEN Reply(c, <<f>>) /\ UNCHANGED online
        ELSE /\ UNCHANGED chan
             /\ \/ UNCHANGED online
                \/ online' = [online EXCEPT ![u] = NoConn]

-----------------------------------------------------------------------------
(* Connections                                                             *)

\* connectWS and handle_im_websocket: the page has closed its previous socket;
\* the server registers the new one and spawns its tasks.  Nothing is addressed
\* to the sender, so its sync task has nothing to do.
Connect(c) ==
    LET u == UserOf(c)
    IN  /\ sock[c] = "new"
        /\ \A d \in Conns : UserOf(d) = u => sock[d] # "open"
        /\ sock' = [sock EXCEPT ![c] = "open"]
        /\ online' = [online EXCEPT ![u] = c]
        /\ sync' = [sync EXCEPT ![c] = IF u = Recipient THEN [pc |-> "select"] ELSE Idle]
        /\ UNCHANGED <<rows, up, chan, task, hists, page, crashes>>

\* The page or the network goes: frames on their way to the client are lost,
\* and so may be the last ones it sent; the server's tasks go on.
Disconnect(c) ==
    /\ sock[c] = "open"
    /\ sock' = [sock EXCEPT ![c] = "closed"]
    /\ chan' = [chan EXCEPT ![c] = <<>>]
    /\ \E n \in 0..Len(up[c]) : up' = [up EXCEPT ![c] = SubSeq(@, 1, n)]
    /\ awaited' = [awaited EXCEPT ![c] = [k \in Msgs |-> 0]]
    /\ UNCHANGED <<rows, online, task, sync, hists, viewing, recv, sends, known, told, saved,
                   read, crashes>>

\* The server restarts: only the database survives.
Crash ==
    /\ crashes < MaxCrashes
    /\ crashes' = crashes + 1
    /\ online' = [u \in {Sender, Recipient} |-> NoConn]
    /\ sock' = [c \in Conns |-> IF sock[c] = "open" THEN "closed" ELSE sock[c]]
    /\ up' = [c \in Conns |-> <<>>]
    /\ chan' = [c \in Conns |-> <<>>]
    /\ task' = [c \in Conns |-> Idle]
    /\ sync' = [c \in Conns |-> Idle]
    /\ hist' = Idle /\ shist' = Idle
    /\ awaited' = [c \in Conns |-> [k \in Msgs |-> 0]]
    /\ UNCHANGED <<rows, viewing, recv, sends, known, told, saved, read, reloads>>

-----------------------------------------------------------------------------
(* handle_biz_msg: private_chat                                            *)

\* The main task takes the next frame of its client.
TakeFrame(c) ==
    /\ task[c] = Idle
    /\ up[c] # <<>>
    /\ up' = [up EXCEPT ![c] = Tail(@)]
    /\ task' = [task EXCEPT ![c] = Head(up[c])]
    /\ UNCHANGED <<rows, online, sock, chan, sync, hists, page, crashes>>

Goto(c, t) == task' = [task EXCEPT ![c] = t]

\* Mutant: a second insert of a client_msg_id is not a conflict.
InsertNoConflict(c) ==
    /\ task[c].pc = "private_chat"
    /\ rows' = Append(rows, [key |-> task[c].key, seen |-> FALSE])
    /\ Goto(c, [pc |-> "push", key |-> task[c].key, id |-> Len(rows) + 1])
    /\ UNCHANGED <<online, sock, up, chan, sync, hists, page, crashes>>

\* Mutant: on a conflict the ack names the id the failed insert drew.
InsertNoLookup(c) ==
    LET k == task[c].key
    IN  /\ task[c].pc = "private_chat"
        /\ rows' = IF k \in Keyed /\ RowsOf(k) # {} THEN rows
                   ELSE Append(rows, [key |-> k, seen |-> FALSE])
        /\ Goto(c, [pc |-> "push", key |-> k, id |-> Len(rows) + 1])
        /\ UNCHANGED <<online, sock, up, chan, sync, hists, page, crashes>>

\* persist_chat_message inserts; on a conflict of client_msg_id it goes on to
\* look the existing row up.
PersistInsert(c) ==
    LET k == task[c].key
    IN  /\ task[c].pc = "private_chat"
        /\ IF k \in Keyed /\ RowsOf(k) # {}
           THEN Goto(c, [pc |-> "lookup", key |-> k]) /\ UNCHANGED rows
           ELSE /\ rows' = Append(rows, [key |-> k, seen |-> FALSE])
                /\ Goto(c, [pc |-> "push", key |-> k, id |-> Len(rows) + 1])
        /\ UNCHANGED <<online, sock, up, chan, sync, hists, page, crashes>>

\* Mutant: a message that is stored already is not acked again.
LookupEnds(c) ==
    /\ task[c].pc = "lookup"
    /\ Goto(c, Idle)
    /\ UNCHANGED <<rows, online, sock, up, chan, sync, hists, page, crashes>>

\* Mutant: the lookup takes the newest row instead of the conflicting one.
LookupNewest(c) ==
    /\ task[c].pc = "lookup"
    /\ Goto(c, [pc |-> "push", key |-> task[c].key, id |-> Len(rows)])
    /\ UNCHANGED <<rows, online, sock, up, chan, sync, hists, page, crashes>>

PersistLookup(c) ==
    /\ task[c].pc = "lookup"
    /\ \E i \in RowsOf(task[c].key) :
          Goto(c, [pc |-> "push", key |-> task[c].key, id |-> i])
    /\ UNCHANGED <<rows, online, sock, up, chan, sync, hists, page, crashes>>

\* Mutant: the failure is logged and nothing is sent back.
PersistFailsSilently(c) ==
    /\ Faults
    /\ task[c].pc \in {"private_chat", "lookup"}
    /\ Goto(c, Idle)
    /\ UNCHANGED <<rows, online, sock, up, chan, sync, hists, page, crashes>>

\* Either statement fails: the client gets an error frame.
PersistFails(c) ==
    /\ Faults
    /\ task[c].pc \in {"private_chat", "lookup"}
    /\ Goto(c, Idle)
    /\ Reply(c, <<[cmd |-> "error", key |-> task[c].key]>>)
    /\ UNCHANGED <<rows, online, sock, up, sync, hists, page, crashes>>

\* Mutant: no push while the recipient's sync task will deliver the backlog.
PushUnlessSyncing(c) ==
    /\ task[c].pc = "push"
    /\ IF online[Recipient] # NoConn /\ sync[online[Recipient]] # Idle
       THEN UNCHANGED <<online, chan>>
       ELSE SendToUser(Recipient, [cmd |-> "private_push", key |-> task[c].key])
    /\ Goto(c, [task[c] EXCEPT !.pc = "ack"])
    /\ UNCHANGED <<rows, sock, up, sync, hists, page, crashes>>

\* The recipient is pushed first ...
PushToRecipient(c) ==
    /\ task[c].pc = "push"
    /\ SendToUser(Recipient, [cmd |-> "private_push", key |-> task[c].key])
    /\ Goto(c, [task[c] EXCEPT !.pc = "ack"])
    /\ UNCHANGED <<rows, sock, up, sync, hists, page, crashes>>

\* ... then the sender gets the ack with the row id.
AckSender(c) ==
    /\ task[c].pc = "ack"
    /\ Reply(c, <<[cmd |-> "private_chat_ack", key |-> task[c].key, id |-> task[c].id]>>)
    /\ Goto(c, Idle)
    /\ UNCHANGED <<rows, online, sock, up, sync, hists, page, crashes>>

-----------------------------------------------------------------------------
(* handle_biz_msg: mark_seen                                               *)

SeenAll(ids) == [i \in Ids |-> [rows[i] EXCEPT !.seen = @ \/ i \in ids]]

\* Mutant: the UPDATE lost its "seen = FALSE", so it returns every row.
MarkSeenAgain(c) ==
    /\ task[c].pc = "mark_seen"
    /\ rows' = SeenAll(Unseen)
    /\ Goto(c, IF Ids = {} THEN Idle ELSE [pc |-> "report", ids |-> Ids])
    /\ UNCHANGED <<online, sock, up, chan, sync, hists, page, crashes>>

\* mark_seen_from_peer: one UPDATE ... RETURNING id.
MarkSeen(c) ==
    /\ task[c].pc = "mark_seen"
    /\ rows' = SeenAll(Unseen)
    /\ Goto(c, IF Unseen = {} THEN Idle ELSE [pc |-> "report", ids |-> Unseen])
    /\ UNCHANGED <<online, sock, up, chan, sync, hists, page, crashes>>

MarkSeenFails(c) ==
    /\ Faults
    /\ task[c].pc = "mark_seen"
    /\ Goto(c, Idle)
    /\ UNCHANGED <<rows, online, sock, up, chan, sync, hists, page, crashes>>

ReportSeen(c) ==
    /\ task[c].pc = "report"
    /\ SendToUser(Sender, [cmd |-> "delivery_update", ids |-> task[c].ids])
    /\ Goto(c, Idle)
    /\ UNCHANGED <<rows, sock, up, sync, hists, page, crashes>>

-----------------------------------------------------------------------------
(* The unseen-sync task                                                    *)

\* ORDER BY id: the one enumeration of the set in which ids go up.
Ordered(S) == {f \in [1..Cardinality(S) -> S] : \A m, n \in DOMAIN f : m < n => f[m] < f[n]}

\* The places there may be for S, as far as they differ.
Room(S) == {SyncLimit} \cup SyncLimit..Cardinality(S)

\* Mutant: ORDER BY id DESC, the newest come first.
SyncSelectNewest(c) ==
    /\ sync[c].pc = "select"
    /\ \E ids \in Ordered(Unseen), room \in Room(Unseen) :
          sync' = [sync EXCEPT ![c] =
                     [pc |-> "push",
                      batch |-> [n \in {m \in DOMAIN ids : m <= room} |->
                                    rows[ids[Cardinality(Unseen) + 1 - n]].key]]]
    /\ UNCHANGED <<rows, online, sock, up, chan, task, hists, page, crashes>>

SyncSelect(c) ==
    /\ sync[c].pc = "select"
    /\ \E ids \in Ordered(Unseen), room \in Room(Unseen) :
          sync' = [sync EXCEPT ![c] =
                     [pc |-> "push",
                      batch |-> [n \in {m \in DOMAIN ids : m <= room} |-> rows[ids[n]].key]]]
    /\ UNCHANGED <<rows, online, sock, up, chan, task, hists, page, crashes>>

SyncFails(c) ==
    /\ Faults
    /\ sync[c].pc = "select"
    /\ sync' = [sync EXCEPT ![c] = [pc |-> "failed"]]
    /\ UNCHANGED <<rows, online, sock, up, chan, task, hists, page, crashes>>

\* After the lookup of the senders' names, the loop of sends has no await.
SyncPush(c) ==
    /\ sync[c].pc = "push"
    /\ Reply(c, [i \in DOMAIN sync[c].batch |->
                    [cmd |-> "private_push", key |-> sync[c].batch[i]]])
    /\ sync' = [sync EXCEPT ![c] = Idle]
    /\ UNCHANGED <<rows, online, sock, up, task, hists, page, crashes>>

-----------------------------------------------------------------------------
(* GET /api/message/history, by the recipient's openChat                   *)

OpenChat ==
    /\ ~viewing
    /\ hist = Idle
    /\ viewing' = TRUE
    /\ hist' = [pc |-> "update"]
    /\ UNCHANGED <<rows, online, sock, up, chan, task, sync, reload, recv, awaited, sends,
                   known, told, saved, read, crashes>>

CloseChat ==
    /\ viewing
    /\ viewing' = FALSE
    /\ UNCHANGED <<rows, online, sock, up, chan, task, sync, hists, recv, awaited,
                   sends, known, told, saved, read, crashes>>

\* Mutant: the ids are read first and kept when the update fails.
HistUpdateSplit ==
    /\ hist.pc = "update"
    /\ \/ rows' = SeenAll(Unseen)
       \/ Faults /\ UNCHANGED rows
    /\ hist' = [pc |-> "select", ids |-> Unseen]
    /\ UNCHANGED <<online, sock, up, chan, task, sync, reload, page, crashes>>

\* get_chat_history marks; an error of this statement counts as "none marked".
HistUpdate ==
    /\ hist.pc = "update"
    /\ \/ rows' = SeenAll(Unseen) /\ hist' = [pc |-> "select", ids |-> Unseen]
       \/ Faults /\ UNCHANGED rows /\ hist' = [pc |-> "select", ids |-> {}]
    /\ UNCHANGED <<online, sock, up, chan, task, sync, reload, page, crashes>>

\* Mutant: every row of the page is reported, also those stored since the update.
HistSelectReportsPage ==
    /\ hist.pc = "select"
    /\ IF Ids = {} THEN UNCHANGED <<online, chan>>
       ELSE SendToUser(Sender, [cmd |-> "delivery_update", ids |-> Ids])
    /\ hist' = [pc |-> "respond", keys |-> {rows[i].key : i \in Ids}]
    /\ UNCHANGED <<rows, sock, up, task, sync, reload, page, crashes>>

\* The page is selected, the peer is told of the marked ids, the items leave.
HistSelect ==
    /\ hist.pc = "select"
    /\ IF hist.ids = {} THEN UNCHANGED <<online, chan>>
       ELSE SendToUser(Sender, [cmd |-> "delivery_update", ids |-> hist.ids])
    /\ hist' = [pc |-> "respond", keys |-> {rows[i].key : i \in Ids}]
    /\ UNCHANGED <<rows, sock, up, task, sync, reload, page, crashes>>

\* The select fails, or the client abandons the request and the handler is
\* dropped at an await: the marked ids are told to nobody.
HistAborts ==
    /\ Faults
    /\ hist.pc \in {"update", "select"}
    /\ hist' = Idle
    /\ UNCHANGED <<rows, online, sock, up, chan, task, sync, reload, page, crashes>>

\* loadHistory shows the items.
HistRespond ==
    /\ hist.pc = "respond"
    /\ recv' = recv \cup hist.keys
    /\ hist' = Idle
    /\ UNCHANGED <<rows, online, sock, up, chan, task, sync, reload, viewing, awaited,
                   sends, known, told, saved, read, crashes>>

-----------------------------------------------------------------------------
(* The same request by the sender's openChat: it marks the rows of the other *)
(* direction, and shows these with their seen column.                        *)

\* Until the page is selected the request changes nothing of this direction.
SenderHistSelect ==
    /\ reloads < MaxReloads
    /\ reloads' = reloads + 1
    /\ shist = Idle
    /\ shist' = [pc |-> "respond", ids |-> Ids, seen |-> Ids \ Unseen]
    /\ UNCHANGED <<rows, online, sock, up, chan, task, sync, hist, page, crashes>>

\* The page gave the request up, or the answer is lost.
SenderHistAborts ==
    /\ Faults
    /\ shist.pc = "respond"
    /\ shist' = Idle
    /\ UNCHANGED <<rows, online, sock, up, chan, task, sync, hist, reloads, page, crashes>>

\* Mutant: what a delivery_update has saved is not looked up.
SenderHistRespondUnsaved ==
    /\ shist.pc = "respond"
    /\ known' = known \cup shist.ids
    /\ read' = (read \ shist.ids) \cup shist.seen
    /\ shist' = Idle
    /\ UNCHANGED <<rows, online, sock, up, chan, task, sync, hist, reloads, viewing, recv,
                   awaited, sends, told, saved, crashes>>

\* appendMsg draws every item anew: read if its status was saved, or it is seen.
SenderHistRespond ==
    /\ shist.pc = "respond"
    /\ known' = known \cup shist.ids
    /\ read' = (read \ shist.ids) \cup (saved \cap shist.ids) \cup shist.seen
    /\ shist' = Idle
    /\ UNCHANGED <<rows, online, sock, up, chan, task, sync, hist, reloads, viewing, recv,
                   awaited, sends, told, saved, crashes>>

-----------------------------------------------------------------------------
(* The two pages                                                           *)

\* sendMessage, and the second send of a client that got no answer: pages of
\* chat.html send once, other clients use client_msg_id to send again.
SendMessage(c, k) ==
    /\ c \in SenderConns
    /\ sock[c] = "open"
    /\ sends[k] < MaxSends
    /\ k \notin {rows[i].key : i \in known}
    /\ sends' = [sends EXCEPT ![k] = @ + 1]
    /\ awaited' = [awaited EXCEPT ![c][k] = @ + 1]
    /\ up' = [up EXCEPT ![c] = Append(@, [pc |-> "private_chat", key |-> k])]
    /\ UNCHANGED <<rows, online, sock, chan, task, sync, hists, viewing, recv, known,
                   told, saved, read, crashes>>

\* onmessage takes the next frame f of connection c.
Took(c, cmd) ==
    /\ chan[c] # <<>>
    /\ Head(chan[c]).cmd = cmd
    /\ chan' = [chan EXCEPT ![c] = Tail(@)]
    /\ UNCHANGED <<rows, online, sock, task, sync, hists, viewing, sends, crashes>>

\* handlePush: a page that shows the chat answers with mark_seen.
HandlePush(c) ==
    /\ Took(c, "private_push")
    /\ recv' = recv \cup {Head(chan[c]).key}
    /\ up' = IF viewing THEN [up EXCEPT ![c] = Append(@, [pc |-> "mark_seen"])] ELSE up
    /\ UNCHANGED <<awaited, known, told, saved, read>>

HandleAck(c) ==
    /\ Took(c, "private_chat_ack")
    /\ known' = known \cup {Head(chan[c]).id}
    /\ awaited' = [awaited EXCEPT ![c][Head(chan[c]).key] = @ - 1]
    /\ UNCHANGED <<up, recv, told, saved, read>>

\* handleDeliveryUpdate skips ids that are not in msgById, and saves the others.
HandleDeliveryUpdate(c) ==
    /\ Took(c, "delivery_update")
    /\ told' = told \cup Head(chan[c]).ids
    /\ read' = read \cup (Head(chan[c]).ids \cap known)
    /\ saved' = saved \cup (Head(chan[c]).ids \cap known)
    /\ UNCHANGED <<up, recv, awaited, known>>

\* onmessage has no branch for "error": the page drops the frame and goes on to show
\* the message as being sent.
IgnoreError(c) ==
    /\ Took(c, "error")
    /\ awaited' = [awaited EXCEPT ![c][Head(chan[c]).key] = @ - 1]
    /\ UNCHANGED <<up, recv, known, told, saved, read>>

-----------------------------------------------------------------------------
TaskStep(c) ==
    \/ TakeFrame(c)
    \/ PersistInsert(c) \/ PersistLookup(c) \/ PersistFails(c)
    \/ PushToRecipient(c) \/ AckSender(c)
    \/ MarkSeen(c) \/ MarkSeenFails(c) \/ ReportSeen(c)

SyncStep(c) == SyncSelect(c) \/ SyncFails(c) \/ SyncPush(c)

HistStep == HistUpdate \/ HistSelect \/ HistAborts \/ HistRespond

SenderHistStep == SenderHistAborts \/ SenderHistRespond

ClientRead(c) ==
    HandlePush(c) \/ HandleAck(c) \/ HandleDeliveryUpdate(c) \/ IgnoreError(c)

Next ==
    \/ \E c \in Conns : \/ Connect(c) \/ Disconnect(c)
                        \/ TaskStep(c) \/ SyncStep(c) \/ ClientRead(c)
                        \/ \E k \in Msgs : SendMessage(c, k)
    \/ OpenChat \/ CloseChat \/ HistStep
    \/ SenderHistSelect \/ SenderHistStep
    \/ Crash

Spec == Init /\ [][Next]_vars

\* The runtime runs every ready task, statements return or fail, an open page
\* reads its frames.  Users, disconnects and crashes are not fair.
Fairness ==
    /\ \A c \in Conns : /\ WF_vars(TaskStep(c))
                        /\ WF_vars(SyncStep(c))
                        /\ WF_vars(ClientRead(c))
    /\ WF_vars(HistStep) /\ WF_vars(SenderHistStep)

FairSpec == Spec /\ Fairness

-----------------------------------------------------------------------------
(* Properties                                                              *)

Frames(c) == {chan[c][n] : n \in DOMAIN chan[c]}
PushedTo(c) == {f.key : f \in {g \in Frames(c) : g.cmd = "private_push"}}
BeingPushed == {task[c].key : c \in {d \in Conns : task[d].pc = "push"}}

\* What the recipient's page on c has, or is being sent.
Given(c) == recv \cup PushedTo(c) \cup BeingPushed

Request == [pc : {"mark_seen"}] \cup [pc : {"private_chat"}, key : Msgs]
Frame == [cmd : {"private_push", "error"}, key : Msgs]
         \cup [cmd : {"private_chat_ack"}, key : Msgs, id : Ids]
         \cup [cmd : {"delivery_update"}, ids : SUBSET Ids]

Working == Request \cup [pc : {"idle"}] \cup [pc : {"lookup"}, key : Msgs]
           \cup [pc : {"push", "ack"}, key : Msgs, id : Ids]
           \cup [pc : {"report"}, ids : SUBSET Ids]
Syncing == [pc : {"idle", "select", "failed"}] \cup [pc : {"push"}, batch : Seq(Msgs)]
Loading == [pc : {"idle", "update"}] \cup [pc : {"select"}, ids : SUBSET Ids]
           \cup [pc : {"respond"}, keys : SUBSET Msgs]
Reloading == [pc : {"idle"}] \cup [pc : {"respond"}, ids : SUBSET Ids, seen : SUBSET Ids]

\* Types; ids travel only for rows that exist, and a user is reached through a
\* connection of theirs.
TypeOK ==
    /\ rows \in Seq([key : Msgs, seen : BOOLEAN])
    /\ online \in [{Sender, Recipient} -> Conns \cup {NoConn}]
    /\ \A u \in {Sender, Recipient} : online[u] # NoConn => UserOf(online[u]) = u
    /\ sock \in [Conns -> {"new", "open", "closed"}]
    /\ up \in [Conns -> Seq(Request)]
    /\ chan \in [Conns -> Seq(Frame)]
    /\ task \in [Conns -> Working]
    /\ sync \in [Conns -> Syncing]
    /\ hist \in Loading /\ shist \in Reloading
    /\ viewing \in BOOLEAN
    /\ recv \subseteq Msgs
    /\ awaited \in [Conns -> [Msgs -> Int]]
    /\ sends \in [Msgs -> 0..MaxSends]
    /\ known \cup told \cup read \subseteq Ids /\ saved \subseteq told
    /\ reloads \in 0..MaxReloads /\ crashes \in 0..MaxCrashes

\* However often a client_msg_id is sent, over however many connections and
\* restarts, it names one row ...
OneRowPerKey == \A i, j \in Ids : rows[i].key = rows[j].key /\ rows[i].key \in Keyed => i = j

\* ... and every ack, sent or about to be, names a row of its own message.
AckNamesTheMessage ==
    \A c \in Conns :
        /\ task[c].pc \in {"push", "ack"} => rows[task[c].id].key = task[c].key
        /\ \A f \in Frames(c) : f.cmd = "private_chat_ack" => rows[f.id].key = f.key

\* Registering the connection before selecting the backlog, and inserting the
\* row before looking the recipient up, leave no gap: a recipient who is
\* connected and synced has, or is being sent, every message not marked seen.
NoLostMessage ==
    \A c \in RecipientConns : (sock[c] = "open" /\ sync[c] = Idle) =>
        \A i \in Unseen : rows[i].key \in Given(c)

\* The backlog is cut, at SyncLimit messages or later, the oldest first: whatever a recipient
\* who is connected and synced was not given comes after that many unseen messages
\* that they were given, also when the backlog is cut and more messages follow.
BacklogGivesOldest ==
    \A c \in RecipientConns : (sock[c] = "open" /\ sync[c] = Idle) =>
        \A i \in Unseen :
            \/ rows[i].key \in Given(c)
            \/ Cardinality({j \in Unseen : j < i /\ rows[j].key \in Given(c)}) >= SyncLimit

\* The reports of row i: those a task or the history request is about to send, those
\* in frames, and what the sender's page was told.
TaskReports(i) == {<<"task", c>> : c \in {d \in Conns : task[d].pc = "report" /\ i \in task[d].ids}}
HistReports(i) == IF hist.pc = "select" /\ i \in hist.ids THEN {<<"history">>} ELSE {}
FrameReports(i) ==
    UNION {{<<"frame", c, n>> : n \in {m \in DOMAIN chan[c] :
              chan[c][m].cmd = "delivery_update" /\ i \in chan[c][m].ids}} : c \in Conns}
PageReports(i) == IF i \in told THEN {<<"page">>} ELSE {}

Reports(i) == TaskReports(i) \cup HistReports(i) \cup FrameReports(i) \cup PageReports(i)

\* mark_seen and the history request race to mark the same rows; a row is
\* reported to its sender by at most one of them.
SeenReportedOnce == \A i \in Ids : \A r, s \in Reports(i) : r = s

\* What the sender is told, and shows as read, is marked in the database, also
\* when statements fail between the two.
ReadReceiptHonest == \A i \in Ids : Reports(i) # {} \/ i \in read => rows[i].seen

\* What the sender's page shows as read it never shows as merely sent again: also
\* not when the answer of a history request that was selected before the rows
\* were marked arrives after their delivery_update.
ReadStays == [][read \subseteq read']_vars

\* The server answers every private_chat frame exactly once, by an ack or by an error
\* frame: as many answers are still to be read on a connection that is up as frames are
\* on their way, being handled or answered, also when a client_msg_id is sent again and
\* is stored already, when the client has been answered before on another connection,
\* and when a statement fails.  What the page makes of an answer is left open: it
\* ignores error frames.
Count(s, T) == Cardinality({n \in DOMAIN s : s[n] \in T})

Asking(k) == {[pc |-> "private_chat", key |-> k]}
Answers(k) == [cmd : {"error"}, key : {k}]
              \cup [cmd : {"private_chat_ack"}, key : {k}, id : Nat]
AtWork(c, k) ==
    IF task[c].pc \in {"private_chat", "lookup", "push", "ack"} /\ task[c].key = k THEN 1 ELSE 0

EveryFrameAnswered ==
    \A c \in Conns : sock[c] = "open" =>
        \A k \in Msgs :
            awaited[c][k] = Count(up[c], Asking(k)) + AtWork(c, k) + Count(chan[c], Answers(k))

\* A stored message reaches a recipient who stays connected.
MessageArrives ==
    \A k \in Msgs : \A c \in RecipientConns :
        (RowsOf(k) # {} /\ sock[c] = "open") ~>
            (k \in recv \/ sock[c] # "open" \/ RowsOf(k) \cap Unseen = {})

InFlight(k) ==
    \/ k \in BeingPushed
    \/ \E c \in RecipientConns : k \in PushedTo(c)
    \/ \E c \in RecipientConns : sock[c] = "open" /\ sync[c].pc \in {"select", "push"}
    \/ hist # Idle

\* init.sql: seen means that the "recipient opened the chat and saw this
\* message"; it was given to the page, or is on its way to it.
SeenWasReceived ==
    \A i \in Ids : rows[i].seen => rows[i].key \in recv \/ InFlight(rows[i].key)

\* doc/api.md on mark_seen: handleDeliveryUpdate "updates their status to Read".
ToldMeansRead == told \cap known \subseteq read

\* What the two pages may rely on, whatever connections, tasks, frames, failures and
\* restarts there are in between: the one-step operations of Conversation.
Chat == INSTANCE Conversation

ImplementsConversation == Chat!Spec
=============================================================================
