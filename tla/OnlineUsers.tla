----------------------------- MODULE OnlineUsers -----------------------------
(***************************************************************************)
(* The registry of connected users (AppState.online_users, src/state.rs)   *)
(* and the tasks handle_im_websocket (src/router.rs) runs for every        *)
(* WebSocket: the main task reads client frames, the sync task pushes the  *)
(* backlog, the forwarding task writes an unbounded mpsc queue to the      *)
(* socket.  A connection c stands for one accepted upgrade of UserOf[c].   *)
(* Every access to the map holds the mutex; the alive flag and the queue   *)
(* are touched without it, so send_to_user is two steps: the check of the  *)
(* alive flag, then the send on the queue.                                 *)
(***************************************************************************)
EXTENDS Naturals, Sequences, FiniteSets

CONSTANTS Users,     \* user ids
          Conns,     \* connections, each accepted at most once
          UserOf,    \* the user_id a connection was authenticated for
          Frames,    \* payload frames (pushes, acks, updates)
          Kicked,    \* the {"cmd":"kicked"} frame
          NoConn,    \* "no entry in online_users"
          MaxQueue   \* bound: payload frames are not queued beyond this length

ASSUME OnlineUsersAssumption ==
    /\ UserOf \in [Conns -> Users]
    /\ NoConn \notin Conns
    /\ Kicked \notin Frames
    /\ MaxQueue \in Nat \ {0}

VARIABLES online_users,  \* uid -> connection whose tx and alive flag the map holds
          mutex,         \* {} or {the send_to_user call holding the map's mutex}
          alive,         \* the Arc<AtomicBool> of each connection
          queue,         \* the mpsc channel of each connection
          main,          \* main task: "new", "running", "exited"
          sync,          \* unseen-sync task: "new", "running", "done"
          fwd,           \* forwarding task: "new", "running", "exiting", "exited"
          sock,          \* client end of the WebSocket: "new", "open", "closed"
          got,           \* frames the client of a connection has read
          loggedOut      \* connections unregistered by an explicit logout

tasks == <<main, sync, fwd>>
vars == <<online_users, mutex, alive, queue, tasks, sock, got, loggedOut>>

AnyFrame == Frames \cup {Kicked}
SendCall == [uid : Users, conn : Conns, msg : AnyFrame]
Elems(s) == {s[i] : i \in DOMAIN s}

Init ==
    /\ online_users = [u \in Users |-> NoConn]
    /\ mutex = {}
    /\ alive = [c \in Conns |-> FALSE]
    /\ queue = [c \in Conns |-> <<>>]
    /\ main = [c \in Conns |-> "new"]
    /\ sync = [c \in Conns |-> "new"]
    /\ fwd = [c \in Conns |-> "new"]
    /\ sock = [c \in Conns |-> "new"]
    /\ got = [c \in Conns |-> {}]
    /\ loggedOut = {}

\* UnboundedSender::send: it fails, leaving the queue alone, once rx is dropped.
TxSend(c, f) ==
    queue' = IF fwd[c] = "exited" THEN queue
             ELSE [queue EXCEPT ![c] = Append(@, f)]

Room(c) == Len(queue[c]) < MaxQueue

-----------------------------------------------------------------------------
(* AppState                                                                *)

\* handle_im_websocket creates the channel and the alive flag of a connection,
\* registers them and spawns the sync and forwarding tasks.
StartTasks(c) ==
    /\ main[c] = "new"
    /\ alive' = [alive EXCEPT ![c] = TRUE]
    /\ main' = [main EXCEPT ![c] = "running"]
    /\ sync' = [sync EXCEPT ![c] = "running"]
    /\ fwd' = [fwd EXCEPT ![c] = "running"]
    /\ sock' = [sock EXCEPT ![c] = "open"]
    /\ UNCHANGED <<mutex, got, loggedOut>>

\* Mutant: the map is changed without taking its mutex.
InsertUnlocked(c) ==
    LET old == online_users[UserOf[c]]
    IN  /\ IF old = NoConn THEN UNCHANGED queue ELSE TxSend(old, Kicked)
        /\ online_users' = [online_users EXCEPT ![UserOf[c]] = c]
        /\ StartTasks(c)

\* Mutant: the replaced connection is not told.
InsertSilently(c) ==
    /\ mutex = {}
    /\ online_users' = [online_users EXCEPT ![UserOf[c]] = c]
    /\ StartTasks(c)
    /\ UNCHANGED queue

\* insert_online_user replaces the user's entry under the mutex and tells the
\* replaced connection that it was kicked.
InsertOnlineUser(c) ==
    LET uid == UserOf[c]
        old == online_users[uid]
    IN  /\ mutex = {}
        /\ IF old = NoConn THEN UNCHANGED queue ELSE TxSend(old, Kicked)
        /\ online_users' = [online_users EXCEPT ![uid] = c]
        /\ StartTasks(c)

\* Mutant: the mutex does not exclude a second call of send_to_user.
SendToUserCheckUnlocked(uid, f) ==
    LET c == online_users[uid]
    IN  /\ c # NoConn
        /\ alive[c]
        /\ Room(c)
        /\ mutex' = mutex \cup {[uid |-> uid, conn |-> c, msg |-> f]}
        /\ UNCHANGED <<online_users, alive, queue, tasks, sock, got, loggedOut>>

\* send_to_user takes the mutex, finds an entry and reads alive = true.
SendToUserCheck(uid, f) ==
    LET c == online_users[uid]
    IN  /\ mutex = {}
        /\ c # NoConn
        /\ alive[c]
        /\ Room(c)
        /\ mutex' = {[uid |-> uid, conn |-> c, msg |-> f]}
        /\ UNCHANGED <<online_users, alive, queue, tasks, sock, got, loggedOut>>

\* Mutant: the entry is removed whatever the alive flag says.
SendToUserAnyDead(uid) ==
    /\ mutex = {}
    /\ online_users[uid] # NoConn
    /\ online_users' = [online_users EXCEPT ![uid] = NoConn]
    /\ UNCHANGED <<mutex, alive, queue, tasks, sock, got, loggedOut>>

\* send_to_user finds an entry whose alive flag is down and removes it.  (The
\* remaining case, no entry at all, changes nothing and returns false.)
SendToUserDead(uid) ==
    /\ mutex = {}
    /\ online_users[uid] # NoConn
    /\ ~alive[online_users[uid]]
    /\ online_users' = [online_users EXCEPT ![uid] = NoConn]
    /\ UNCHANGED <<mutex, alive, queue, tasks, sock, got, loggedOut>>

\* Still holding the mutex, the send on the queue succeeds: delivered.
SendToUserPush(s) ==
    /\ s \in mutex
    /\ fwd[s.conn] # "exited"
    /\ TxSend(s.conn, s.msg)
    /\ mutex' = {}
    /\ UNCHANGED <<online_users, alive, tasks, sock, got, loggedOut>>

\* ... or rx was dropped since the check: mark dead and remove the entry.
SendToUserBroken(s) ==
    /\ s \in mutex
    /\ fwd[s.conn] = "exited"
    /\ alive' = [alive EXCEPT ![s.conn] = FALSE]
    /\ online_users' = [online_users EXCEPT ![s.uid] = NoConn]
    /\ mutex' = {}
    /\ UNCHANGED <<queue, tasks, sock, got, loggedOut>>

\* Mutant: logout does not take the mutex.
RemoveUnlocked(uid) ==
    /\ loggedOut' = loggedOut \cup ({online_users[uid]} \ {NoConn})
    /\ online_users' = [online_users EXCEPT ![uid] = NoConn]
    /\ UNCHANGED <<mutex, alive, queue, tasks, sock, got>>

\* POST /api/user/logout: the entry goes, whichever connection it is.
RemoveOnlineUser(uid) ==
    /\ mutex = {}
    /\ loggedOut' = loggedOut \cup ({online_users[uid]} \ {NoConn})
    /\ online_users' = [online_users EXCEPT ![uid] = NoConn]
    /\ UNCHANGED <<mutex, alive, queue, tasks, sock, got>>

-----------------------------------------------------------------------------
(* The tasks of one connection                                             *)

\* A handler answers its own client through the connection's tx (acks, errors).
MainReply(c) ==
    /\ main[c] = "running"
    /\ Room(c)
    /\ \E f \in Frames : TxSend(c, f)
    /\ UNCHANGED <<online_users, mutex, alive, tasks, sock, got, loggedOut>>

\* Mutant: the exiting main task removes "its" entry from the map.
MainExitRemoving(c) ==
    /\ main[c] = "running"
    /\ sock[c] = "closed"
    /\ mutex = {}
    /\ alive' = [alive EXCEPT ![c] = FALSE]
    /\ main' = [main EXCEPT ![c] = "exited"]
    /\ online_users' = [online_users EXCEPT ![UserOf[c]] = NoConn]
    /\ UNCHANGED <<mutex, queue, sync, fwd, sock, got, loggedOut>>

\* receiver.next() yields Close, an error or None: alive goes down, tx is
\* dropped; the map entry is deliberately left for send_to_user to clean up.
MainExit(c) ==
    /\ main[c] = "running"
    /\ sock[c] = "closed"
    /\ alive' = [alive EXCEPT ![c] = FALSE]
    /\ main' = [main EXCEPT ![c] = "exited"]
    /\ UNCHANGED <<online_users, mutex, queue, sync, fwd, sock, got, loggedOut>>

SyncPush(c) ==
    /\ sync[c] = "running"
    /\ Room(c)
    /\ \E f \in Frames : TxSend(c, f)
    /\ UNCHANGED <<online_users, mutex, alive, tasks, sock, got, loggedOut>>

SyncDone(c) ==
    /\ sync[c] = "running"
    /\ sync' = [sync EXCEPT ![c] = "done"]
    /\ UNCHANGED <<online_users, mutex, alive, queue, main, fwd, sock, got, loggedOut>>

\* Mutant: frames are written for the current connection of the user only.
FwdWriteCurrent(c) ==
    /\ fwd[c] = "running"
    /\ queue[c] # <<>>
    /\ sock[c] = "open"
    /\ online_users[UserOf[c]] = c
    /\ got' = [got EXCEPT ![c] = @ \cup {Head(queue[c])}]
    /\ queue' = [queue EXCEPT ![c] = Tail(@)]
    /\ UNCHANGED <<online_users, mutex, alive, tasks, sock, loggedOut>>

\* rx.recv() yields a frame and the write reaches an open client.
FwdWrite(c) ==
    /\ fwd[c] = "running"
    /\ queue[c] # <<>>
    /\ sock[c] = "open"
    /\ got' = [got EXCEPT ![c] = @ \cup {Head(queue[c])}]
    /\ queue' = [queue EXCEPT ![c] = Tail(@)]
    /\ UNCHANGED <<online_users, mutex, alive, tasks, sock, loggedOut>>

\* The client is gone but the write is still accepted (socket buffer): lost.
FwdWriteLost(c) ==
    /\ fwd[c] = "running"
    /\ queue[c] # <<>>
    /\ sock[c] = "closed"
    /\ queue' = [queue EXCEPT ![c] = Tail(@)]
    /\ UNCHANGED <<online_users, mutex, alive, tasks, sock, got, loggedOut>>

\* The client is gone and the write fails: leave the loop, put alive down.
FwdWriteErr(c) ==
    /\ fwd[c] = "running"
    /\ queue[c] # <<>>
    /\ sock[c] = "closed"
    /\ queue' = [queue EXCEPT ![c] = Tail(@)]
    /\ alive' = [alive EXCEPT ![c] = FALSE]
    /\ fwd' = [fwd EXCEPT ![c] = "exiting"]
    /\ UNCHANGED <<online_users, mutex, main, sync, sock, got, loggedOut>>

\* No tx clone is left (main, sync, map entry): rx.recv() yields None.
NoTxLeft(c) ==
    /\ main[c] = "exited"
    /\ sync[c] = "done"
    /\ online_users[UserOf[c]] # c

FwdChannelClosed(c) ==
    /\ fwd[c] = "running"
    /\ queue[c] = <<>>
    /\ NoTxLeft(c)
    /\ alive' = [alive EXCEPT ![c] = FALSE]
    /\ fwd' = [fwd EXCEPT ![c] = "exiting"]
    /\ UNCHANGED <<online_users, mutex, queue, main, sync, sock, got, loggedOut>>

\* The forwarding task ends after alive went down: rx and its frames go.
FwdDropRx(c) ==
    /\ fwd[c] = "exiting"
    /\ fwd' = [fwd EXCEPT ![c] = "exited"]
    /\ queue' = [queue EXCEPT ![c] = <<>>]
    /\ UNCHANGED <<online_users, mutex, alive, main, sync, sock, got, loggedOut>>

\* The client leaves: it closes the page, loses the network, or (onmessage in
\* chat.html) reacts to a kicked frame by logging out.
ClientClose(c) ==
    /\ sock[c] = "open"
    /\ sock' = [sock EXCEPT ![c] = "closed"]
    /\ UNCHANGED <<online_users, mutex, alive, queue, tasks, got, loggedOut>>

ClientOnKicked(c) == Kicked \in got[c] /\ ClientClose(c)

-----------------------------------------------------------------------------
FwdStep(c) ==
    \/ FwdWrite(c) \/ FwdWriteLost(c) \/ FwdWriteErr(c)
    \/ FwdChannelClosed(c) \/ FwdDropRx(c)

ConnStep(c) ==
    \/ InsertOnlineUser(c) \/ ClientClose(c)
    \/ MainReply(c) \/ MainExit(c)
    \/ SyncPush(c) \/ SyncDone(c)
    \/ FwdStep(c)

SendFinish == \E s \in mutex : SendToUserPush(s) \/ SendToUserBroken(s)

Next ==
    \/ \E c \in Conns : ConnStep(c)
    \/ \E u \in Users : \/ \E f \in AnyFrame : SendToUserCheck(u, f)
                        \/ SendToUserDead(u)
                        \/ RemoveOnlineUser(u)
    \/ SendFinish

Spec == Init /\ [][Next]_vars

\* The runtime polls every ready task and database calls return or time out;
\* a client that was kicked logs out.  Users, logins and sends are not fair.
Fairness ==
    /\ WF_vars(SendFinish)
    /\ \A c \in Conns : /\ WF_vars(FwdStep(c))
                        /\ WF_vars(MainExit(c))
                        /\ WF_vars(SyncDone(c))
                        /\ WF_vars(ClientOnKicked(c))

FairSpec == Spec /\ Fairness

-----------------------------------------------------------------------------
(* Properties                                                              *)

Exited(c) == main[c] = "exited" /\ fwd[c] = "exited"
KickedSeen(c) == Kicked \in Elems(queue[c]) \cup got[c]

\* Types; at most one holder of the map's mutex; an entry of the map belongs to
\* a connection authenticated for that user.
TypeOK ==
    /\ online_users \in [Users -> Conns \cup {NoConn}]
    /\ \A u \in Users : online_users[u] # NoConn => UserOf[online_users[u]] = u
    /\ mutex \subseteq SendCall
    /\ \A s, t \in mutex : s = t
    /\ alive \in [Conns -> BOOLEAN]
    /\ queue \in [Conns -> Seq(AnyFrame)]
    /\ main \in [Conns -> {"new", "running", "exited"}]
    /\ sync \in [Conns -> {"new", "running", "done"}]
    /\ fwd \in [Conns -> {"new", "running", "exiting", "exited"}]
    /\ sock \in [Conns -> {"new", "open", "closed"}]
    /\ got \in [Conns -> SUBSET AnyFrame]
    /\ loggedOut \subseteq Conns

\* Between reading the alive flag and removing the entry of a broken channel,
\* send_to_user relies on the entry still being the one it looked up: otherwise
\* its cleanup would delete a newer login.
CheckedEntryStable == \A s \in mutex : online_users[s.uid] = s.conn

\* No session goes silent: a client whose socket is open is the one the map
\* delivers to, or a kicked frame is in its queue or was read by it, or it was
\* unregistered by an explicit logout.  (The NOTE in handle_im_websocket: an
\* exiting main task must not remove the entry of a newer login.)
LiveIsReachable ==
    \A c \in Conns : sock[c] = "open" =>
        \/ online_users[UserOf[c]] = c
        \/ KickedSeen(c)
        \/ c \in loggedOut

\* An entry disappears without a successor only by an explicit logout or after
\* its connection went down; lazy cleanup never takes a live session offline.
CleanupStep ==
    \A u \in Users :
        (online_users[u] # NoConn /\ online_users'[u] = NoConn) =>
            ~alive'[online_users[u]] \/ online_users[u] \in loggedOut'

CleanupOnlyDead == [][CleanupStep]_vars

\* A session replaced by a newer login of the same user ends: its client gets
\* the kicked frame and leaves, its main and forwarding tasks exit.
ReplacedSessionEnds ==
    \A c \in Conns :
        (/\ main[c] # "new"
         /\ c \notin loggedOut
         /\ online_users[UserOf[c]] \notin {c, NoConn}) ~> Exited(c)

\* A client that is told to go goes: by a newer login, or by user_delete_handler,
\* which pushes "kicked" to the session of the deleted account, logged out or not
\* in between; the frame does not stay behind in the queue.
KickedClientLeaves == \A c \in Conns : KickedSeen(c) ~> sock[c] = "closed"

\* The check and the push of send_to_user, the lazy cleanup, the lock-free flags
\* and queues implement the registry the handlers rely on (Registry): a frame
\* reaches whichever session is the user's current one at that moment, and only
\* sessions whose client has gone lose an entry or a frame.
SessionState(c) == IF sock[c] = "open" THEN "open"
                   ELSE IF main[c] = "new" THEN "new" ELSE "closed"

Sessions == INSTANCE Registry WITH
    Sessions <- Conns,
    NoSession <- NoConn,
    current <- online_users,
    state <- [c \in Conns |-> SessionState(c)],
    inbox <- [c \in Conns |-> Elems(queue[c]) \cup got[c]],
    out <- loggedOut

ImplementsRegistry == Sessions!Spec

\* The inductive invariant.  A connection that has not been accepted yet is
\* nowhere; an open socket has its two tasks running and its alive flag up.
FreshConn ==
    \A c \in Conns : main[c] = "new" =>
        /\ fwd[c] = "new" /\ sock[c] = "new"
        /\ \A u \in Users : online_users[u] # c

OpenIsServed ==
    \A c \in Conns : sock[c] = "open" =>
        main[c] = "running" /\ fwd[c] = "running" /\ alive[c]

IInv == TypeOK /\ CheckedEntryStable /\ FreshConn /\ OpenIsServed /\ LiveIsReachable
=============================================================================
