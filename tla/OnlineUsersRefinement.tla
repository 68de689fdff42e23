------------------------ MODULE OnlineUsersRefinement ------------------------
(* The registry and the tasks of the connections implement Registry, for any *)
(* number of users, connections and frames.                                  *)
EXTENDS OnlineUsersProofs

Inbox == [c \in Conns |-> Elems(queue[c]) \cup got[c]]
State == [c \in Conns |-> SessionState(c)]

\* The sync task of a connection starts with the connection.
SyncFresh == \A c \in Conns : main[c] = "new" => sync[c] = "new"

RInv == IInv /\ SyncFresh

LEMMA RInit == Init => RInv
  BY SafetyInit DEF Init, RInv, SyncFresh

LEMMA RStep == RInv /\ [Next]_vars => RInv'
<1> SUFFICES ASSUME RInv, [Next]_vars PROVE SyncFresh'
  BY SafetyStep DEF RInv
<1>1. ASSUME NEW c \in Conns, InsertOnlineUser(c) PROVE SyncFresh'
  BY <1>1 DEF InsertOnlineUser, StartTasks, RInv, IInv, TypeOK, SyncFresh
<1>2. ASSUME NEW c \in Conns, MainExit(c) \/ SyncDone(c) PROVE SyncFresh'
  BY <1>2 DEF MainExit, SyncDone, RInv, IInv, TypeOK, SyncFresh
<1>3. CASE UNCHANGED <<main, sync>>
  BY <1>3 DEF RInv, SyncFresh
<1> QED
  BY <1>1, <1>2, <1>3
  DEF Next, ConnStep, ClientClose, MainReply, SyncPush, FwdStep, FwdWrite, FwdWriteLost,
      FwdWriteErr, FwdChannelClosed, FwdDropRx, SendToUserCheck, SendToUserDead,
      RemoveOnlineUser, SendFinish, SendToUserPush, SendToUserBroken, vars, tasks

-----------------------------------------------------------------------------
(* What the steps do to the sessions' states and inboxes                   *)

LEMMA SendGives ==
    ASSUME TypeOK, NEW c \in Conns, NEW f \in AnyFrame, TxSend(c, f), UNCHANGED got
    PROVE  Inbox' = IF fwd[c] = "exited" THEN Inbox
                    ELSE [Inbox EXCEPT ![c] = @ \cup {f}]
<1>1. CASE fwd[c] = "exited"
  BY <1>1 DEF TxSend, Inbox
<1>2. CASE fwd[c] # "exited"
  <2>1. queue[c] \in Seq(AnyFrame) /\ queue' = [queue EXCEPT ![c] = Append(queue[c], f)]
    BY <1>2 DEF TxSend, TypeOK
  <2>2. Elems(queue'[c]) = Elems(queue[c]) \cup {f}
    BY <2>1, AppendElems DEF TypeOK
  <2>3. \A d \in Conns : d # c => queue'[d] = queue[d]
    BY <2>1 DEF TypeOK
  <2> QED
    BY <1>2, <2>2, <2>3 DEF Inbox
<1> QED
  BY <1>1, <1>2

\* What is lost is lost of a connection whose client has gone.
LEMMA GoneIsClosed ==
    ASSUME RInv, NEW c \in Conns, fwd[c] # "new" \/ main[c] # "new" \/ sock[c] = "closed",
           sock[c] # "open"
    PROVE  SessionState(c) = "closed"
  BY DEF RInv, IInv, FreshConn, SessionState

LEMMA StateKept ==
    ASSUME UNCHANGED sock, \A c \in Conns : main'[c] = "new" <=> main[c] = "new"
    PROVE  State' = State
  BY DEF State, SessionState

LEMMA FwdMaps ==
    ASSUME RInv, NEW c \in Conns, FwdStep(c)
    PROVE  Sessions!Lose(c) \/ UNCHANGED Sessions!rvars
<1> USE DEF RInv, IInv
<1>1. UNCHANGED <<online_users, loggedOut, sock, main>> /\ State' = State
  BY StateKept
  DEF FwdStep, FwdWrite, FwdWriteLost, FwdWriteErr, FwdChannelClosed, FwdDropRx, tasks
<1>2. CASE FwdWrite(c)
  <2>1. /\ Elems(queue[c]) = {Head(queue[c])} \cup Elems(queue'[c])
        /\ \A d \in Conns : d # c => queue'[d] = queue[d]
    BY <1>2, TailQueues DEF FwdWrite
  <2>2. \A d \in Conns : got'[d] = IF d = c THEN got[c] \cup {Head(queue[c])} ELSE got[d]
    BY <1>2 DEF FwdWrite, TypeOK
  <2>3. Inbox' = Inbox
    BY <2>1, <2>2 DEF Inbox
  <2> QED
    BY <1>1, <2>3 DEF Sessions!rvars, Inbox, State
<1>3. CASE FwdChannelClosed(c)
  BY <1>1, <1>3 DEF FwdChannelClosed, Sessions!rvars, State
<1>4. CASE FwdWriteLost(c) \/ FwdWriteErr(c) \/ FwdDropRx(c)
  <2>1. SessionState(c) = "closed"
    BY <1>4, GoneIsClosed DEF FwdWriteLost, FwdWriteErr, FwdDropRx, OpenIsServed
  <2>2. /\ Elems(queue'[c]) \subseteq Elems(queue[c])
        /\ \A d \in Conns : d # c => queue'[d] = queue[d]
        /\ UNCHANGED got
    <3>1. CASE FwdDropRx(c)
      <4>1. Elems(<<>>) = {}
        BY DEF Elems
      <4> QED
        BY <3>1, <4>1 DEF FwdDropRx, TypeOK
    <3>2. CASE FwdWriteLost(c) \/ FwdWriteErr(c)
      BY <3>2, TailQueues DEF FwdWriteLost, FwdWriteErr
    <3> QED
      BY <1>4, <3>1, <3>2
  <2> DEFINE kept == Elems(queue'[c]) \cup got[c]
  <2>3. kept \in SUBSET Inbox[c] /\ Inbox' = [Inbox EXCEPT ![c] = kept]
    BY <2>2 DEF Inbox
  <2> QED
    BY <1>1, <2>1, <2>3 DEF Sessions!Lose, Inbox, State
<1> QED
  BY <1>2, <1>3, <1>4 DEF FwdStep

LEMMA InsertMaps ==
    ASSUME RInv, NEW c \in Conns, InsertOnlineUser(c)
    PROVE  Sessions!Accept(c)
<1> DEFINE old == online_users[UserOf[c]]
<1> USE OnlineUsersAssumption DEF RInv, IInv
<1>1. State[c] = "new" /\ State' = [State EXCEPT ![c] = "open"]
  <2>1. main[c] = "new" /\ sock[c] = "new"
    BY DEF InsertOnlineUser, StartTasks, FreshConn
  <2>2. sock'[c] = "open" /\ \A d \in Conns : d # c => sock'[d] = sock[d] /\ main'[d] = main[d]
    BY DEF InsertOnlineUser, StartTasks, TypeOK
  <2> QED
    BY <2>1, <2>2 DEF State, SessionState
<1>2. /\ online_users' = [online_users EXCEPT ![UserOf[c]] = c]
      /\ UNCHANGED <<got, loggedOut>>
  BY DEF InsertOnlineUser, StartTasks
<1>3. CASE old = NoConn
  BY <1>1, <1>2, <1>3 DEF InsertOnlineUser, Sessions!Accept, Inbox, State
<1>4. CASE old # NoConn
  <2>1. old \in Conns /\ TxSend(old, Kicked) /\ Kicked \in AnyFrame
    BY <1>4 DEF InsertOnlineUser, TypeOK, AnyFrame
  <2>2. Inbox' = IF fwd[old] = "exited" THEN Inbox
                 ELSE [Inbox EXCEPT ![old] = @ \cup {Kicked}]
    BY <1>2, <2>1, SendGives
  <2>3. fwd[old] = "exited" => State[old] = "closed"
    BY <2>1, GoneIsClosed DEF OpenIsServed, State
  <2> QED
    BY <1>1, <1>2, <1>4, <2>2, <2>3
    DEF Sessions!Accept, Sessions!GiveOrMiss, Sessions!Give, Inbox, State
<1> QED
  BY <1>3, <1>4

LEMMA ReplyMaps ==
    ASSUME RInv, NEW c \in Conns, MainReply(c) \/ SyncPush(c)
    PROVE  \E f \in Frames : Sessions!Reply(c, f)
<1> USE DEF RInv, IInv
<1>1. PICK f \in Frames : TxSend(c, f)
  BY DEF MainReply, SyncPush
<1>2. UNCHANGED <<online_users, sock, main, got, loggedOut>> /\ main[c] # "new"
  BY DEF MainReply, SyncPush, SyncFresh, tasks
<1>3. State' = State /\ State[c] # "new"
  BY <1>2, StateKept DEF State, SessionState
<1>4. Inbox' = IF fwd[c] = "exited" THEN Inbox ELSE [Inbox EXCEPT ![c] = @ \cup {f}]
  BY <1>1, <1>2, SendGives DEF AnyFrame
<1>5. fwd[c] = "exited" => State[c] = "closed"
  BY GoneIsClosed DEF OpenIsServed, State
<1> QED
  BY <1>2, <1>3, <1>4, <1>5
  DEF Sessions!Reply, Sessions!GiveOrMiss, Sessions!Give, Inbox, State

LEMMA PushMaps ==
    ASSUME RInv, NEW s \in mutex, SendToUserPush(s)
    PROVE  \E u \in Users, f \in AnyFrame : Sessions!Deliver(u, f)
<1> USE OnlineUsersAssumption DEF RInv, IInv
<1>1. /\ s.uid \in Users /\ s.conn \in Conns /\ s.msg \in AnyFrame
      /\ online_users[s.uid] = s.conn
  BY DEF TypeOK, SendCall, CheckedEntryStable
<1>2. UNCHANGED <<online_users, sock, main, got, loggedOut>> /\ State' = State
  BY StateKept DEF SendToUserPush, tasks
<1>3. Inbox' = [Inbox EXCEPT ![s.conn] = @ \cup {s.msg}]
  BY <1>1, <1>2, SendGives DEF SendToUserPush
<1>4. Sessions!Deliver(s.uid, s.msg)
  BY <1>1, <1>2, <1>3 DEF Sessions!Deliver, Sessions!Give, Inbox, State
<1> QED
  BY <1>1, <1>4

LEMMA DropMaps ==
    ASSUME RInv, NEW u \in Users, online_users[u] # NoConn, ~alive[online_users[u]]
                                  \/ fwd[online_users[u]] = "exited",
           online_users' = [online_users EXCEPT ![u] = NoConn],
           UNCHANGED <<queue, tasks, sock, got, loggedOut>>
    PROVE  Sessions!Drop(u)
<1> USE DEF RInv, IInv
<1>1. online_users[u] \in Conns /\ main[online_users[u]] # "new"
  BY DEF TypeOK, FreshConn
<1>2. SessionState(online_users[u]) = "closed"
  BY <1>1, GoneIsClosed DEF OpenIsServed
<1>3. State' = State
  BY StateKept DEF tasks
<1> QED
  BY <1>1, <1>2, <1>3 DEF Sessions!Drop, Sessions!Leave, State

LEMMA TaskMaps ==
    ASSUME RInv, NEW c \in Conns, ClientClose(c) \/ MainExit(c) \/ SyncDone(c)
    PROVE  Sessions!Close(c) \/ UNCHANGED Sessions!rvars
<1> USE DEF RInv, IInv
<1>1. UNCHANGED <<online_users, queue, got, loggedOut>>
  BY DEF ClientClose, MainExit, SyncDone, tasks
<1>2. CASE ClientClose(c)
  <2>1. /\ main[c] = "running" /\ sock[c] = "open" /\ sock'[c] = "closed"
        /\ \A d \in Conns : main'[d] = main[d] /\ (d # c => sock'[d] = sock[d])
    BY <1>2 DEF ClientClose, OpenIsServed, TypeOK, tasks
  <2>2. State[c] = "open" /\ State' = [State EXCEPT ![c] = "closed"]
    BY <2>1 DEF State, SessionState
  <2> QED
    BY <1>1, <2>2 DEF Sessions!Close, State
<1>3. CASE MainExit(c) \/ SyncDone(c)
  <2>1. State' = State
    BY <1>3, StateKept DEF MainExit, SyncDone, TypeOK
  <2> QED
    BY <1>1, <2>1 DEF Sessions!rvars, State
<1> QED
  BY <1>2, <1>3

-----------------------------------------------------------------------------
LEMMA InitMaps == Init => Sessions!Init
<1> SUFFICES ASSUME Init PROVE Sessions!Init
  OBVIOUS
<1>1. \A c \in Conns : Elems(queue[c]) \cup got[c] = {} /\ SessionState(c) = "new"
  BY DEF Init, Elems, SessionState
<1> QED
  BY <1>1 DEF Init, Sessions!Init

LEMMA StepMaps == RInv /\ [Next]_vars => [Sessions!Next]_(Sessions!rvars)
<1> SUFFICES ASSUME RInv, [Next]_vars PROVE Sessions!Next \/ UNCHANGED Sessions!rvars
  OBVIOUS
<1>1. ASSUME NEW c \in Conns, ConnStep(c) PROVE Sessions!Next \/ UNCHANGED Sessions!rvars
  BY <1>1, InsertMaps, TaskMaps, ReplyMaps, FwdMaps DEF ConnStep, Sessions!Next
<1>2. ASSUME NEW u \in Users, NEW f \in AnyFrame, SendToUserCheck(u, f)
      PROVE  UNCHANGED Sessions!rvars
  BY <1>2 DEF SendToUserCheck, tasks, Sessions!rvars, SessionState
<1>3. ASSUME NEW u \in Users, SendToUserDead(u) PROVE Sessions!Next
  BY <1>3, DropMaps DEF SendToUserDead, Sessions!Next
<1>4. ASSUME NEW u \in Users, RemoveOnlineUser(u) PROVE Sessions!Next
  <2>1. Sessions!Logout(u)
    BY <1>4 DEF RemoveOnlineUser, tasks, Sessions!Logout, Sessions!Leave, SessionState
  <2> QED
    BY <2>1 DEF Sessions!Next
<1>5. ASSUME NEW s \in mutex, SendToUserPush(s) PROVE Sessions!Next
  BY <1>5, PushMaps DEF Sessions!Next, AnyFrame
<1>6. ASSUME NEW s \in mutex, SendToUserBroken(s) PROVE Sessions!Next
  <2>1. s.uid \in Users /\ s.conn \in Conns /\ online_users[s.uid] = s.conn
    BY DEF RInv, IInv, TypeOK, SendCall, CheckedEntryStable
  <2>2. s.conn # NoConn
    BY <2>1, OnlineUsersAssumption
  <2> QED
    BY <1>6, <2>1, <2>2, DropMaps DEF SendToUserBroken, Sessions!Next
<1>7. CASE UNCHANGED vars
  BY <1>7 DEF vars, tasks, Sessions!rvars, SessionState
<1> QED
  BY <1>1, <1>2, <1>3, <1>4, <1>5, <1>6, <1>7 DEF Next, SendFinish

\* insert_online_user, send_to_user with its lock-free flags and lazy cleanup,
\* remove_online_user and the tasks implement the atomic registry.
THEOREM RegistryImplemented == Spec => ImplementsRegistry
<1>1. Spec => []RInv
  BY RInit, RStep, PTL DEF Spec
<1> QED
  BY <1>1, InitMaps, StepMaps, PTL DEF Spec, ImplementsRegistry, Sessions!Spec
=============================================================================
