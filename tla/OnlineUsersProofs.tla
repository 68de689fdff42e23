-------------------------- MODULE OnlineUsersProofs --------------------------
(* Safety of the registry of connected users for any number of users,       *)
(* connections and frames, and for queues of any length.                    *)
EXTENDS OnlineUsers, TLAPS

\* What a queue holds after a send, and after its head was read.
LEMMA AppendElems ==
    ASSUME NEW S, NEW q \in Seq(S), NEW e \in S
    PROVE  Append(q, e) \in Seq(S) /\ Elems(Append(q, e)) = Elems(q) \cup {e}
<1>1. Append(q, e) \in Seq(S) /\ Len(Append(q, e)) = Len(q) + 1
  OBVIOUS
<1>2. \A i \in 1..Len(q) : Append(q, e)[i] = q[i]
  OBVIOUS
<1>3. Append(q, e)[Len(q) + 1] = e
  OBVIOUS
<1>4. DOMAIN q = 1..Len(q) /\ DOMAIN Append(q, e) = 1..(Len(q) + 1)
  BY <1>1
<1> QED
  BY <1>1, <1>2, <1>3, <1>4 DEF Elems

LEMMA TailElems ==
    ASSUME NEW S, NEW q \in Seq(S), q # <<>>
    PROVE  /\ Tail(q) \in Seq(S) /\ Head(q) \in S
           /\ Elems(q) = {Head(q)} \cup Elems(Tail(q))
<1>1. Len(q) \in Nat /\ Len(q) > 0
  OBVIOUS
<1>2. Tail(q) \in Seq(S) /\ Head(q) = q[1] /\ Head(q) \in S
  BY <1>1
<1>3. Len(Tail(q)) = Len(q) - 1 /\ \A i \in 1..(Len(q) - 1) : Tail(q)[i] = q[i + 1]
  BY <1>1
<1>4. DOMAIN q = 1..Len(q) /\ DOMAIN Tail(q) = 1..(Len(q) - 1)
  BY <1>2, <1>3
<1>5. Elems(Tail(q)) \subseteq Elems(q) /\ Head(q) \in Elems(q)
  BY <1>1, <1>2, <1>3, <1>4 DEF Elems
<1>6. ASSUME NEW i \in 1..Len(q) PROVE q[i] \in {Head(q)} \cup Elems(Tail(q))
  <2>1. CASE i = 1
    BY <2>1, <1>2
  <2>2. CASE i # 1
    <3>1. i - 1 \in 1..(Len(q) - 1) /\ q[i] = Tail(q)[i - 1]
      BY <2>2, <1>1, <1>3
    <3> QED
      BY <3>1, <1>4 DEF Elems
  <2> QED
    BY <2>1, <2>2
<1> QED
  BY <1>2, <1>4, <1>5, <1>6 DEF Elems

\* What a send on a connection's tx does to the queues.
LEMMA TxSendQueues ==
    ASSUME TypeOK, NEW c \in Conns, NEW f \in AnyFrame, TxSend(c, f)
    PROVE  /\ queue' \in [Conns -> Seq(AnyFrame)]
           /\ \A d \in Conns : Elems(queue[d]) \subseteq Elems(queue'[d])
           /\ fwd[c] # "exited" => f \in Elems(queue'[c])
<1>1. queue[c] \in Seq(AnyFrame)
  BY DEF TypeOK
<1>2. /\ Append(queue[c], f) \in Seq(AnyFrame)
      /\ Elems(Append(queue[c], f)) = Elems(queue[c]) \cup {f}
  BY <1>1, AppendElems
<1>3. CASE fwd[c] = "exited"
  BY <1>3 DEF TxSend, TypeOK
<1>4. CASE fwd[c] # "exited"
  <2>1. queue' = [queue EXCEPT ![c] = Append(queue[c], f)]
    BY <1>4 DEF TxSend
  <2>2. queue' \in [Conns -> Seq(AnyFrame)]
    BY <2>1, <1>2 DEF TypeOK
  <2>3. \A d \in Conns : queue'[d] = IF d = c THEN Append(queue[c], f) ELSE queue[d]
    BY <2>1 DEF TypeOK
  <2> QED
    BY <2>2, <2>3, <1>2
<1> QED
  BY <1>3, <1>4

\* What reading or discarding the head of a queue does to the queues.
LEMMA TailQueues ==
    ASSUME TypeOK, NEW c \in Conns, queue[c] # <<>>,
           queue' = [queue EXCEPT ![c] = Tail(@)]
    PROVE  /\ queue' \in [Conns -> Seq(AnyFrame)]
           /\ Head(queue[c]) \in AnyFrame
           /\ Elems(queue[c]) = {Head(queue[c])} \cup Elems(queue'[c])
           /\ \A d \in Conns : d # c => queue'[d] = queue[d]
<1>1. queue[c] \in Seq(AnyFrame)
  BY DEF TypeOK
<1>2. /\ Tail(queue[c]) \in Seq(AnyFrame) /\ Head(queue[c]) \in AnyFrame
      /\ Elems(queue[c]) = {Head(queue[c])} \cup Elems(Tail(queue[c]))
  BY <1>1, TailElems
<1>3. \A d \in Conns : queue'[d] = IF d = c THEN Tail(queue[c]) ELSE queue[d]
  BY DEF TypeOK
<1> QED
  BY <1>2, <1>3 DEF TypeOK

-----------------------------------------------------------------------------
(* Type correctness                                                        *)

LEMMA TypeInit == Init => TypeOK
  BY OnlineUsersAssumption DEF Init, TypeOK, SendCall, AnyFrame

LEMMA TypeStep == TypeOK /\ [Next]_vars => TypeOK'
<1> SUFFICES ASSUME TypeOK, [Next]_vars PROVE TypeOK'
  OBVIOUS
<1> USE OnlineUsersAssumption
<1>1. ASSUME NEW c \in Conns, InsertOnlineUser(c) PROVE TypeOK'
  <2>1. queue' \in [Conns -> Seq(AnyFrame)]
    <3>1. CASE online_users[UserOf[c]] = NoConn
      BY <1>1, <3>1 DEF InsertOnlineUser, TypeOK
    <3>2. CASE online_users[UserOf[c]] # NoConn
      <4>1. online_users[UserOf[c]] \in Conns /\ Kicked \in AnyFrame
        BY <3>2 DEF TypeOK, AnyFrame
      <4>2. TxSend(online_users[UserOf[c]], Kicked)
        BY <1>1, <3>2 DEF InsertOnlineUser
      <4> QED
        BY <4>1, <4>2, TxSendQueues
    <3> QED
      BY <3>1, <3>2
  <2> QED
    BY <1>1, <2>1 DEF InsertOnlineUser, StartTasks, TypeOK
<1>2. ASSUME NEW c \in Conns, ClientClose(c) PROVE TypeOK'
  BY <1>2 DEF ClientClose, TypeOK, tasks
<1>3. ASSUME NEW c \in Conns, MainReply(c) PROVE TypeOK'
  <2>1. queue' \in [Conns -> Seq(AnyFrame)]
    BY <1>3, TxSendQueues DEF MainReply, AnyFrame
  <2> QED
    BY <1>3, <2>1 DEF MainReply, TypeOK, tasks
<1>4. ASSUME NEW c \in Conns, MainExit(c) PROVE TypeOK'
  BY <1>4 DEF MainExit, TypeOK
<1>5. ASSUME NEW c \in Conns, SyncPush(c) PROVE TypeOK'
  <2>1. queue' \in [Conns -> Seq(AnyFrame)]
    BY <1>5, TxSendQueues DEF SyncPush, AnyFrame
  <2> QED
    BY <1>5, <2>1 DEF SyncPush, TypeOK, tasks
<1>6. ASSUME NEW c \in Conns, SyncDone(c) PROVE TypeOK'
  BY <1>6 DEF SyncDone, TypeOK
<1>7. ASSUME NEW c \in Conns, FwdWrite(c) PROVE TypeOK'
  <2>1. queue' \in [Conns -> Seq(AnyFrame)] /\ Head(queue[c]) \in AnyFrame
    BY <1>7, TailQueues DEF FwdWrite
  <2>2. got' \in [Conns -> SUBSET AnyFrame]
    BY <1>7, <2>1 DEF FwdWrite, TypeOK
  <2> QED
    BY <1>7, <2>1, <2>2 DEF FwdWrite, TypeOK, tasks
<1>8. ASSUME NEW c \in Conns, FwdWriteLost(c) PROVE TypeOK'
  <2>1. queue' \in [Conns -> Seq(AnyFrame)]
    BY <1>8, TailQueues DEF FwdWriteLost
  <2> QED
    BY <1>8, <2>1 DEF FwdWriteLost, TypeOK, tasks
<1>9. ASSUME NEW c \in Conns, FwdWriteErr(c) PROVE TypeOK'
  <2>1. queue' \in [Conns -> Seq(AnyFrame)]
    BY <1>9, TailQueues DEF FwdWriteErr
  <2> QED
    BY <1>9, <2>1 DEF FwdWriteErr, TypeOK
<1>10. ASSUME NEW c \in Conns, FwdChannelClosed(c) PROVE TypeOK'
  BY <1>10 DEF FwdChannelClosed, TypeOK
<1>11. ASSUME NEW c \in Conns, FwdDropRx(c) PROVE TypeOK'
  <2>1. <<>> \in Seq(AnyFrame)
    OBVIOUS
  <2> QED
    BY <1>11, <2>1 DEF FwdDropRx, TypeOK
<1>12. ASSUME NEW u \in Users, NEW f \in AnyFrame, SendToUserCheck(u, f) PROVE TypeOK'
  BY <1>12 DEF SendToUserCheck, TypeOK, SendCall, tasks
<1>13. ASSUME NEW u \in Users, SendToUserDead(u) PROVE TypeOK'
  BY <1>13 DEF SendToUserDead, TypeOK, tasks
<1>14. ASSUME NEW u \in Users, RemoveOnlineUser(u) PROVE TypeOK'
  BY <1>14 DEF RemoveOnlineUser, TypeOK, tasks
<1>15. ASSUME NEW s \in mutex, SendToUserPush(s) PROVE TypeOK'
  <2>1. s.conn \in Conns /\ s.msg \in AnyFrame
    BY DEF TypeOK, SendCall
  <2>2. queue' \in [Conns -> Seq(AnyFrame)]
    BY <1>15, <2>1, TxSendQueues DEF SendToUserPush
  <2> QED
    BY <1>15, <2>2 DEF SendToUserPush, TypeOK, tasks
<1>16. ASSUME NEW s \in mutex, SendToUserBroken(s) PROVE TypeOK'
  BY <1>16 DEF SendToUserBroken, TypeOK, SendCall, tasks
<1>17. CASE UNCHANGED vars
  BY <1>17 DEF vars, tasks, TypeOK
<1> QED
  BY <1>1, <1>2, <1>3, <1>4, <1>5, <1>6, <1>7, <1>8, <1>9, <1>10, <1>11, <1>12,
     <1>13, <1>14, <1>15, <1>16, <1>17 DEF Next, ConnStep, FwdStep, SendFinish

\* At every moment of every run of the server, the registry, the flags and the
\* queues are well formed and at most one call of send_to_user is in its
\* critical section.
THEOREM TypeCorrect == Spec => []TypeOK
  BY TypeInit, TypeStep, PTL DEF Spec

-----------------------------------------------------------------------------
(* No session goes silent                                                  *)

\* A step that leaves the map alone, opens no socket and takes no kicked frame
\* away from an open one keeps every open session reachable.
LEMMA ReachableKept ==
    ASSUME LiveIsReachable, UNCHANGED <<online_users, loggedOut>>,
           \A c \in Conns : sock'[c] = "open" =>
               sock[c] = "open" /\ (KickedSeen(c) => KickedSeen(c)')
    PROVE  LiveIsReachable'
  BY DEF LiveIsReachable

LEMMA SafetyInit == Init => IInv
<1> SUFFICES ASSUME Init PROVE IInv
  OBVIOUS
<1>1. TypeOK
  BY TypeInit
<1> QED
  BY <1>1, OnlineUsersAssumption
     DEF Init, IInv, CheckedEntryStable, FreshConn, OpenIsServed, LiveIsReachable

LEMMA InsertSafe ==
    ASSUME IInv, NEW c \in Conns, InsertOnlineUser(c)
    PROVE  CheckedEntryStable' /\ FreshConn' /\ OpenIsServed' /\ LiveIsReachable'
<1> DEFINE old == online_users[UserOf[c]]
<1> USE OnlineUsersAssumption DEF IInv
<1>1. /\ main[c] = "new" /\ sock[c] = "new" /\ \A u \in Users : online_users[u] # c
      /\ UNCHANGED <<mutex, got, loggedOut>> /\ mutex = {}
  BY DEF InsertOnlineUser, StartTasks, FreshConn
<1>2. \A d \in Conns : d # c =>
        /\ main'[d] = main[d] /\ sock'[d] = sock[d]
        /\ fwd'[d] = fwd[d] /\ alive'[d] = alive[d]
  BY DEF InsertOnlineUser, StartTasks, TypeOK
<1>3. \A u \in Users : online_users'[u] = IF u = UserOf[c] THEN c ELSE online_users[u]
  BY DEF InsertOnlineUser, TypeOK
<1>4. CheckedEntryStable'
  BY <1>1 DEF CheckedEntryStable
<1>5. FreshConn'
  <2>1. main'[c] = "running"
    BY DEF InsertOnlineUser, StartTasks, TypeOK
  <2> QED
    BY <1>2, <1>3, <2>1 DEF FreshConn
<1>6. OpenIsServed'
  <2>1. main'[c] = "running" /\ fwd'[c] = "running" /\ alive'[c]
    BY DEF InsertOnlineUser, StartTasks, TypeOK
  <2> QED
    BY <1>2, <2>1 DEF OpenIsServed
<1>7. ASSUME NEW d \in Conns, sock'[d] = "open"
      PROVE  online_users'[UserOf[d]] = d \/ KickedSeen(d)' \/ d \in loggedOut'
  <2>1. CASE d = c
    BY <2>1, <1>3
  <2>2. CASE d # c /\ d = old
    <3>1. TxSend(d, Kicked) /\ fwd[d] = "running" /\ Kicked \in AnyFrame
      BY <2>2, <1>2, <1>7 DEF InsertOnlineUser, OpenIsServed, AnyFrame
    <3>2. Kicked \in Elems(queue'[d])
      BY <3>1, TxSendQueues
    <3> QED
      BY <3>2 DEF KickedSeen
  <2>3. CASE d # c /\ d # old
    <3>1. sock[d] = "open" /\ online_users[UserOf[d]] = d => UserOf[d] # UserOf[c]
      BY <2>3
    <3>2. Elems(queue[d]) \subseteq Elems(queue'[d])
      <4>1. CASE old = NoConn
        BY <4>1 DEF InsertOnlineUser
      <4>2. CASE old # NoConn
        <5>1. old \in Conns /\ Kicked \in AnyFrame /\ TxSend(old, Kicked)
          BY <4>2 DEF InsertOnlineUser, TypeOK, AnyFrame
        <5> QED
          BY <5>1, TxSendQueues
      <4> QED
        BY <4>1, <4>2
    <3>3. KickedSeen(d) => KickedSeen(d)'
      BY <3>2, <1>1 DEF KickedSeen
    <3>4. sock[d] = "open" /\ UserOf[d] \in Users
      BY <2>3, <1>2, <1>7
    <3> QED
      BY <3>1, <3>3, <3>4, <1>1, <1>3 DEF LiveIsReachable
  <2> QED
    BY <2>1, <2>2, <2>3
<1>8. LiveIsReachable'
  BY <1>7 DEF LiveIsReachable
<1> QED
  BY <1>4, <1>5, <1>6, <1>8

\* A frame appended by a task of the connection or by send_to_user.
LEMMA AppendSafe ==
    ASSUME IInv, NEW c \in Conns, NEW f \in AnyFrame, TxSend(c, f),
           mutex' \subseteq mutex,
           UNCHANGED <<online_users, alive, tasks, sock, got, loggedOut>>
    PROVE  CheckedEntryStable' /\ FreshConn' /\ OpenIsServed' /\ LiveIsReachable'
<1>1. CheckedEntryStable' /\ FreshConn' /\ OpenIsServed'
  BY DEF IInv, CheckedEntryStable, FreshConn, OpenIsServed, tasks
<1>2. \A d \in Conns : Elems(queue[d]) \subseteq Elems(queue'[d])
  BY TxSendQueues DEF IInv
<1>3. \A d \in Conns : KickedSeen(d) => KickedSeen(d)'
  BY <1>2 DEF KickedSeen
<1>4. LiveIsReachable'
  BY <1>3, ReachableKept DEF IInv
<1> QED
  BY <1>1, <1>4

\* A step of the forwarding task: no open socket loses a kicked frame unread.
LEMMA FwdSafe ==
    ASSUME IInv, NEW c \in Conns, FwdStep(c)
    PROVE  CheckedEntryStable' /\ FreshConn' /\ OpenIsServed' /\ LiveIsReachable'
<1> USE DEF IInv
<1>1. CASE FwdWrite(c)
  <2>1. CheckedEntryStable' /\ FreshConn' /\ OpenIsServed'
    BY <1>1 DEF FwdWrite, CheckedEntryStable, FreshConn, OpenIsServed, tasks
  <2>2. /\ Elems(queue[c]) = {Head(queue[c])} \cup Elems(queue'[c])
        /\ \A d \in Conns : d # c => queue'[d] = queue[d]
    BY <1>1, TailQueues DEF FwdWrite
  <2>3. \A d \in Conns : got'[d] = IF d = c THEN got[c] \cup {Head(queue[c])} ELSE got[d]
    BY <1>1 DEF FwdWrite, TypeOK
  <2>4. \A d \in Conns : KickedSeen(d) => KickedSeen(d)'
    BY <2>2, <2>3 DEF KickedSeen
  <2>5. LiveIsReachable'
    BY <1>1, <2>4, ReachableKept DEF FwdWrite
  <2> QED
    BY <2>1, <2>5
<1>2. ASSUME \/ FwdWriteLost(c) \/ FwdWriteErr(c)
             \/ FwdChannelClosed(c) \/ FwdDropRx(c)
      PROVE  CheckedEntryStable' /\ FreshConn' /\ OpenIsServed' /\ LiveIsReachable'
  <2>1. sock[c] # "open"
    BY <1>2 DEF FwdWriteLost, FwdWriteErr, FwdChannelClosed, FwdDropRx, NoTxLeft,
                OpenIsServed
  <2>2. UNCHANGED <<online_users, mutex, main, sync, sock, got, loggedOut>>
    BY <1>2 DEF FwdWriteLost, FwdWriteErr, FwdChannelClosed, FwdDropRx, tasks
  <2>3. \A d \in Conns : d # c =>
          queue'[d] = queue[d] /\ fwd'[d] = fwd[d] /\ alive'[d] = alive[d]
    BY <1>2 DEF FwdWriteLost, FwdWriteErr, FwdChannelClosed, FwdDropRx, tasks, TypeOK
  <2>4. main[c] # "new"
    BY <1>2 DEF FwdWriteLost, FwdWriteErr, FwdChannelClosed, FwdDropRx, FreshConn
  <2>5. CheckedEntryStable' /\ FreshConn' /\ OpenIsServed'
    BY <2>1, <2>2, <2>3, <2>4 DEF CheckedEntryStable, FreshConn, OpenIsServed
  <2>6. \A d \in Conns : sock'[d] = "open" =>
          sock[d] = "open" /\ (KickedSeen(d) => KickedSeen(d)')
    BY <2>1, <2>2, <2>3 DEF KickedSeen
  <2>7. LiveIsReachable'
    BY <2>2, <2>6, ReachableKept
  <2> QED
    BY <2>5, <2>7
<1> QED
  BY <1>1, <1>2 DEF FwdStep

\* Steps of the client, of the main task and of the sync task that send nothing.
LEMMA TaskSafe ==
    ASSUME IInv, NEW c \in Conns, ClientClose(c) \/ MainExit(c) \/ SyncDone(c)
    PROVE  CheckedEntryStable' /\ FreshConn' /\ OpenIsServed' /\ LiveIsReachable'
<1> USE DEF IInv
<1>1. UNCHANGED <<online_users, mutex, queue, fwd, got, loggedOut>>
  BY DEF ClientClose, MainExit, SyncDone, tasks
<1>2. CheckedEntryStable'
  BY <1>1 DEF CheckedEntryStable
<1>3. FreshConn'
  <2>1. \A d \in Conns : main'[d] = "new" => main[d] = "new"
    BY DEF ClientClose, MainExit, SyncDone, tasks, TypeOK
  <2>2. \A d \in Conns : main[d] = "new" => sock'[d] = sock[d]
    BY DEF ClientClose, MainExit, SyncDone, FreshConn, TypeOK
  <2> QED
    BY <1>1, <2>1, <2>2 DEF FreshConn
<1>4. \A d \in Conns : sock'[d] = "open" =>
        /\ sock[d] = "open"
        /\ main'[d] = main[d] /\ alive'[d] = alive[d]
  BY DEF ClientClose, MainExit, SyncDone, tasks, TypeOK
<1>5. OpenIsServed'
  BY <1>1, <1>4 DEF OpenIsServed
<1>6. \A d \in Conns : KickedSeen(d) => KickedSeen(d)'
  BY <1>1 DEF KickedSeen
<1>7. LiveIsReachable'
  BY <1>1, <1>4, <1>6, ReachableKept
<1> QED
  BY <1>2, <1>3, <1>5, <1>7

\* An entry taken out of the map: its connection is down or logged out.
LEMMA RemovalSafe ==
    ASSUME IInv, NEW u \in Users, mutex' = {},
           online_users' = [online_users EXCEPT ![u] = NoConn],
           UNCHANGED <<queue, tasks, sock, got>>,
           loggedOut \subseteq loggedOut',
           \A c \in Conns : alive'[c] # alive[c] => sock[c] # "open",
           online_users[u] \in Conns =>
               sock[online_users[u]] # "open" \/ online_users[u] \in loggedOut'
    PROVE  CheckedEntryStable' /\ FreshConn' /\ OpenIsServed' /\ LiveIsReachable'
<1> USE OnlineUsersAssumption DEF IInv
<1>1. \A v \in Users : online_users'[v] = IF v = u THEN NoConn ELSE online_users[v]
  BY DEF TypeOK
<1>2. CheckedEntryStable'
  BY DEF CheckedEntryStable
<1>3. FreshConn'
  BY <1>1 DEF FreshConn, tasks
<1>4. OpenIsServed'
  BY DEF OpenIsServed, tasks, TypeOK
<1>5. LiveIsReachable'
  <2>1. \A d \in Conns : KickedSeen(d) => KickedSeen(d)'
    BY DEF KickedSeen
  <2> QED
    BY <1>1, <2>1 DEF LiveIsReachable
<1> QED
  BY <1>2, <1>3, <1>4, <1>5

LEMMA SafetyStep == IInv /\ [Next]_vars => IInv'
<1> SUFFICES ASSUME IInv, [Next]_vars
             PROVE  CheckedEntryStable' /\ FreshConn' /\ OpenIsServed' /\ LiveIsReachable'
  BY TypeStep DEF IInv
<1> DEFINE Goal == CheckedEntryStable' /\ FreshConn' /\ OpenIsServed' /\ LiveIsReachable'
<1>1. ASSUME NEW c \in Conns, InsertOnlineUser(c) PROVE Goal
  BY <1>1, InsertSafe
<1>2. ASSUME NEW c \in Conns, ClientClose(c) \/ MainExit(c) \/ SyncDone(c) PROVE Goal
  BY <1>2, TaskSafe
<1>3. ASSUME NEW c \in Conns, MainReply(c) \/ SyncPush(c) PROVE Goal
  <2>1. PICK f \in Frames : TxSend(c, f)
    BY <1>3 DEF MainReply, SyncPush
  <2> QED
    BY <1>3, <2>1, AppendSafe DEF MainReply, SyncPush, AnyFrame
<1>4. ASSUME NEW c \in Conns, FwdStep(c) PROVE Goal
  BY <1>4, FwdSafe
<1>5. ASSUME NEW u \in Users, NEW f \in AnyFrame, SendToUserCheck(u, f) PROVE Goal
  <2>1. CheckedEntryStable' /\ FreshConn' /\ OpenIsServed'
    BY <1>5 DEF IInv, SendToUserCheck, CheckedEntryStable, FreshConn, OpenIsServed, tasks
  <2>2. \A d \in Conns : KickedSeen(d) => KickedSeen(d)'
    BY <1>5 DEF SendToUserCheck, KickedSeen
  <2>3. LiveIsReachable'
    BY <1>5, <2>2, ReachableKept DEF IInv, SendToUserCheck
  <2> QED
    BY <2>1, <2>3
<1>6. ASSUME NEW u \in Users, SendToUserDead(u) PROVE Goal
  <2>1. sock[online_users[u]] # "open"
    BY <1>6 DEF SendToUserDead, IInv, OpenIsServed, TypeOK
  <2> QED
    BY <1>6, <2>1, RemovalSafe DEF SendToUserDead
<1>7. ASSUME NEW u \in Users, RemoveOnlineUser(u) PROVE Goal
  <2>1. online_users[u] \in Conns => online_users[u] \in loggedOut'
    BY <1>7, OnlineUsersAssumption DEF RemoveOnlineUser
  <2> QED
    BY <1>7, <2>1, RemovalSafe DEF RemoveOnlineUser
<1>8. ASSUME NEW s \in mutex, SendToUserPush(s) PROVE Goal
  <2>1. s.conn \in Conns /\ s.msg \in AnyFrame
    BY DEF IInv, TypeOK, SendCall
  <2> QED
    BY <1>8, <2>1, AppendSafe DEF SendToUserPush
<1>9. ASSUME NEW s \in mutex, SendToUserBroken(s) PROVE Goal
  <2>1. s.uid \in Users /\ s.conn \in Conns /\ online_users[s.uid] = s.conn
    BY DEF IInv, TypeOK, SendCall, CheckedEntryStable
  <2>2. sock[s.conn] # "open"
    BY <1>9, <2>1 DEF SendToUserBroken, IInv, OpenIsServed
  <2>3. \A c \in Conns : alive'[c] # alive[c] => sock[c] # "open"
    BY <1>9, <2>2 DEF SendToUserBroken, IInv, TypeOK
  <2> QED
    BY <1>9, <2>1, <2>2, <2>3, RemovalSafe DEF SendToUserBroken
<1>10. CASE UNCHANGED vars
  <2>1. \A d \in Conns : KickedSeen(d) => KickedSeen(d)'
    BY <1>10 DEF vars, KickedSeen
  <2>2. LiveIsReachable'
    BY <1>10, <2>1, ReachableKept DEF IInv, vars
  <2> QED
    BY <1>10, <2>2 DEF vars, tasks, IInv, CheckedEntryStable, FreshConn, OpenIsServed
<1> QED
  BY <1>1, <1>2, <1>3, <1>4, <1>5, <1>6, <1>7, <1>8, <1>9, <1>10
     DEF Next, ConnStep, SendFinish

LEMMA SafetyInvariant == Spec => []IInv
  BY SafetyInit, SafetyStep, PTL DEF Spec

\* send_to_user's cleanup always removes the entry it looked up.
THEOREM EntryStable == Spec => []CheckedEntryStable
<1>1. IInv => CheckedEntryStable
  BY DEF IInv
<1> QED
  BY <1>1, SafetyInvariant, PTL

\* Every client with an open socket is the one its user's frames go to, or has
\* been told it was kicked, or was logged out.
THEOREM NoSilentSession == Spec => []LiveIsReachable
<1>1. IInv => LiveIsReachable
  BY DEF IInv
<1> QED
  BY <1>1, SafetyInvariant, PTL

\* Lazy cleanup never takes a session offline that could still be delivered to.
THEOREM CleanupIsSafe == Spec => CleanupOnlyDead
<1>1. IInv /\ [Next]_vars => [CleanupStep]_vars
  <2> SUFFICES ASSUME IInv, Next, NEW u \in Users,
                      online_users[u] # NoConn, online_users'[u] = NoConn
               PROVE  ~alive'[online_users[u]] \/ online_users[u] \in loggedOut'
    BY DEF CleanupStep
  <2> USE DEF IInv
  <2>1. ASSUME NEW c \in Conns, ConnStep(c) PROVE FALSE
    <3>1. ASSUME InsertOnlineUser(c) PROVE FALSE
      BY <3>1, OnlineUsersAssumption DEF InsertOnlineUser, TypeOK
    <3>2. ASSUME ~InsertOnlineUser(c) PROVE FALSE
      BY <2>1, <3>2 DEF ConnStep, ClientClose, MainReply, MainExit, SyncPush, SyncDone,
           FwdStep, FwdWrite, FwdWriteLost, FwdWriteErr, FwdChannelClosed, FwdDropRx
    <3> QED
      BY <3>1, <3>2
  <2>2. ASSUME NEW v \in Users, NEW f \in AnyFrame, SendToUserCheck(v, f) PROVE FALSE
    BY <2>2 DEF SendToUserCheck
  <2>3. ASSUME NEW v \in Users, SendToUserDead(v) PROVE ~alive'[online_users[u]]
    BY <2>3 DEF SendToUserDead, TypeOK
  <2>4. ASSUME NEW v \in Users, RemoveOnlineUser(v)
        PROVE  online_users[u] \in loggedOut'
    BY <2>4 DEF RemoveOnlineUser, TypeOK
  <2>5. ASSUME NEW s \in mutex, SendToUserPush(s) PROVE FALSE
    BY <2>5 DEF SendToUserPush
  <2>6. ASSUME NEW s \in mutex, SendToUserBroken(s) PROVE ~alive'[online_users[u]]
    <3>1. s.uid \in Users /\ s.conn \in Conns /\ online_users[s.uid] = s.conn
      BY DEF TypeOK, SendCall, CheckedEntryStable
    <3> QED
      BY <2>6, <3>1 DEF SendToUserBroken, TypeOK
  <2> QED
    BY <2>1, <2>2, <2>3, <2>4, <2>5, <2>6 DEF Next, SendFinish
<1> QED
  BY <1>1, SafetyInvariant, PTL DEF Spec, CleanupOnlyDead
=============================================================================
