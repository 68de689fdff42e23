--------------------------- MODULE GroupChatProofs ---------------------------
(* Safety of the delivery of one group's messages for any number of users,   *)
(* connections, messages, resends, departures, restarts and failures.        *)
EXTENDS GroupChat, TLAPS, SequenceTheorems, FiniteSetTheorems

-----------------------------------------------------------------------------
(* Types                                                                   *)

LEMMA TypeInit == Init => TypeOK
<1> SUFFICES ASSUME Init PROVE TypeOK
  OBVIOUS
<1>1. /\ rows \in Seq(Msgs) /\ Len(rows) = 0
      /\ up \in [Conns -> Seq(Request)] /\ chan \in [Conns -> Seq(Frame)]
  BY DEF Init
<1>2. /\ task \in [Conns -> Working] /\ sync \in [Conns -> Syncing]
      /\ hist \in [Users -> Loading]
  BY DEF Init, Idle, NoSync, Working, Syncing, Loading
<1>3. sends \in [Msgs -> 0..MaxSends] /\ leaves \in 0..MaxLeaves /\ crashes \in 0..MaxCrashes
  BY GroupChatAssumption DEF Init
<1>4. recv \in [Users -> SUBSET Msgs] /\ joined \in [Users -> 0..Len(rows)]
      /\ cursor \in [Users -> 0..Len(rows)]
  BY <1>1 DEF Init
<1> QED
  BY <1>1, <1>2, <1>3, <1>4 DEF Init, TypeOK

\* The first n numbers are n.
LEMMA UpTo ==
    ASSUME NEW n \in Nat
    PROVE  IsFiniteSet(1..n) /\ Cardinality(1..n) = n
<1>1. 1 \in Int /\ n \in Int
  OBVIOUS
<1>2. IsFiniteSet(1..n) /\ Cardinality(1..n) = IF 1 > n THEN 0 ELSE n - 1 + 1
  BY ONLY <1>1, FS_Interval
<1> QED
  BY <1>2

LEMMA RowsTyped ==
    ASSUME TypeOK
    PROVE  /\ Len(rows) \in Nat /\ Ids = 1..Len(rows) /\ Ids \in SUBSET Nat
           /\ \A i \in Ids : rows[i] \in Msgs
           /\ \A u \in Users : Backlog(u) \in SUBSET Nat /\ IsFiniteSet(Backlog(u))
                               /\ Cardinality(Backlog(u)) \in Nat
<1>1. Len(rows) \in Nat /\ Ids = 1..Len(rows) /\ rows \in [1..Len(rows) -> Msgs]
  BY LenProperties DEF TypeOK, Ids
<1>2. IsFiniteSet(Ids) /\ \A u \in Users : Backlog(u) \in SUBSET Ids
  BY <1>1, UpTo DEF Backlog
<1>3. \A u \in Users : IsFiniteSet(Backlog(u))
  BY <1>2, FS_Subset
<1> QED
  BY <1>1, <1>2, <1>3, FS_CardinalityType

\* Rows are never removed, so that what names them stays of its type.
LEMMA TypesGrow ==
    ASSUME Ids \subseteq Ids'
    PROVE  /\ Working \subseteq Working' /\ Syncing \subseteq Syncing'
           /\ Loading \subseteq Loading'
           /\ [Conns -> Working] \subseteq [Conns -> Working']
           /\ [Conns -> Syncing] \subseteq [Conns -> Syncing']
           /\ [Users -> Loading] \subseteq [Users -> Loading']
<1>1. Seq(Ids) \subseteq Seq(Ids')
  BY SeqMonotonic
<1>2. Working \subseteq Working' /\ Syncing \subseteq Syncing' /\ Loading \subseteq Loading'
  BY <1>1 DEF Working, Syncing, Loading
<1> QED
  BY <1>2

LEMMA TypesStay ==
    ASSUME UNCHANGED rows
    PROVE  /\ Ids' = Ids /\ Working' = Working /\ Syncing' = Syncing /\ Loading' = Loading
  BY DEF Ids, Working, Syncing, Loading

LEMMA ReplyType ==
    ASSUME TypeOK, NEW c \in Conns, NEW fs \in Seq(Frame), Reply(c, fs)
    PROVE  chan' \in [Conns -> Seq(Frame)]
<1>1. chan[c] \o fs \in Seq(Frame)
  BY ConcatProperties DEF TypeOK
<1> QED
  BY <1>1 DEF TypeOK, Reply

LEMMA SendType ==
    ASSUME TypeOK, NEW u \in Users, NEW f \in Frame, SendToUser(u, f)
    PROVE  /\ chan' \in [Conns -> Seq(Frame)]
           /\ online' \in [Users -> Conns \cup {NoConn}]
           /\ \A v \in Users : online'[v] # NoConn => UserOf[online'[v]] = v
<1>1. <<f>> \in Seq(Frame)
  OBVIOUS
<1> QED
  BY <1>1, ReplyType DEF TypeOK, SendToUser

LEMMA ConnectionTypes ==
    ASSUME TypeOK, NEW c \in Conns, Connect(c) \/ Disconnect(c)
    PROVE  TypeOK'
<1> USE DEF db, net, page, bounds
<1>1. CASE Connect(c)
  <2>1. sync' \in [Conns -> Syncing]
    BY <1>1 DEF Connect, TypeOK, Syncing
  <2> QED
    BY <1>1, <2>1, TypesStay, GroupChatAssumption DEF Connect, TypeOK
<1>2. CASE Disconnect(c)
  <2>1. \A n \in 0..Len(up[c]) : SubSeq(up[c], 1, n) \in Seq(Request)
    BY SubSeqProperties, ElementOfSeq DEF TypeOK
  <2> QED
    BY <1>2, <2>1, TypesStay DEF Disconnect, TypeOK
<1> QED
  BY <1>1, <1>2

LEMMA MemberTypes ==
    ASSUME TypeOK, NEW u \in Users, LeaveGroup(u) \/ JoinGroup(u)
    PROVE  TypeOK'
<1> USE DEF db, net, page, bounds
<1>1. Len(rows) \in 0..Len(rows)
  BY RowsTyped
<1>2. CASE LeaveGroup(u)
  <2>1. members' \subseteq Users /\ leaves' \in 0..MaxLeaves
    BY <1>2, GroupChatAssumption DEF LeaveGroup, TypeOK
  <2> QED
    BY <1>2, <2>1, TypesStay DEF LeaveGroup, TypeOK
<1>3. CASE JoinGroup(u)
  <2>1. members' \subseteq Users /\ joined' \in [Users -> 0..Len(rows)]
    BY <1>1, <1>3 DEF JoinGroup, TypeOK
  <2> QED
    BY <1>3, <2>1, TypesStay DEF JoinGroup, TypeOK
<1> QED
  BY <1>2, <1>3

LEMMA CrashTypes == TypeOK /\ Crash => TypeOK'
<1> SUFFICES ASSUME TypeOK, Crash PROVE TypeOK'
  OBVIOUS
<1> USE DEF db, net, page, bounds
<1>1. /\ task' \in [Conns -> Working] /\ sync' \in [Conns -> Syncing]
      /\ hist' \in [Users -> Loading]
      /\ up' \in [Conns -> Seq(Request)] /\ chan' \in [Conns -> Seq(Frame)]
  BY DEF Crash, Idle, NoSync, Working, Syncing, Loading
<1> QED
  BY <1>1, TypesStay, GroupChatAssumption DEF Crash, TypeOK

LEMMA TaskTypes ==
    ASSUME TypeOK, NEW c \in Conns, TaskStep(c)
    PROVE  TypeOK'
<1> USE DEF db, net, page, bounds
<1>0. /\ task[c] \in Working /\ task \in [Conns -> Working] /\ Idle \in Working
      /\ UserOf[c] \in Users
      /\ task[c].pc \in {"group_chat", "persist"} => task[c].key \in Msgs
      /\ task[c].pc \in {"ack", "members", "push"} => task[c].id \in Ids
      /\ task[c].pc = "push" => task[c].to \subseteq Users
      /\ task[c].pc = "upsert" => task[c].latest \in Ids
  BY GroupChatAssumption DEF TypeOK, Working, Request, Idle
<1>1. CASE TakeFrame(c)
  <2>1. up[c] \in Seq(Request) /\ up[c] # <<>>
    BY <1>1 DEF TakeFrame, TypeOK
  <2>2. Head(up[c]) \in Request /\ Tail(up[c]) \in Seq(Request)
    BY <2>1, HeadTailProperties
  <2>3. task' \in [Conns -> Working] /\ up' \in [Conns -> Seq(Request)]
    BY <1>1, <2>2 DEF TakeFrame, Goto, TypeOK, Working
  <2> QED
    BY <1>1, <2>3, TypesStay DEF TakeFrame, TypeOK
<1>2. CASE CheckMember(c)
  <2> DEFINE f == [cmd |-> "error", key |-> task[c].key]
             fs == <<f>>
  <2>1. task[c].key \in Msgs /\ [pc |-> "persist", key |-> task[c].key] \in Working
    BY <1>0, <1>2 DEF CheckMember, Working
  <2>2. f \in Frame /\ fs \in Seq(Frame)
    BY <2>1 DEF Frame
  <2>3. UNCHANGED chan \/ Reply(c, fs)
    BY <1>2 DEF CheckMember
  <2>4. chan' \in [Conns -> Seq(Frame)]
    <3> HIDE DEF f, fs
    <3> QED
      BY <2>2, <2>3, ReplyType DEF TypeOK
  <2>5. task' \in [Conns -> Working]
    BY <1>0, <1>2, <2>1 DEF CheckMember, Goto
  <2> QED
    BY <1>2, <2>4, <2>5, TypesStay DEF CheckMember, TypeOK
<1>3. CASE PersistMessage(c)
  <2>1. CASE UNCHANGED rows
    <3>1. PICK i \in Ids : task' = [task EXCEPT ![c] = [pc |-> "ack", id |-> i]]
      <4>1. rows # Append(rows, task[c].key)
        BY <1>0, <1>3, AppendProperties, LenProperties DEF PersistMessage, TypeOK
      <4> QED
        BY <1>3, <2>1, <4>1 DEF PersistMessage, Goto, RowsOf
    <3>2. [pc |-> "ack", id |-> i] \in Working
      BY DEF Working
    <3>3. task' \in [Conns -> Working]
      BY <1>0, <3>1, <3>2
    <3> QED
      BY <1>3, <2>1, <3>3, TypesStay DEF PersistMessage, TypeOK
  <2>2. CASE /\ rows' = Append(rows, task[c].key)
             /\ task' = [task EXCEPT ![c] = [pc |-> "ack", id |-> Len(rows) + 1]]
    <3>1. task[c].key \in Msgs
      BY <1>0, <1>3 DEF PersistMessage
    <3>2. /\ rows' \in Seq(Msgs)
          /\ Len(rows) \in Nat /\ Len(rows') = Len(rows) + 1
          /\ Ids = 1..Len(rows) /\ Ids' = 1..Len(rows')
      BY <2>2, <3>1, AppendProperties, LenProperties DEF TypeOK, Ids
    <3>3. Ids \subseteq Ids' /\ Len(rows) + 1 \in Ids'
      BY <3>2
    <3>4. [pc |-> "ack", id |-> Len(rows) + 1] \in Working'
      BY <3>3 DEF Working
    <3>5. task' \in [Conns -> Working'] /\ sync' \in [Conns -> Syncing'] /\ hist' \in [Users -> Loading']
      <4>1. task \in [Conns -> Working'] /\ sync \in [Conns -> Syncing'] /\ hist \in [Users -> Loading']
        BY <3>3, TypesGrow DEF TypeOK
      <4> QED
        BY <1>3, <2>2, <3>4, <4>1 DEF PersistMessage
    <3>6. joined \in [Users -> 0..Len(rows')] /\ cursor \in [Users -> 0..Len(rows')]
      BY <3>2 DEF TypeOK
    <3> QED
      BY <1>3, <3>2, <3>3, <3>5, <3>6 DEF PersistMessage, TypeOK
  <2> QED
    BY <1>3, <2>1, <2>2 DEF PersistMessage, Goto
<1>4. CASE PersistFails(c)
  <2> DEFINE f == [cmd |-> "error", key |-> task[c].key]
             fs == <<f>>
  <2>1. f \in Frame /\ fs \in Seq(Frame)
    BY <1>0, <1>4 DEF PersistFails, Frame
  <2>2. Reply(c, fs)
    BY <1>4 DEF PersistFails
  <2>3. chan' \in [Conns -> Seq(Frame)]
    <3> HIDE DEF f, fs
    <3> QED
      BY <2>1, <2>2, ReplyType
  <2>4. task' \in [Conns -> Working]
    BY <1>0, <1>4 DEF PersistFails, Goto
  <2> QED
    BY <1>4, <2>3, <2>4, TypesStay DEF PersistFails, TypeOK
<1>5. CASE AckSender(c)
  <2> DEFINE f == [cmd |-> "group_chat_ack", key |-> rows[task[c].id]]
             fs == <<f>>
  <2>1. f \in Frame /\ fs \in Seq(Frame)
    BY <1>0, <1>5, RowsTyped DEF AckSender, Frame
  <2>2. Reply(c, fs)
    BY <1>5 DEF AckSender
  <2>3. chan' \in [Conns -> Seq(Frame)]
    <3> HIDE DEF f, fs
    <3> QED
      BY <2>1, <2>2, ReplyType
  <2>4. [pc |-> "members", id |-> task[c].id] \in Working
    BY <1>0, <1>5 DEF AckSender, Working
  <2>5. task' \in [Conns -> Working]
    BY <1>0, <1>5, <2>4 DEF AckSender, Goto
  <2> QED
    BY <1>5, <2>3, <2>5, TypesStay DEF AckSender, TypeOK
<1>6. ASSUME NEW to \in SUBSET Users, NEW i \in Ids, PushNext(c, i, to)
      PROVE  task' \in [Conns -> Working]
  <2>1. to # {} => to \in (SUBSET Users) \ {{}}
    OBVIOUS
  <2>2. to # {} => [pc |-> "push", id |-> i, to |-> to]
                        \in [pc : {"push"}, id : Ids, to : (SUBSET Users) \ {{}}]
    BY <2>1
  <2>3. to # {} => [pc |-> "push", id |-> i, to |-> to] \in Working
    BY <2>2 DEF Working
  <2> QED
    BY <1>0, <1>6, <2>3 DEF PushNext, Goto
<1>7. CASE SelectMembers(c)
  <2>1. task' \in [Conns -> Working]
    BY <1>0, <1>6, <1>7 DEF SelectMembers, TypeOK
  <2> QED
    BY <1>7, <2>1, TypesStay DEF SelectMembers, TypeOK
<1>8. CASE SelectMembersFails(c)
  <2>1. task' \in [Conns -> Working] /\ unpushed' \subseteq Ids
    BY <1>0, <1>8 DEF SelectMembersFails, Goto, TypeOK
  <2> QED
    BY <1>8, <2>1, TypesStay DEF SelectMembersFails, TypeOK
<1>9. ASSUME NEW v \in Users, PushToMember(c, v) PROVE TypeOK'
  <2>1. task[c].id \in Ids /\ task[c].to \ {v} \in SUBSET Users
    BY <1>0, <1>9 DEF PushToMember
  <2>2. task' \in [Conns -> Working]
    BY <1>6, <1>9, <2>1 DEF PushToMember
  <2>3. Push(task[c].id) \in Frame /\ SendToUser(v, Push(task[c].id))
    BY <1>9, <2>1, RowsTyped DEF PushToMember, Push, Frame
  <2> QED
    BY <1>9, <2>2, <2>3, SendType, TypesStay DEF PushToMember, TypeOK
<1>10. CASE CheckMemberFails(c) \/ MarkFails(c)
  <2>1. task' \in [Conns -> Working]
    BY <1>0, <1>10 DEF CheckMemberFails, MarkFails, Goto
  <2> QED
    BY <1>10, <2>1, TypesStay DEF CheckMemberFails, MarkFails, TypeOK
<1>11. CASE MarkLatest(c)
  <2>1. rows # <<>> => Len(rows) \in Ids
    BY RowsTyped, EmptySeq DEF TypeOK
  <2>2. rows # <<>> => [pc |-> "upsert", latest |-> Len(rows)] \in Working
    BY <2>1 DEF Working
  <2>3. task' \in [Conns -> Working]
    BY <1>0, <1>11, <2>2 DEF MarkLatest, Goto
  <2> QED
    BY <1>11, <2>3, TypesStay DEF MarkLatest, TypeOK
<1>12. CASE MarkUpsert(c)
  <2>1. task' \in [Conns -> Working]
    BY <1>0, <1>12 DEF MarkUpsert, Goto
  <2>2. task[c].latest \in 0..Len(rows)
    BY <1>0, <1>12, RowsTyped DEF MarkUpsert
  <2>3. cursor' \in [Users -> 0..Len(rows)]
    BY <1>0, <1>12, <2>2 DEF MarkUpsert, Moved, TypeOK
  <2> QED
    BY <1>12, <2>1, <2>3, TypesStay DEF MarkUpsert, TypeOK
<1> QED
  BY <1>1, <1>2, <1>3, <1>4, <1>5, <1>7, <1>8, <1>9, <1>10, <1>11, <1>12 DEF TaskStep

\* The backlog as the pushes that carry it.
LEMMA PushesTyped ==
    ASSUME TypeOK, NEW ids \in Seq(Ids)
    PROVE  [n \in DOMAIN ids |-> Push(ids[n])] \in Seq(Frame)
<1> DEFINE pushes == [n \in DOMAIN ids |-> Push(ids[n])]
<1>1. \E n \in Nat : DOMAIN ids = 1..n
  BY LenProperties
<1>2. \A n \in DOMAIN ids : ids[n] \in Ids
  BY LenProperties
<1>3. \A n \in DOMAIN ids : Push(ids[n]) \in Frame
  BY <1>2, RowsTyped DEF Push, Frame
<1>4. pushes \in UNION {[1..n -> Frame] : n \in Nat}
  BY <1>1, <1>3
<1> QED
  BY <1>4, SeqDef

LEMMA SyncTypes ==
    ASSUME TypeOK, NEW c \in Conns, SyncStep(c)
    PROVE  TypeOK'
<1> USE DEF db, net, page, bounds
<1>0. UserOf[c] \in Users
  BY GroupChatAssumption
<1>1. CASE SyncSelect(c)
  <2> DEFINE S == Backlog(UserOf[c])
  <2>1. PICK ids \in Ordered(S), room \in Room(S) : sync' = [sync EXCEPT ![c] = [pc |-> "push",
            ids |-> [n \in {m \in DOMAIN ids : m <= room} |-> ids[n]]]]
    BY <1>1 DEF SyncSelect
  <2> DEFINE D == {m \in DOMAIN ids : m <= room}
             batch == [n \in D |-> ids[n]]
  <2>2. /\ ids \in [1..Cardinality(S) -> S] /\ Cardinality(S) \in Nat
    BY <1>0, RowsTyped DEF Ordered
  <2>3. \E k \in Nat : D = 1..k
    <3> HIDE DEF S
    <3>0. room \in Nat
      BY <2>2, GroupChatAssumption DEF Room
    <3>1. CASE Cardinality(S) <= room
      BY <2>2, <3>0, <3>1
    <3>2. CASE ~(Cardinality(S) <= room)
      <4>1. D = 1..room
        BY <2>2, <3>0, <3>2
      <4> QED
        BY <3>0, <4>1
    <3> QED
      BY <3>1, <3>2
  <2>4. \A n \in D : ids[n] \in Ids
    BY <2>2 DEF Backlog
  <2>5. batch \in UNION {[1..k -> Ids] : k \in Nat}
    BY <2>3, <2>4
  <2>6. [pc |-> "push", ids |-> batch] \in Syncing
    BY <2>5, SeqDef DEF Syncing
  <2>7. sync' \in [Conns -> Syncing]
    BY <2>1, <2>6 DEF TypeOK
  <2> QED
    BY <1>1, <2>7, TypesStay DEF SyncSelect, TypeOK
<1>2. CASE SyncFails(c)
  <2>1. sync' \in [Conns -> Syncing]
    BY <1>2 DEF SyncFails, Syncing, TypeOK
  <2> QED
    BY <1>2, <2>1, TypesStay DEF SyncFails, TypeOK
<1>3. CASE SyncPush(c)
  <2> DEFINE pushes == [n \in DOMAIN sync[c].ids |-> Push(sync[c].ids[n])]
  <2>1. sync[c].ids \in Seq(Ids)
    BY <1>3 DEF SyncPush, TypeOK, Syncing
  <2>2. pushes \in Seq(Frame) /\ Reply(c, pushes)
    BY <1>3, <2>1, PushesTyped DEF SyncPush
  <2>3. chan' \in [Conns -> Seq(Frame)]
    <3> HIDE DEF pushes
    <3> QED
      BY <2>2, ReplyType
  <2>4. sync' \in [Conns -> Syncing]
    BY <1>3 DEF SyncPush, TypeOK, Syncing, NoSync
  <2> QED
    BY <1>3, <2>3, <2>4, TypesStay DEF SyncPush, TypeOK
<1> QED
  BY <1>1, <1>2, <1>3 DEF SyncStep

LEMMA HistoryTypes ==
    ASSUME TypeOK, NEW u \in Users, OpenGroupChat(u) \/ CloseGroupChat(u) \/ HistStep(u)
    PROVE  TypeOK'
<1> USE DEF db, net, page, bounds
<1>0. /\ hist[u] \in Loading /\ hist \in [Users -> Loading] /\ Idle \in Loading
      /\ hist[u].pc \in {"latest", "upsert", "respond"} => hist[u].keys \in SUBSET Msgs
      /\ hist[u].pc = "upsert" => hist[u].latest \in Ids
  BY DEF TypeOK, Loading, Idle
<1>1. CASE OpenGroupChat(u)
  <2>1. [pc |-> "select"] \in Loading
    BY DEF Loading
  <2>2. hist' \in [Users -> Loading] /\ viewing' \subseteq Users
    BY <1>0, <1>1, <2>1 DEF OpenGroupChat, HistGoto, TypeOK
  <2> QED
    BY <1>1, <2>2, TypesStay DEF OpenGroupChat, TypeOK
<1>7. CASE CloseGroupChat(u)
  <2>1. viewing' \subseteq Users
    BY <1>7 DEF CloseGroupChat, TypeOK
  <2> QED
    BY <1>7, <2>1, TypesStay DEF CloseGroupChat, TypeOK
<1>2. CASE HistSelect(u)
  <2>1. {rows[i] : i \in Ids} \in SUBSET Msgs
    BY RowsTyped
  <2>2. [pc |-> "latest", keys |-> {rows[i] : i \in Ids}] \in Loading
    BY <2>1 DEF Loading
  <2>3. hist' \in [Users -> Loading]
    BY <1>0, <1>2, <2>2 DEF HistSelect, HistGoto
  <2> QED
    BY <1>2, <2>3, TypesStay DEF HistSelect, TypeOK
<1>3. CASE HistLatest(u)
  <2>1. rows # <<>> => Len(rows) \in Ids
    BY RowsTyped, EmptySeq DEF TypeOK
  <2>2. /\ rows # <<>> => [pc |-> "upsert", keys |-> hist[u].keys, latest |-> Len(rows)] \in Loading
        /\ [hist[u] EXCEPT !.pc = "respond"] \in Loading
    BY <1>0, <1>3, <2>1 DEF HistLatest, Loading
  <2>3. hist' \in [Users -> Loading]
    BY <1>0, <1>3, <2>2 DEF HistLatest, HistGoto
  <2> QED
    BY <1>3, <2>3, TypesStay DEF HistLatest, TypeOK
<1>4. CASE HistUpsert(u)
  <2>1. [pc |-> "respond", keys |-> hist[u].keys] \in Loading
    BY <1>0, <1>4 DEF HistUpsert, Loading
  <2>2. hist' \in [Users -> Loading]
    BY <1>0, <1>4, <2>1 DEF HistUpsert, HistGoto
  <2>3. cursor' \in [Users -> 0..Len(rows)]
    BY <1>0, <1>4, RowsTyped DEF HistUpsert, Moved, TypeOK
  <2> QED
    BY <1>4, <2>2, <2>3, TypesStay DEF HistUpsert, TypeOK
<1>5. CASE HistMarkFails(u) \/ HistAborts(u)
  <2>1. hist[u].pc \in {"latest", "upsert"} => [pc |-> "respond", keys |-> hist[u].keys] \in Loading
    BY <1>0 DEF Loading
  <2>2. hist' \in [Users -> Loading]
    BY <1>0, <1>5, <2>1 DEF HistMarkFails, HistAborts, HistGoto
  <2> QED
    BY <1>5, <2>2, TypesStay DEF HistMarkFails, HistAborts, TypeOK
<1>6. CASE HistRespond(u)
  <2>1. hist' \in [Users -> Loading] /\ recv' \in [Users -> SUBSET Msgs]
    BY <1>0, <1>6 DEF HistRespond, HistGoto, TypeOK
  <2> QED
    BY <1>6, <2>1, TypesStay DEF HistRespond, TypeOK
<1> QED
  BY <1>1, <1>2, <1>3, <1>4, <1>5, <1>6, <1>7 DEF HistStep

LEMMA PageTypes ==
    ASSUME TypeOK, NEW c \in Conns,
           ClientRead(c) \/ \E k \in Msgs : SendGroupMessage(c, k)
    PROVE  TypeOK'
<1> USE DEF db, net, page, bounds
<1>1. ASSUME NEW k \in Msgs, SendGroupMessage(c, k) PROVE TypeOK'
  <2>1. Append(up[c], [pc |-> "group_chat", key |-> k]) \in Seq(Request)
    BY AppendProperties DEF TypeOK, Request
  <2>2. up' \in [Conns -> Seq(Request)] /\ sends' \in [Msgs -> 0..MaxSends]
    BY <1>1, <2>1, GroupChatAssumption DEF SendGroupMessage, TypeOK
  <2> QED
    BY <1>1, <2>2, TypesStay DEF SendGroupMessage, TypeOK
<1>2. CASE ClientRead(c)
  <2>1. /\ chan[c] \in Seq(Frame) /\ chan[c] # <<>>
        /\ chan' = [chan EXCEPT ![c] = Tail(@)]
        /\ UNCHANGED <<db, online, sock, task, sync, hist, viewing, sends, unpushed, bounds>>
    BY <1>2 DEF TypeOK, ClientRead, HandleGroupPush, HandleGroupAck, IgnoreError, Took
  <2>2. Head(chan[c]) \in Frame /\ Tail(chan[c]) \in Seq(Frame)
    BY <2>1, HeadTailProperties
  <2>5. chan' \in [Conns -> Seq(Frame)]
    BY <2>1, <2>2 DEF TypeOK
  <2>6. Head(chan[c]).key \in Msgs /\ UserOf[c] \in Users
    BY <2>2, GroupChatAssumption DEF Frame
  <2>3. Append(up[c], [pc |-> "mark_group_read"]) \in Seq(Request)
    BY AppendProperties DEF TypeOK, Request
  <2>4. /\ up' \in [Conns -> Seq(Request)] /\ recv' \in [Users -> SUBSET Msgs]
        /\ acked' \subseteq Msgs
    <3>1. CASE HandleGroupPush(c)
      BY <3>1, <2>3, <2>6 DEF HandleGroupPush, TypeOK
    <3>2. CASE HandleGroupAck(c)
      BY <3>2, <2>6 DEF HandleGroupAck, TypeOK
    <3>3. CASE IgnoreError(c)
      BY <3>3 DEF IgnoreError, TypeOK
    <3> QED
      BY <1>2, <3>1, <3>2, <3>3 DEF ClientRead
  <2> QED
    BY <2>1, <2>4, <2>5, TypesStay DEF TypeOK
<1> QED
  BY <1>1, <1>2

LEMMA TypeStep == TypeOK /\ [Next]_vars => TypeOK'
<1> SUFFICES ASSUME TypeOK, [Next]_vars PROVE TypeOK'
  OBVIOUS
<1>1. CASE UNCHANGED vars
  BY <1>1, TypesStay DEF vars, db, net, page, bounds, TypeOK
<1>2. ASSUME NEW c \in Conns, Connect(c) \/ Disconnect(c) PROVE TypeOK'
  BY <1>2, ConnectionTypes
<1>3. ASSUME NEW c \in Conns, TaskStep(c) \/ SyncStep(c) PROVE TypeOK'
  BY <1>3, TaskTypes, SyncTypes
<1>4. ASSUME NEW c \in Conns, ClientRead(c) \/ \E k \in Msgs : SendGroupMessage(c, k) PROVE TypeOK'
  BY <1>4, PageTypes
<1>5. ASSUME NEW u \in Users, LeaveGroup(u) \/ JoinGroup(u) PROVE TypeOK'
  BY <1>5, MemberTypes
<1>6. ASSUME NEW u \in Users, OpenGroupChat(u) \/ CloseGroupChat(u) \/ HistStep(u) PROVE TypeOK'
  BY <1>6, HistoryTypes
<1>7. CASE Crash
  BY <1>7, CrashTypes
<1> QED
  BY <1>1, <1>2, <1>3, <1>4, <1>5, <1>6, <1>7 DEF Next

\* Type correctness; ids, cursors and joined_at name rows that exist.
THEOREM TypeCorrect == Spec => []TypeOK
  BY TypeInit, TypeStep, PTL DEF Spec
-----------------------------------------------------------------------------
(* What a step does to the rows and to the frames                          *)

\* The one statement that adds a row, where it does.
Inserts(c) ==
    /\ PersistMessage(c) /\ RowsOf(task[c].key) = {}
    /\ rows' = Append(rows, task[c].key)
    /\ task' = [task EXCEPT ![c] = [pc |-> "ack", id |-> Len(rows) + 1]]

LEMMA RowChanges ==
    ASSUME [Next]_vars
    PROVE  UNCHANGED rows \/ \E c \in Conns : Inserts(c)
<1>1. ASSUME NEW c \in Conns, PersistMessage(c) PROVE UNCHANGED rows \/ Inserts(c)
  BY <1>1 DEF PersistMessage, Inserts, Goto
<1>2. UNCHANGED rows \/ \E c \in Conns : PersistMessage(c)
  BY DEF Next, vars, db, Connect, Disconnect, Crash, LeaveGroup, JoinGroup, TaskStep, TakeFrame,
         CheckMember, CheckMemberFails, PersistFails, AckSender, SelectMembers,
         SelectMembersFails, PushToMember, MarkLatest, MarkUpsert, MarkFails, SyncStep,
         SyncSelect, SyncFails, SyncPush, OpenGroupChat, CloseGroupChat, HistStep, HistSelect,
         HistLatest, HistUpsert, HistMarkFails, HistAborts, HistRespond, SendGroupMessage,
         ClientRead, HandleGroupPush, HandleGroupAck, IgnoreError, Took
<1> QED
  BY <1>1, <1>2

LEMMA InsertedRow ==
    ASSUME TypeOK, NEW c \in Conns, Inserts(c)
    PROVE  /\ Len(rows) + 1 \notin Ids /\ Ids' = Ids \cup {Len(rows) + 1}
           /\ rows'[Len(rows) + 1] = task[c].key
           /\ \A i \in Ids : rows'[i] = rows[i]
           /\ task'[c] = [pc |-> "ack", id |-> Len(rows) + 1]
           /\ \A d \in Conns \ {c} : task'[d] = task[d]
<1>1. task[c].key \in Msgs
  BY DEF Inserts, PersistMessage, TypeOK, Working, Request
<1>2. /\ Len(rows) \in Nat /\ Ids = 1..Len(rows) /\ Ids' = 1..Len(rows) + 1
      /\ rows'[Len(rows) + 1] = task[c].key
      /\ \A i \in 1..Len(rows) : rows'[i] = rows[i]
  BY <1>1, AppendProperties, LenProperties DEF Inserts, TypeOK, Ids
<1> QED
  BY <1>2 DEF Inserts, TypeOK

\* Rows keep their number and message.
LEMMA RowsKeep ==
    ASSUME TypeOK, [Next]_vars
    PROVE  Ids \subseteq Ids' /\ \A i \in Ids : rows'[i] = rows[i]
<1>1. CASE UNCHANGED rows
  BY <1>1 DEF Ids
<1> QED
  BY <1>1, RowChanges, InsertedRow

\* A reply leaves the frames before it in place.
LEMMA ReplyFrames ==
    ASSUME TypeOK, NEW c \in Conns, NEW fs \in Seq(Frame), Reply(c, fs), NEW d \in Conns
    PROVE  /\ Frames(d) \subseteq Frames(d)'
           /\ \A f \in Frames(d)' \ Frames(d) :
                d = c /\ \E m \in 1..Len(fs) : f = fs[m]
           /\ sock[c] = "open" => \A m \in 1..Len(fs) : fs[m] \in Frames(c)'
<1>1. chan[c] \in Seq(Frame) /\ chan \in [Conns -> Seq(Frame)]
  BY DEF TypeOK
<1>2. CASE sock[c] = "open"
  <2>1. chan'[c] = chan[c] \o fs /\ \A e \in Conns \ {c} : chan'[e] = chan[e]
    BY <1>1, <1>2 DEF Reply
  <2>2. /\ Len(chan[c]) \in Nat /\ Len(fs) \in Nat
        /\ DOMAIN chan[c] = 1..Len(chan[c]) /\ DOMAIN chan'[c] = 1..Len(chan[c]) + Len(fs)
        /\ \A m \in 1..Len(chan[c]) + Len(fs) :
             chan'[c][m] = IF m <= Len(chan[c]) THEN chan[c][m] ELSE fs[m - Len(chan[c])]
    <3>1. chan'[c] \in Seq(Frame)
      BY <1>1, <2>1, ConcatProperties
    <3> QED
      BY <1>1, <2>1, <3>1, ConcatProperties, LenProperties
  <2>3. \A m \in DOMAIN chan[c] : m \in DOMAIN chan'[c] /\ chan'[c][m] = chan[c][m]
    BY <2>2
  <2>4. \A m \in 1..Len(fs) : /\ Len(chan[c]) + m \in DOMAIN chan'[c]
                              /\ chan'[c][Len(chan[c]) + m] = fs[m]
    BY <2>2
  <2>5. \A m \in 1..Len(fs) : fs[m] \in Frames(c)'
    <3> SUFFICES ASSUME NEW m \in 1..Len(fs) PROVE fs[m] \in {chan'[c][n] : n \in DOMAIN chan'[c]}
      BY DEF Frames
    <3> QED
      BY <2>4
  <2>6. Frames(c) \subseteq Frames(c)'
    BY <2>3 DEF Frames
  <2>7. \A f \in Frames(c)' \ Frames(c) : \E m \in 1..Len(fs) : f = fs[m]
    <3> SUFFICES ASSUME NEW n \in DOMAIN chan'[c], chan'[c][n] \notin Frames(c)
                 PROVE  \E m \in 1..Len(fs) : chan'[c][n] = fs[m]
      BY DEF Frames
    <3>1. ~(n <= Len(chan[c])) /\ n \in 1..Len(chan[c]) + Len(fs)
      BY <2>2 DEF Frames
    <3>2. n - Len(chan[c]) \in 1..Len(fs) /\ chan'[c][n] = fs[n - Len(chan[c])]
      BY <2>2, <3>1
    <3> QED
      BY <3>2
  <2>8. d # c => Frames(d) = Frames(d)'
    BY <2>1 DEF Frames
  <2> QED
    BY <2>5, <2>6, <2>7, <2>8
<1>3. CASE sock[c] # "open"
  BY <1>3 DEF Reply, Frames
<1> QED
  BY <1>2, <1>3

LEMMA SendFrames ==
    ASSUME TypeOK, NEW u \in Users, NEW f \in Frame, SendToUser(u, f), NEW d \in Conns
    PROVE  /\ Frames(d) \subseteq Frames(d)'
           /\ Frames(d)' \subseteq Frames(d) \cup {f}
           /\ online[u] # NoConn /\ sock[online[u]] = "open" =>
                f \in Frames(online[u])' /\ UNCHANGED online
           /\ \A v \in Users : online'[v] = online[v] \/ v = u
<1>1. CASE online[u] # NoConn /\ sock[online[u]] = "open"
  <2> DEFINE fs == <<f>>
  <2>1. online[u] \in Conns /\ fs \in Seq(Frame) /\ Reply(online[u], fs) /\ UNCHANGED online
    BY <1>1 DEF SendToUser, TypeOK
  <2>2. Len(fs) = 1 /\ fs[1] = f
    OBVIOUS
  <2> HIDE DEF fs
  <2>3. 1 \in 1..Len(fs) /\ \A m \in 1..Len(fs) : fs[m] = f
    BY <2>2
  <2> QED
    BY <1>1, <2>1, <2>2, <2>3, ReplyFrames
<1>2. CASE ~(online[u] # NoConn /\ sock[online[u]] = "open")
  BY <1>2 DEF SendToUser, Frames, TypeOK
<1> QED
  BY <1>1, <1>2

\* An answer of one frame.
LEMMA AnswerFrames ==
    ASSUME TypeOK, NEW c \in Conns, NEW f \in Frame, Reply(c, <<f>>), NEW d \in Conns
    PROVE  /\ Frames(d) \subseteq Frames(d)'
           /\ \A g \in Frames(d)' \ Frames(d) : d = c /\ g = f
<1> DEFINE fs == <<f>>
<1>1. fs \in Seq(Frame) /\ Len(fs) = 1 /\ fs[1] = f /\ Reply(c, fs)
  OBVIOUS
<1> HIDE DEF fs
<1>2. \A m \in 1..Len(fs) : fs[m] = f
  BY <1>1
<1> QED
  BY <1>1, <1>2, ReplyFrames

\* A task that queues a frame: an error, the ack of the row it stored, or a push.
LEMMA TaskFrames ==
    ASSUME TypeOK, NEW c \in Conns, TaskStep(c), NEW d \in Conns
    PROVE  /\ Frames(d) \subseteq Frames(d)'
           /\ \A g \in Frames(d)' \ Frames(d) :
                \/ g.cmd \in {"error", "group_push"}
                \/ task[c].pc = "ack" /\ task[c].id \in Ids /\ g.key = rows[task[c].id]
<1>1. /\ task[c].pc \in {"group_chat", "persist"} => task[c].key \in Msgs
      /\ task[c].pc \in {"ack", "push"} => task[c].id \in Ids /\ rows[task[c].id] \in Msgs
  BY RowsTyped DEF TypeOK, Working, Request
<1>2. CASE UNCHANGED chan
  BY <1>2 DEF Frames
<1>3. ASSUME NEW k \in Msgs, Reply(c, <<[cmd |-> "error", key |-> k]>>)
      PROVE  /\ Frames(d) \subseteq Frames(d)'
             /\ \A g \in Frames(d)' \ Frames(d) : g.cmd = "error"
  <2> DEFINE f == [cmd |-> "error", key |-> k]
  <2>1. f \in Frame /\ f.cmd = "error" /\ Reply(c, <<f>>)
    BY <1>3 DEF Frame
  <2> HIDE DEF f
  <2> QED
    BY <2>1, AnswerFrames
<1>4. CASE AckSender(c)
  <2> DEFINE f == [cmd |-> "group_chat_ack", key |-> rows[task[c].id]]
  <2>1. f \in Frame /\ f.key = rows[task[c].id] /\ Reply(c, <<f>>) /\ task[c].pc = "ack"
    BY <1>1, <1>4 DEF Frame, AckSender
  <2> HIDE DEF f
  <2>2. /\ Frames(d) \subseteq Frames(d)'
        /\ \A g \in Frames(d)' \ Frames(d) : g = f
    BY <2>1, AnswerFrames
  <2> QED
    BY <1>1, <2>1, <2>2
<1>5. ASSUME NEW v \in Users, PushToMember(c, v)
      PROVE  /\ Frames(d) \subseteq Frames(d)'
             /\ \A g \in Frames(d)' \ Frames(d) : g.cmd = "group_push"
  <2> DEFINE f == Push(task[c].id)
  <2>1. f \in Frame /\ f.cmd = "group_push" /\ SendToUser(v, f)
    BY <1>1, <1>5 DEF Frame, PushToMember, Push
  <2> HIDE DEF f
  <2> QED
    BY <2>1, SendFrames
<1>6. CASE CheckMember(c) \/ PersistFails(c)
  BY <1>1, <1>2, <1>3, <1>6 DEF CheckMember, PersistFails
<1> QED
  BY <1>2, <1>4, <1>5, <1>6
  DEF TaskStep, TakeFrame, CheckMemberFails, PersistMessage, SelectMembers,
      SelectMembersFails, MarkLatest, MarkUpsert, MarkFails, net

LEMMA SyncPushFrames ==
    ASSUME TypeOK, NEW c \in Conns, SyncPush(c), NEW d \in Conns
    PROVE  /\ Frames(d) \subseteq Frames(d)'
           /\ \A g \in Frames(d)' \ Frames(d) : g.cmd = "group_push"
           /\ sock[c] = "open" =>
                \A n \in DOMAIN sync[c].ids : rows[sync[c].ids[n]] \in PushedTo(c)'
<1> DEFINE pushes == [n \in DOMAIN sync[c].ids |-> Push(sync[c].ids[n])]
<1>1. sync[c].ids \in Seq(Ids)
  BY DEF SyncPush, TypeOK, Syncing
<1>2. pushes \in Seq(Frame)
  BY <1>1, PushesTyped
<1>3. Reply(c, pushes)
  BY DEF SyncPush
<1>4. \A n \in DOMAIN sync[c].ids : /\ n \in 1..Len(pushes)
                                    /\ pushes[n].cmd = "group_push"
                                    /\ pushes[n].key = rows[sync[c].ids[n]]
  BY <1>1, <1>2, LenProperties DEF Push
<1>5. \A m \in 1..Len(pushes) : pushes[m].cmd = "group_push"
  BY <1>2, LenProperties DEF Push
<1> HIDE DEF pushes
<1>6. /\ Frames(d) \subseteq Frames(d)'
      /\ \A f \in Frames(d)' \ Frames(d) :
           d = c /\ \E m \in 1..Len(pushes) : f = pushes[m]
      /\ sock[c] = "open" => \A m \in 1..Len(pushes) : pushes[m] \in Frames(c)'
  BY <1>2, <1>3, ReplyFrames
<1> QED
  BY <1>4, <1>5, <1>6 DEF PushedTo

\* The page takes the first frame of a queue.
LEMMA ReadFrames ==
    ASSUME TypeOK, NEW c \in Conns, ClientRead(c)
    PROVE  /\ Head(chan[c]) \in Frames(c) /\ Head(chan[c]) \in Frame
           /\ \A d \in Conns : Frames(d)' \subseteq Frames(d)
           /\ \A d \in Conns : \A f \in Frames(d) \ Frames(d)' : d = c /\ f = Head(chan[c])
<1>1. chan' = [chan EXCEPT ![c] = Tail(@)] /\ chan[c] \in Seq(Frame) /\ chan[c] # <<>>
  BY DEF ClientRead, HandleGroupPush, HandleGroupAck, IgnoreError, Took, TypeOK
<1>2. /\ DOMAIN chan[c] = 1..Len(chan[c]) /\ Len(chan[c]) \in Nat \ {0}
      /\ Head(chan[c]) \in Frame
      /\ Tail(chan[c]) \in Seq(Frame) /\ Len(Tail(chan[c])) = Len(chan[c]) - 1
      /\ DOMAIN Tail(chan[c]) = 1..Len(Tail(chan[c]))
      /\ \A i \in 1..Len(Tail(chan[c])) : Tail(chan[c])[i] = chan[c][i+1]
  BY <1>1, HeadTailProperties, LenProperties, EmptySeq
<1>3. /\ Head(chan[c]) = chan[c][1] /\ chan'[c] = Tail(chan[c])
      /\ \A d \in Conns \ {c} : chan'[d] = chan[d]
  BY <1>1 DEF TypeOK
<1>4. Head(chan[c]) \in Frames(c)
  BY <1>2, <1>3 DEF Frames
<1>5. Frames(c)' \subseteq Frames(c)
  <2> SUFFICES ASSUME NEW n \in DOMAIN chan'[c] PROVE chan'[c][n] \in Frames(c)
    BY DEF Frames
  <2>1. n + 1 \in DOMAIN chan[c] /\ chan'[c][n] = chan[c][n + 1]
    BY <1>2, <1>3
  <2> QED
    BY <2>1 DEF Frames
<1>6. \A f \in Frames(c) \ Frames(c)' : f = Head(chan[c])
  <2> SUFFICES ASSUME NEW n \in DOMAIN chan[c], chan[c][n] # Head(chan[c])
               PROVE  chan[c][n] \in Frames(c)'
    BY DEF Frames
  <2>1. n - 1 \in DOMAIN chan'[c] /\ chan'[c][n - 1] = chan[c][n]
    BY <1>2, <1>3
  <2> QED
    BY <2>1 DEF Frames
<1>7. \A d \in Conns \ {c} : Frames(d)' = Frames(d)
  BY <1>3 DEF Frames
<1> QED
  BY <1>2, <1>4, <1>5, <1>6, <1>7

\* Where frames come from and where they go.
LEMMA FramesStep ==
    ASSUME TypeOK, [Next]_vars, NEW d \in Conns
    PROVE  /\ \A g \in Frames(d)' \ Frames(d) :
                \/ g.cmd \in {"error", "group_push"}
                \/ \E i \in Ids : g.key = rows[i]
           /\ sock'[d] = "open" =>
                \A f \in Frames(d) : f \in Frames(d)' \/ (ClientRead(d) /\ f = Head(chan[d]))
<1>1. CASE UNCHANGED chan
  BY <1>1 DEF Frames
<1>2. CASE Crash \/ \E c \in Conns : Disconnect(c)
  <2>1. chan'[d] = chan[d] \/ (chan'[d] = <<>> /\ sock'[d] # "open")
    BY <1>2 DEF Crash, Disconnect, TypeOK
  <2>2. DOMAIN <<>> = {}
    OBVIOUS
  <2> QED
    BY <2>1, <2>2 DEF Frames
<1>3. ASSUME NEW c \in Conns, TaskStep(c) \/ SyncPush(c)
      PROVE  /\ \A g \in Frames(d)' \ Frames(d) :
                  \/ g.cmd \in {"error", "group_push"}
                  \/ \E i \in Ids : g.key = rows[i]
             /\ Frames(d) \subseteq Frames(d)'
  BY <1>3, TaskFrames, SyncPushFrames
<1>4. ASSUME NEW c \in Conns, ClientRead(c)
      PROVE  /\ Frames(d)' \subseteq Frames(d)
             /\ \A f \in Frames(d) : f \in Frames(d)' \/ (ClientRead(d) /\ f = Head(chan[d]))
  BY <1>4, ReadFrames
<1>5. \/ UNCHANGED chan \/ Crash
      \/ \E c \in Conns : Disconnect(c) \/ TaskStep(c) \/ SyncPush(c) \/ ClientRead(c)
  BY DEF Next, vars, net, Connect, LeaveGroup, JoinGroup, SyncStep, SyncSelect, SyncFails,
         OpenGroupChat, CloseGroupChat, HistStep, HistSelect, HistLatest, HistUpsert,
         HistMarkFails, HistAborts, HistRespond, SendGroupMessage
<1> QED
  BY <1>1, <1>2, <1>3, <1>4, <1>5

-----------------------------------------------------------------------------
(* An acked message is stored once                                         *)

Stored(k) == \E i \in Ids : rows[i] = k

KeysInv ==
    /\ \A i, j \in Ids : rows[i] = rows[j] => i = j
    /\ \A k \in acked : Stored(k)
    /\ \A c \in Conns : \A f \in Frames(c) : f.cmd = "group_chat_ack" => Stored(f.key)

LEMMA KeysStep == TypeOK /\ KeysInv /\ [Next]_vars => KeysInv'
<1> SUFFICES ASSUME TypeOK, KeysInv, [Next]_vars PROVE KeysInv'
  OBVIOUS
<1>1. Ids \subseteq Ids' /\ \A i \in Ids : rows'[i] = rows[i]
  BY RowsKeep
<1>2. \A k : Stored(k) => Stored(k)'
  BY <1>1 DEF Stored
<1>3. ASSUME NEW i \in Ids', NEW j \in Ids', rows'[i] = rows'[j] PROVE i = j
  <2>1. CASE UNCHANGED rows
    BY <1>3, <2>1 DEF KeysInv, Ids
  <2>2. ASSUME NEW c \in Conns, Inserts(c) PROVE i = j
    <3>1. /\ Ids' = Ids \cup {Len(rows) + 1} /\ rows'[Len(rows) + 1] = task[c].key
          /\ \A n \in Ids : rows'[n] = rows[n] /\ rows[n] # task[c].key
      BY <2>2, InsertedRow DEF Inserts, RowsOf
    <3> QED
      BY <1>3, <3>1 DEF KeysInv
  <2> QED
    BY <2>1, <2>2, RowChanges
<1>4. ASSUME NEW k \in acked' PROVE Stored(k)'
  <2>1. CASE k \in acked
    BY <1>2, <2>1 DEF KeysInv
  <2>2. CASE k \notin acked
    <3>1. PICK c \in Conns : HandleGroupAck(c)
      BY <2>2 DEF Next, vars, page, Connect, Disconnect, Crash, LeaveGroup, JoinGroup, TaskStep,
                  TakeFrame, CheckMember, CheckMemberFails, PersistMessage, PersistFails,
                  AckSender, SelectMembers, SelectMembersFails, PushToMember, MarkLatest,
                  MarkUpsert, MarkFails, SyncStep, SyncSelect, SyncFails, SyncPush,
                  OpenGroupChat, CloseGroupChat, HistStep, HistSelect, HistLatest, HistUpsert,
                  HistMarkFails, HistAborts, HistRespond, SendGroupMessage, ClientRead,
                  HandleGroupPush, IgnoreError
    <3>2. Head(chan[c]) \in Frames(c) /\ Head(chan[c]).cmd = "group_chat_ack"
          /\ acked' = acked \cup {Head(chan[c]).key}
      BY <3>1, ReadFrames DEF ClientRead, HandleGroupAck, Took
    <3> QED
      BY <1>2, <2>2, <3>2 DEF KeysInv
  <2> QED
    BY <2>1, <2>2
<1>5. ASSUME NEW c \in Conns, NEW f \in Frames(c)', f.cmd = "group_chat_ack" PROVE Stored(f.key)'
  <2>1. CASE f \in Frames(c)
    BY <1>2, <1>5, <2>1 DEF KeysInv
  <2>2. CASE f \notin Frames(c)
    <3>1. PICK i \in Ids : f.key = rows[i]
      BY <1>5, <2>2, FramesStep
    <3> QED
      BY <1>2, <3>1 DEF Stored
  <2> QED
    BY <2>1, <2>2
<1>6. \A i, j \in Ids' : rows'[i] = rows'[j] => i = j
  BY <1>3
<1> QED
  BY <1>4, <1>5, <1>6 DEF KeysInv

\* However often a message is sent it is stored once, and no author's page is told that
\* a message was stored which was not.
THEOREM AckedAreStored == Spec => []AckedIsStored
<1>1. Init => KeysInv
  BY DEF Init, KeysInv, Ids, Frames
<1>2. ASSUME TypeOK, KeysInv PROVE AckedIsStored
  <2> SUFFICES ASSUME NEW k \in Msgs
               PROVE  /\ Cardinality(RowsOf(k)) <= 1
                      /\ (k \in acked \/ \E c \in Conns :
                            [cmd |-> "group_chat_ack", key |-> k] \in Frames(c)) => RowsOf(k) # {}
    BY DEF AckedIsStored
  <2>1. Cardinality(RowsOf(k)) <= 1
    <3>1. CASE RowsOf(k) = {}
      BY <3>1, FS_EmptySet
    <3>2. CASE RowsOf(k) # {}
      <4>1. PICK i \in RowsOf(k) : TRUE
        BY <3>2
      <4>2. RowsOf(k) = {i}
        BY <1>2, <4>1 DEF RowsOf, KeysInv
      <4> QED
        BY <4>2, FS_Singleton
    <3> QED
      BY <3>1, <3>2
  <2>2. k \in acked => Stored(k)
    BY <1>2 DEF KeysInv
  <2>3. ASSUME NEW c \in Conns, [cmd |-> "group_chat_ack", key |-> k] \in Frames(c) PROVE Stored(k)
    BY <1>2, <2>3 DEF KeysInv
  <2> QED
    BY <2>1, <2>2, <2>3 DEF Stored, RowsOf
<1>3. Spec => [](TypeOK /\ KeysInv)
  BY <1>1, TypeInit, TypeStep, KeysStep, PTL DEF Spec
<1> QED
  BY <1>2, <1>3, PTL
-----------------------------------------------------------------------------
(* Delivery                                                                *)

\* The backlog of every user fits into what one connection is sent of it.
BacklogFits == \A u \in Users : Cardinality(Backlog(u)) <= SyncLimit

\* A connection carries the messages of its user.
OwnInv ==
    \A c \in Conns :
        /\ \A n \in DOMAIN up[c] : up[c][n].pc = "group_chat" => AuthorOf[up[c][n].key] = UserOf[c]
        /\ task[c].pc \in {"group_chat", "persist"} => AuthorOf[task[c].key] = UserOf[c]
        /\ task[c].pc \in {"ack", "members", "push"} => From(task[c].id) = UserOf[c]

LEMMA OwnTask ==
    ASSUME TypeOK, OwnInv, [Next]_vars, NEW c \in Conns
    PROVE  /\ task'[c].pc \in {"group_chat", "persist"} => AuthorOf[task'[c].key] = UserOf[c]
           /\ task'[c].pc \in {"ack", "members", "push"} =>
                AuthorOf[rows'[task'[c].id]] = UserOf[c]
<1>0. /\ task[c].pc \in {"ack", "members", "push"} => task[c].id \in Ids
      /\ \A i \in Ids : rows'[i] = rows[i]
      /\ task \in [Conns -> Working]
  BY RowsKeep DEF TypeOK, Working, Request
<1>1. CASE task'[c] = task[c]
  BY <1>0, <1>1 DEF OwnInv, From
<1>2. CASE Crash
  BY <1>2 DEF Crash, Idle
<1>3. CASE TakeFrame(c)
  <2>1. up[c] \in Seq(Request) /\ up[c] # <<>>
    BY <1>3 DEF TakeFrame, TypeOK
  <2>2. 1 \in DOMAIN up[c] /\ Head(up[c]) = up[c][1] /\ Head(up[c]) \in Request
    BY <2>1, HeadTailProperties, LenProperties, EmptySeq
  <2>3. task'[c] = Head(up[c])
    BY <1>0, <1>3 DEF TakeFrame, Goto
  <2>4. task'[c].pc \in {"mark_group_read", "group_chat"}
    BY <2>2, <2>3 DEF Request
  <2> QED
    BY <2>2, <2>3, <2>4 DEF OwnInv
<1>4. CASE CheckMember(c)
  BY <1>0, <1>4 DEF CheckMember, Goto, OwnInv, Idle
<1>5. CASE PersistMessage(c)
  <2>1. AuthorOf[task[c].key] = UserOf[c]
    BY <1>5 DEF PersistMessage, OwnInv
  <2>2. CASE Inserts(c)
    BY <2>1, <2>2, InsertedRow
  <2>3. CASE ~Inserts(c)
    <3>1. PICK i \in RowsOf(task[c].key) : task' = [task EXCEPT ![c] = [pc |-> "ack", id |-> i]]
      BY <1>5, <2>3 DEF PersistMessage, Inserts, Goto
    <3> QED
      BY <1>0, <2>1, <3>1 DEF RowsOf
  <2> QED
    BY <2>2, <2>3
<1>6. CASE AckSender(c)
  BY <1>0, <1>6 DEF AckSender, Goto, OwnInv, From
<1>7. CASE SelectMembers(c) \/ \E v \in Users : PushToMember(c, v)
  <2>1. PICK to : PushNext(c, task[c].id, to) /\ task[c].pc \in {"members", "push"}
    BY <1>7 DEF SelectMembers, PushToMember
  <2> QED
    BY <1>0, <2>1 DEF PushNext, Goto, OwnInv, From, Idle
<1>8. CASE task'[c] = Idle \/ task'[c].pc = "upsert"
  BY <1>8 DEF Idle
<1>9. ASSUME NEW d \in Conns, TaskStep(d), d # c PROVE task'[c] = task[c]
  BY <1>0, <1>9
  DEF TaskStep, Goto, PushNext, TakeFrame, CheckMember, CheckMemberFails, PersistMessage,
      PersistFails, AckSender, SelectMembers, SelectMembersFails, PushToMember, MarkLatest,
      MarkUpsert, MarkFails
<1>10. UNCHANGED task \/ Crash \/ \E d \in Conns : TaskStep(d)
  BY DEF Next, vars, Connect, Disconnect, LeaveGroup, JoinGroup, SyncStep, SyncSelect,
         SyncFails, SyncPush, OpenGroupChat, CloseGroupChat, HistStep, HistSelect, HistLatest,
         HistUpsert, HistMarkFails, HistAborts, HistRespond, SendGroupMessage, ClientRead,
         HandleGroupPush, HandleGroupAck, IgnoreError, Took
<1>11. CASE TaskStep(c)
  <2>1. CheckMemberFails(c) \/ PersistFails(c) \/ SelectMembersFails(c) \/ MarkLatest(c)
        \/ MarkUpsert(c) \/ MarkFails(c) => task'[c] = Idle \/ task'[c].pc = "upsert"
    BY <1>0 DEF CheckMemberFails, PersistFails, SelectMembersFails, MarkLatest, MarkUpsert,
                MarkFails, Goto
  <2> QED
    BY <1>3, <1>4, <1>5, <1>6, <1>7, <1>8, <1>11, <2>1 DEF TaskStep
<1> QED
  BY <1>1, <1>2, <1>9, <1>10, <1>11

LEMMA OwnUp ==
    ASSUME TypeOK, OwnInv, [Next]_vars, NEW c \in Conns, NEW n \in DOMAIN up'[c],
           up'[c][n].pc = "group_chat"
    PROVE  AuthorOf[up'[c][n].key] = UserOf[c]
<1>0. up[c] \in Seq(Request) /\ up \in [Conns -> Seq(Request)]
      /\ DOMAIN up[c] = 1..Len(up[c]) /\ Len(up[c]) \in Nat
  BY LenProperties DEF TypeOK
<1>1. CASE up'[c] = up[c]
  BY <1>1 DEF OwnInv
<1>2. CASE Crash
  BY <1>2 DEF Crash
<1>3. CASE Disconnect(c)
  <2>1. PICK m \in 0..Len(up[c]) : up'[c] = SubSeq(up[c], 1, m)
    BY <1>0, <1>3 DEF Disconnect
  <2>2. n \in DOMAIN up[c] /\ up'[c][n] = up[c][n]
    BY <1>0, <2>1
  <2> QED
    BY <2>2 DEF OwnInv
<1>4. CASE TakeFrame(c)
  <2>1. up'[c] = Tail(up[c]) /\ up[c] # <<>>
    BY <1>0, <1>4 DEF TakeFrame
  <2>2. n + 1 \in DOMAIN up[c] /\ up'[c][n] = up[c][n + 1]
    <3>1. /\ Tail(up[c]) \in Seq(Request) /\ Len(Tail(up[c])) = Len(up[c]) - 1
          /\ \A i \in 1..Len(Tail(up[c])) : Tail(up[c])[i] = up[c][i+1]
      BY <1>0, <2>1, HeadTailProperties
    <3>2. n \in 1..Len(Tail(up[c]))
      BY <2>1, <3>1, LenProperties
    <3> QED
      BY <1>0, <2>1, <3>1, <3>2
  <2> QED
    BY <2>2 DEF OwnInv
<1>5. ASSUME NEW r \in Request, up'[c] = Append(up[c], r),
             r.pc = "group_chat" => AuthorOf[r.key] = UserOf[c]
      PROVE  AuthorOf[up'[c][n].key] = UserOf[c]
  <2>1. up'[c][n] = r \/ (n \in DOMAIN up[c] /\ up'[c][n] = up[c][n])
    BY <1>0, <1>5, AppendProperties, LenProperties
  <2> QED
    BY <1>5, <2>1 DEF OwnInv
<1>6. ASSUME NEW k \in Msgs, SendGroupMessage(c, k) PROVE AuthorOf[up'[c][n].key] = UserOf[c]
  <2> DEFINE r == [pc |-> "group_chat", key |-> k]
  <2>1. r \in Request /\ r.key = k /\ up'[c] = Append(up[c], r) /\ AuthorOf[k] = UserOf[c]
    BY <1>0, <1>6 DEF SendGroupMessage, Request
  <2> HIDE DEF r
  <2> QED
    BY <1>5, <2>1
<1>7. CASE ClientRead(c)
  <2> DEFINE r == [pc |-> "mark_group_read"]
  <2>1. up'[c] = up[c] \/ up'[c] = Append(up[c], r)
    BY <1>0, <1>7 DEF ClientRead, HandleGroupPush, HandleGroupAck, IgnoreError
  <2>2. r \in Request /\ r.pc # "group_chat"
    BY DEF Request
  <2> HIDE DEF r
  <2> QED
    BY <1>1, <1>5, <2>1, <2>2
<1>8. ASSUME NEW d \in Conns, d # c,
             Disconnect(d) \/ TakeFrame(d) \/ ClientRead(d) \/ \E k \in Msgs : SendGroupMessage(d, k)
      PROVE  up'[c] = up[c]
  BY <1>0, <1>8 DEF Disconnect, TakeFrame, ClientRead, HandleGroupPush, HandleGroupAck,
                    IgnoreError, SendGroupMessage
<1>9. \/ UNCHANGED up \/ Crash
      \/ \E d \in Conns : Disconnect(d) \/ TakeFrame(d) \/ ClientRead(d)
                          \/ \E k \in Msgs : SendGroupMessage(d, k)
  BY DEF Next, vars, net, Connect, LeaveGroup, JoinGroup, TaskStep, CheckMember,
         CheckMemberFails, PersistMessage, PersistFails, AckSender, SelectMembers,
         SelectMembersFails, PushToMember, MarkLatest, MarkUpsert, MarkFails, SyncStep,
         SyncSelect, SyncFails, SyncPush, OpenGroupChat, CloseGroupChat, HistStep, HistSelect,
         HistLatest, HistUpsert, HistMarkFails, HistAborts, HistRespond
<1> QED
  BY <1>1, <1>2, <1>3, <1>4, <1>6, <1>7, <1>8, <1>9

LEMMA OwnStep == TypeOK /\ OwnInv /\ [Next]_vars => OwnInv'
<1> SUFFICES ASSUME TypeOK, OwnInv, [Next]_vars, NEW c \in Conns
             PROVE  /\ \A n \in DOMAIN up'[c] :
                         up'[c][n].pc = "group_chat" => AuthorOf[up'[c][n].key] = UserOf[c]
                    /\ task'[c].pc \in {"group_chat", "persist"} =>
                         AuthorOf[task'[c].key] = UserOf[c]
                    /\ task'[c].pc \in {"ack", "members", "push"} =>
                         AuthorOf[rows'[task'[c].id]] = UserOf[c]
  BY DEF OwnInv, From
<1> QED
  BY OwnTask, OwnUp
Got(i, c) == rows[i] \in recv[UserOf[c]] \/ i <= cursor[UserOf[c]] \/ OnItsWay(i, c)
Batch(c) == {sync[c].ids[n] : n \in DOMAIN sync[c].ids}

\* The rows below i that the page was given, or is about to be given from K.
Below(i, c, K) ==
    {j \in Ids : j < i /\ (rows[j] \in recv[UserOf[c]] \cup PushedTo(c) \/ j \in K)}

\* i is got or in K or, if the backlog may be cut, comes after SyncLimit such rows.
Reached(i, c, K, cut) ==
    Got(i, c) \/ i \in K \/ (cut /\ Cardinality(Below(i, c, K)) >= SyncLimit)

\* An open connection is the one its user is pushed to; once its backlog is selected,
\* every message for a member is in it, got otherwise, or cut off.
DeliveryInv(cut) ==
    \A c \in Conns : sock[c] = "open" =>
        /\ online[UserOf[c]] = c
        /\ sync[c].pc = "done" =>
             \A i \in ForMember(UserOf[c]) \ unpushed : Reached(i, c, {}, cut)
        /\ sync[c].pc = "push" =>
             \A i \in ForMember(UserOf[c]) \ unpushed : Reached(i, c, Batch(c), cut)

LEMMA OrderedInjective ==
    ASSUME NEW S \in SUBSET Nat, IsFiniteSet(S), NEW f \in Ordered(S),
           NEW m \in 1..Cardinality(S), NEW n \in 1..Cardinality(S), m # n
    PROVE  f[m] # f[n]
<1>1. Cardinality(S) \in Nat
  BY FS_CardinalityType
<1>2. f \in [1..Cardinality(S) -> S] /\ (m < n => f[m] < f[n]) /\ (n < m => f[n] < f[m])
  BY DEF Ordered
<1>3. m < n \/ n < m
  BY <1>1
<1>4. f[m] \in Nat /\ f[n] \in Nat
  BY <1>2
<1> QED
  BY <1>2, <1>3, <1>4

\* Sorting the backlog leaves no row out.
LEMMA OrderedCovers ==
    ASSUME NEW S \in SUBSET Nat, IsFiniteSet(S), NEW f \in Ordered(S), NEW x \in S
    PROVE  \E n \in 1..Cardinality(S) : f[n] = x
<1>1. Cardinality(S) \in Nat
  BY FS_CardinalityType
<1>2. f \in Injection(1..Cardinality(S), S)
  BY OrderedInjective DEF Injection, IsInjective, Ordered
<1>3. IsFiniteSet(1..Cardinality(S)) /\ Cardinality(1..Cardinality(S)) = Cardinality(S)
  BY <1>1, UpTo
<1>4. f \in Surjection(1..Cardinality(S), S)
  BY <1>2, <1>3, FS_Injection
<1> QED
  BY <1>4 DEF Surjection

\* The first k of a sorted set are k.
LEMMA OrderedPrefix ==
    ASSUME NEW S \in SUBSET Nat, IsFiniteSet(S), NEW f \in Ordered(S),
           NEW k \in 0..Cardinality(S), NEW T, IsFiniteSet(T), \A m \in 1..k : f[m] \in T
    PROVE  Cardinality(T) >= k
<1>1. Cardinality(S) \in Nat /\ Cardinality(T) \in Nat /\ k \in Nat
  BY FS_CardinalityType
<1>2. [m \in 1..k |-> f[m]] \in Injection(1..k, T)
  BY <1>1, OrderedInjective DEF Injection, IsInjective
<1>3. IsFiniteSet(1..k) /\ Cardinality(1..k) = k
  BY <1>1, UpTo
<1> QED
  BY <1>1, <1>2, <1>3, FS_Injection

\* A message becomes one for a member only by being stored: who joins owes nothing to
\* the rows there are.
LEMMA ForMemberStep ==
    ASSUME TypeOK, [Next]_vars, NEW u \in Users, NEW i \in ForMember(u)'
    PROVE  i \in ForMember(u) \/ \E d \in Conns : Inserts(d) /\ i = Len(rows) + 1
<1>1. /\ i \in Ids' /\ u \in members' /\ joined'[u] < i /\ AuthorOf[rows'[i]] # u
  BY DEF ForMember, From
<1>2. CASE i \notin Ids
  <2>1. PICK d \in Conns : Inserts(d)
    BY <1>1, <1>2, RowChanges DEF Ids
  <2> QED
    BY <1>1, <1>2, <2>1, InsertedRow
<1>3. CASE i \in Ids
  <2>1. rows'[i] = rows[i] /\ i \in Nat /\ i <= Len(rows)
    BY <1>3, RowsKeep, RowsTyped
  <2>2. ASSUME NEW v \in Users, JoinGroup(v) PROVE v # u
    BY <1>1, <2>1, <2>2 DEF JoinGroup, TypeOK
  <2>3. u \in members /\ joined'[u] = joined[u]
    <3>1. \/ UNCHANGED <<members, joined>>
          \/ \E v \in Users : LeaveGroup(v) \/ JoinGroup(v)
      BY DEF Next, vars, db, Connect, Disconnect, Crash, TaskStep, TakeFrame, CheckMember,
             CheckMemberFails, PersistMessage, PersistFails, AckSender, SelectMembers,
             SelectMembersFails, PushToMember, MarkLatest, MarkUpsert, MarkFails, SyncStep,
             SyncSelect, SyncFails, SyncPush, OpenGroupChat, CloseGroupChat, HistStep,
             HistSelect, HistLatest, HistUpsert, HistMarkFails, HistAborts, HistRespond,
             SendGroupMessage, ClientRead, HandleGroupPush, HandleGroupAck, IgnoreError, Took
    <3>2. CASE \E v \in Users : LeaveGroup(v)
      BY <1>1, <3>2 DEF LeaveGroup
    <3>3. ASSUME NEW v \in Users, JoinGroup(v) PROVE u \in members /\ joined'[u] = joined[u]
      BY <1>1, <2>2, <3>3 DEF JoinGroup, TypeOK
    <3> QED
      BY <1>1, <3>1, <3>2, <3>3
  <2> QED
    BY <1>1, <1>3, <2>1, <2>3 DEF ForMember, From
<1> QED
  BY <1>2, <1>3

\* What the page was given, the cursors and the set-aside messages only grow.
LEMMA PageGrows ==
    ASSUME TypeOK, [Next]_vars, NEW u \in Users
    PROVE  recv[u] \subseteq recv'[u] /\ cursor[u] <= cursor'[u] /\ unpushed \subseteq unpushed'
<1>0. cursor[u] \in Nat /\ recv \in [Users -> SUBSET Msgs] /\ cursor \in [Users -> 0..Len(rows)]
      /\ Len(rows) \in Nat
  BY RowsTyped DEF TypeOK
<1>1. ASSUME NEW v \in Users, NEW n \in Nat, cursor' = Moved(v, n) PROVE cursor[u] <= cursor'[u]
  BY <1>0, <1>1 DEF Moved
<1>2. \/ UNCHANGED cursor
      \/ \E c \in Conns : MarkUpsert(c)
      \/ \E v \in Users : HistUpsert(v)
  BY DEF Next, vars, db, Connect, Disconnect, Crash, LeaveGroup, JoinGroup, TaskStep, TakeFrame,
         CheckMember, CheckMemberFails, PersistMessage, PersistFails, AckSender,
         SelectMembers, SelectMembersFails, PushToMember, MarkLatest, MarkFails, SyncStep,
         SyncSelect, SyncFails, SyncPush, OpenGroupChat, CloseGroupChat, HistStep, HistSelect,
         HistLatest, HistMarkFails, HistAborts, HistRespond, SendGroupMessage, ClientRead,
         HandleGroupPush, HandleGroupAck, IgnoreError, Took
<1>3. ASSUME NEW c \in Conns, MarkUpsert(c) PROVE cursor[u] <= cursor'[u]
  <2>1. task[c].latest \in Nat /\ UserOf[c] \in Users
    BY <1>3, RowsTyped, GroupChatAssumption DEF MarkUpsert, TypeOK, Working, Request
  <2> QED
    BY <1>1, <1>3, <2>1 DEF MarkUpsert
<1>4. ASSUME NEW v \in Users, HistUpsert(v) PROVE cursor[u] <= cursor'[u]
  <2>1. hist[v].latest \in Nat
    BY <1>4, RowsTyped DEF HistUpsert, TypeOK, Loading
  <2> QED
    BY <1>1, <1>4, <2>1 DEF HistUpsert
<1>5. cursor[u] <= cursor'[u]
  BY <1>0, <1>2, <1>3, <1>4
<1>6. unpushed \subseteq unpushed'
  BY DEF Next, vars, Connect, Disconnect, Crash, LeaveGroup, JoinGroup, TaskStep, TakeFrame,
         CheckMember, CheckMemberFails, PersistMessage, PersistFails, AckSender,
         SelectMembers, SelectMembersFails, PushToMember, MarkLatest, MarkUpsert, MarkFails,
         SyncStep, SyncSelect, SyncFails, SyncPush, OpenGroupChat, CloseGroupChat, HistStep,
         HistSelect, HistLatest, HistUpsert, HistMarkFails, HistAborts, HistRespond,
         SendGroupMessage, ClientRead, HandleGroupPush, HandleGroupAck, IgnoreError, Took
<1>7. \/ UNCHANGED recv
      \/ \E v \in Users : HistRespond(v)
      \/ \E c \in Conns : HandleGroupPush(c)
  BY DEF Next, vars, page, Connect, Disconnect, Crash, LeaveGroup, JoinGroup, TaskStep,
         TakeFrame, CheckMember, CheckMemberFails, PersistMessage, PersistFails, AckSender,
         SelectMembers, SelectMembersFails, PushToMember, MarkLatest, MarkUpsert, MarkFails,
         SyncStep, SyncSelect, SyncFails, SyncPush, OpenGroupChat, CloseGroupChat, HistStep,
         HistSelect, HistLatest, HistUpsert, HistMarkFails, HistAborts, SendGroupMessage,
         ClientRead, HandleGroupAck, IgnoreError
<1>8. recv[u] \subseteq recv'[u]
  BY <1>0, <1>7 DEF HistRespond, HandleGroupPush
<1> QED
  BY <1>5, <1>6, <1>8

\* The push of a task that comes to the user of an open connection.
LEMMA PushReaches ==
    ASSUME TypeOK, NEW d \in Conns, NEW c \in Conns, PushToMember(d, UserOf[c]),
           sock[c] = "open", online[UserOf[c]] = c
    PROVE  rows[task[d].id] \in PushedTo(c)'
<1> DEFINE f == Push(task[d].id)
<1>1. task[d].id \in Ids /\ rows[task[d].id] \in Msgs /\ UserOf[c] \in Users /\ c # NoConn
  BY RowsTyped, GroupChatAssumption DEF PushToMember, TypeOK, Working, Request
<1>2. f \in Frame /\ SendToUser(UserOf[c], f) /\ f.cmd = "group_push" /\ f.key = rows[task[d].id]
  BY <1>1 DEF PushToMember, Frame, Push
<1> HIDE DEF f
<1>3. f \in Frames(c)'
  BY <1>1, <1>2, SendFrames
<1> QED
  BY <1>2, <1>3 DEF PushedTo

\* What a task is about to push to a member who stays connected it pushes.
LEMMA BeingPushedStays ==
    ASSUME TypeOK, OwnInv, [Next]_vars, NEW c \in Conns, sock[c] = "open", sock'[c] = "open",
           online[UserOf[c]] = c, NEW i \in ForMember(UserOf[c]) \ unpushed', i \in ForMember(UserOf[c])',
           NEW d \in Conns, task[d].pc \in {"ack", "members", "push"}, task[d].id = i,
           task[d].pc = "push" => UserOf[c] \in task[d].to
    PROVE  OnItsWay(i, c)'
<1>0. /\ task \in [Conns -> Working] /\ task[d] \in Working /\ i \in Ids /\ rows'[i] = rows[i]
      /\ UserOf[c] \in members /\ From(i) # UserOf[c] /\ From(i) = UserOf[d]
  BY RowsKeep DEF TypeOK, ForMember, OwnInv
<1>1. CASE task'[d] = task[d]
  BY <1>1 DEF OnItsWay
<1>2. CASE AckSender(d)
  <2>1. task'[d].pc = "members" /\ task'[d].id = i
    BY <1>0, <1>2 DEF AckSender, Goto
  <2> QED
    BY <2>1 DEF OnItsWay
<1>3. CASE SelectMembers(d)
  <2>1. UserOf[c] \in members \ {UserOf[d]}
    BY <1>0
  <2>2. task'[d] = [pc |-> "push", id |-> i, to |-> members \ {UserOf[d]}]
    BY <1>0, <1>3, <2>1 DEF SelectMembers, PushNext, Goto
  <2> QED
    BY <2>1, <2>2 DEF OnItsWay
<1>4. ~SelectMembersFails(d)
  BY DEF SelectMembersFails
<1>5. ASSUME NEW v \in Users, PushToMember(d, v) PROVE OnItsWay(i, c)'
  <2>1. CASE v = UserOf[c]
    BY <1>0, <1>5, <2>1, PushReaches DEF OnItsWay
  <2>2. CASE v # UserOf[c]
    <3>1. UserOf[c] \in task[d].to \ {v}
      BY <1>5, <2>2 DEF PushToMember
    <3>2. task'[d] = [pc |-> "push", id |-> i, to |-> task[d].to \ {v}]
      BY <1>0, <1>5, <3>1 DEF PushToMember, PushNext, Goto
    <3> QED
      BY <3>1, <3>2 DEF OnItsWay
  <2> QED
    BY <2>1, <2>2
<1>6. ASSUME NEW e \in Conns, TaskStep(e), e # d PROVE task'[d] = task[d]
  BY <1>0, <1>6
  DEF TaskStep, Goto, PushNext, TakeFrame, CheckMember, CheckMemberFails, PersistMessage,
      PersistFails, AckSender, SelectMembers, SelectMembersFails, PushToMember, MarkLatest,
      MarkUpsert, MarkFails
<1>7. ~Crash
  BY DEF Crash
<1>8. UNCHANGED task \/ \E e \in Conns : TaskStep(e)
  BY <1>7
  DEF Next, vars, Connect, Disconnect, LeaveGroup, JoinGroup, SyncStep, SyncSelect,
      SyncFails, SyncPush, OpenGroupChat, CloseGroupChat, HistStep, HistSelect, HistLatest,
      HistUpsert, HistMarkFails, HistAborts, HistRespond, SendGroupMessage, ClientRead,
      HandleGroupPush, HandleGroupAck, IgnoreError, Took
<1>9. TaskStep(d) => AckSender(d) \/ SelectMembers(d) \/ \E v \in Users : PushToMember(d, v)
  BY <1>4
  DEF TaskStep, TakeFrame, CheckMember, CheckMemberFails, PersistMessage, PersistFails,
      MarkLatest, MarkUpsert, MarkFails, Idle
<1> QED
  BY <1>1, <1>2, <1>3, <1>5, <1>6, <1>8, <1>9

\* What the page was given, or is being pushed, it keeps or gets.
LEMMA PageStays ==
    ASSUME TypeOK, [Next]_vars, NEW c \in Conns, sock[c] = "open", sock'[c] = "open",
           NEW i \in Ids, rows[i] \in recv[UserOf[c]] \cup PushedTo(c)
    PROVE  rows'[i] \in recv'[UserOf[c]] \cup PushedTo(c)'
<1>0. UserOf[c] \in Users /\ rows'[i] = rows[i]
  BY GroupChatAssumption, RowsKeep
<1>1. CASE rows[i] \in recv[UserOf[c]]
  BY <1>0, <1>1, PageGrows
<1>2. CASE rows[i] \in PushedTo(c)
  <2>1. PICK f \in Frames(c) : f.cmd = "group_push" /\ f.key = rows[i]
    BY <1>2 DEF PushedTo
  <2>2. CASE f \in Frames(c)'
    BY <1>0, <2>1, <2>2 DEF PushedTo
  <2>3. CASE ClientRead(c) /\ f = Head(chan[c])
    <3>1. HandleGroupPush(c)
      BY <2>1, <2>3 DEF ClientRead, HandleGroupAck, IgnoreError, Took
    <3>2. rows[i] \in recv'[UserOf[c]]
      BY <1>0, <2>1, <2>3, <3>1 DEF HandleGroupPush, TypeOK
    <3> QED
      BY <1>0, <3>2
  <2> QED
    BY <2>2, <2>3, FramesStep
<1> QED
  BY <1>1, <1>2

LEMMA GotStays ==
    ASSUME TypeOK, OwnInv, [Next]_vars, NEW c \in Conns, sock[c] = "open", sock'[c] = "open",
           online[UserOf[c]] = c, NEW i \in ForMember(UserOf[c]) \ unpushed', i \in ForMember(UserOf[c])',
           Got(i, c)
    PROVE  Got(i, c)'
<1>0. /\ UserOf[c] \in Users /\ i \in Ids /\ i \in Nat /\ cursor[UserOf[c]] \in Nat
  <2>1. UserOf[c] \in Users /\ i \in Ids
    BY GroupChatAssumption DEF ForMember
  <2> QED
    BY <2>1, RowsTyped DEF TypeOK
<1>1. CASE rows[i] \in recv[UserOf[c]] \cup PushedTo(c)
  BY <1>0, <1>1, PageStays DEF Got, OnItsWay
<1>2. CASE i <= cursor[UserOf[c]]
  <2>1. cursor'[UserOf[c]] \in Nat
    <3>1. cursor' \in [Users -> 0..Len(rows')] /\ rows' \in Seq(Msgs)
      BY TypeStep DEF TypeOK
    <3>2. Len(rows') \in Nat
      BY <3>1, LenProperties
    <3> QED
      BY <1>0, <3>1, <3>2
  <2>2. cursor[UserOf[c]] <= cursor'[UserOf[c]]
    BY <1>0, PageGrows
  <2>3. i <= cursor'[UserOf[c]]
    BY <1>0, <1>2, <2>1, <2>2
  <2> QED
    BY <2>3 DEF Got
<1>3. CASE \E d \in Conns :
             /\ task[d].pc \in {"ack", "members", "push"} /\ task[d].id = i
             /\ task[d].pc = "push" => UserOf[c] \in task[d].to
  BY <1>3, BeingPushedStays DEF Got
<1> QED
  BY <1>1, <1>2, <1>3 DEF Got, OnItsWay

LEMMA BelowStays ==
    ASSUME TypeOK, [Next]_vars, NEW c \in Conns, sock[c] = "open", sock'[c] = "open",
           NEW i \in Ids, NEW K, NEW L, \A j \in K : j \in L \/ rows'[j] \in PushedTo(c)',
           Cardinality(Below(i, c, K)) >= SyncLimit
    PROVE  Cardinality({j \in Ids' : j < i /\ (rows'[j] \in recv'[UserOf[c]] \cup PushedTo(c)'
                                               \/ j \in L)}) >= SyncLimit
<1> DEFINE B == Below(i, c, K)
           C == {j \in Ids' : j < i /\ (rows'[j] \in recv'[UserOf[c]] \cup PushedTo(c)' \/ j \in L)}
<1>1. B \subseteq C
  <2>1. ASSUME NEW j \in B PROVE j \in C
    <3>1. j \in Ids /\ j < i /\ (rows[j] \in recv[UserOf[c]] \cup PushedTo(c) \/ j \in K)
      BY DEF Below
    <3>2. j \in Ids'
      BY <3>1, RowsKeep
    <3> QED
      BY <3>1, <3>2, PageStays
  <2> QED
    BY <2>1
<1>2. IsFiniteSet(C)
  <2>1. TypeOK'
    BY TypeStep
  <2>2. Ids' = 1..Len(rows') /\ Len(rows') \in Nat
    BY <2>1, LenProperties DEF TypeOK, Ids
  <2>3. IsFiniteSet(Ids')
    <3>1. IsFiniteSet(1..Len(rows'))
      BY <2>2, UpTo
    <3> QED
      BY <2>2, <3>1
  <2>4. C \in SUBSET Ids'
    OBVIOUS
  <2> QED
    BY <2>3, <2>4, FS_Subset
<1>3. Cardinality(B) \in Nat /\ Cardinality(C) \in Nat /\ Cardinality(B) <= Cardinality(C)
  BY <1>1, <1>2, FS_Subset, FS_CardinalityType
<1> QED
  BY <1>3, GroupChatAssumption

LEMMA ReachedStays ==
    ASSUME TypeOK, OwnInv, [Next]_vars, NEW c \in Conns, sock[c] = "open", sock'[c] = "open",
           online[UserOf[c]] = c, NEW i \in ForMember(UserOf[c]) \ unpushed', i \in ForMember(UserOf[c])',
           NEW K, NEW cut, Reached(i, c, K, cut),
           NEW L, \A j \in K : j \in L \/ rows'[j] \in PushedTo(c)'
    PROVE  \/ Got(i, c)' \/ i \in L
           \/ cut /\ Cardinality({j \in Ids' : j < i /\
                        (rows'[j] \in recv'[UserOf[c]] \cup PushedTo(c)' \/ j \in L)}) >= SyncLimit
<1>1. i \in Ids
  BY DEF ForMember
<1>2. CASE Got(i, c)
  BY <1>2, GotStays
<1>3. CASE i \in K
  BY <1>3 DEF Got, OnItsWay
<1>4. CASE cut /\ Cardinality(Below(i, c, K)) >= SyncLimit
  BY <1>1, <1>4, BelowStays
<1> QED
  BY <1>2, <1>3, <1>4 DEF Reached

\* Where the backlog of a connection changes.
LEMMA SyncChanges ==
    ASSUME TypeOK, [Next]_vars, NEW c \in Conns, sock'[c] = "open"
    PROVE  \/ sync'[c] = sync[c] /\ sock[c] = "open"
           \/ sock[c] = "open" /\ SyncStep(c)
           \/ Connect(c)
<1>1. ASSUME NEW d \in Conns, d # c, SyncStep(d) \/ Connect(d)
      PROVE  sync'[c] = sync[c] /\ sock'[c] = sock[c]
  BY <1>1 DEF SyncStep, SyncSelect, SyncFails, SyncPush, Connect, TypeOK, net
<1>2. ASSUME NEW d \in Conns, Disconnect(d) PROVE sync'[c] = sync[c] /\ sock[c] = "open"
  BY <1>2 DEF Disconnect, TypeOK
<1>3. ~Crash
  BY DEF Crash
<1>4. \/ UNCHANGED <<sync, sock>>
      \/ \E d \in Conns : SyncStep(d) \/ Connect(d) \/ Disconnect(d)
  BY <1>3
  DEF Next, vars, net, LeaveGroup, JoinGroup, TaskStep, TakeFrame, CheckMember,
      CheckMemberFails, PersistMessage, PersistFails, AckSender, SelectMembers,
      SelectMembersFails, PushToMember, MarkLatest, MarkUpsert, MarkFails, OpenGroupChat,
      CloseGroupChat, HistStep, HistSelect, HistLatest, HistUpsert, HistMarkFails,
      HistAborts, HistRespond, SendGroupMessage, ClientRead, HandleGroupPush,
      HandleGroupAck, IgnoreError, Took
<1>5. SyncStep(c) => UNCHANGED sock
  BY DEF SyncStep, SyncFails, SyncSelect, SyncPush, net
<1> QED
  BY <1>1, <1>2, <1>4, <1>5

\* The registered connection stays registered while it is open.
LEMMA RegisteredStays ==
    ASSUME TypeOK, [Next]_vars, NEW c \in Conns, sock'[c] = "open",
           sock[c] = "open" => online[UserOf[c]] = c
    PROVE  online'[UserOf[c]] = c
<1>0. c # NoConn /\ UserOf[c] \in Users
  BY GroupChatAssumption
<1>1. ASSUME NEW d \in Conns, Connect(d) PROVE online'[UserOf[c]] = c
  <2>1. CASE d = c
    BY <1>0, <1>1, <2>1 DEF Connect, TypeOK
  <2>2. CASE d # c
    <3>1. sock[c] = "open"
      BY <1>0, <1>1, <2>2 DEF Connect, TypeOK
    <3>2. UserOf[d] # UserOf[c]
      BY <1>0, <1>1, <3>1 DEF Connect
    <3> QED
      BY <1>0, <1>1, <3>1, <3>2 DEF Connect, TypeOK
  <2> QED
    BY <2>1, <2>2
<1>2. ASSUME NEW d \in Conns, NEW v \in Users, PushToMember(d, v) PROVE online'[UserOf[c]] = c
  <2>1. sock[c] = "open" /\ online[UserOf[c]] = c
    BY <1>2 DEF PushToMember
  <2>2. task[d].id \in Ids /\ rows[task[d].id] \in Msgs
    BY <1>2, RowsTyped DEF PushToMember, TypeOK, Working, Request
  <2>3. Push(task[d].id) \in Frame /\ SendToUser(v, Push(task[d].id))
    BY <1>2, <2>2 DEF PushToMember, Frame, Push
  <2> QED
    BY <1>0, <2>1, <2>3, SendFrames
<1>3. ~Crash
  BY <1>0 DEF Crash
<1>4. \/ UNCHANGED online /\ sock[c] = "open"
      \/ \E d \in Conns : Connect(d) \/ \E v \in Users : PushToMember(d, v)
  BY <1>0, <1>3
  DEF Next, vars, net, Disconnect, LeaveGroup, JoinGroup, TaskStep, TakeFrame, CheckMember,
      CheckMemberFails, PersistMessage, PersistFails, AckSender, SelectMembers,
      SelectMembersFails, MarkLatest, MarkUpsert, MarkFails, SyncStep, SyncSelect, SyncFails,
      SyncPush, OpenGroupChat, CloseGroupChat, HistStep, HistSelect, HistLatest, HistUpsert,
      HistMarkFails, HistAborts, HistRespond, SendGroupMessage, ClientRead,
      HandleGroupPush, HandleGroupAck, IgnoreError, Took, TypeOK
<1> QED
  BY <1>1, <1>2, <1>4

\* The backlog a connection selects reaches everything behind the cursor.
LEMMA BacklogReaches ==
    ASSUME TypeOK, NEW c \in Conns, SyncSelect(c), NEW i \in Backlog(UserOf[c]),
           NEW cut \in BOOLEAN, cut \/ BacklogFits
    PROVE  i \in Batch(c)' \/ (cut /\ Cardinality(Below(i, c, Batch(c)')) >= SyncLimit)
<1> DEFINE S == Backlog(UserOf[c])
           L == Batch(c)'
<1>1. PICK ids \in Ordered(S), room \in Room(S) : sync' = [sync EXCEPT ![c] = [pc |-> "push",
          ids |-> [n \in {m \in DOMAIN ids : m <= room} |-> ids[n]]]]
  BY DEF SyncSelect
<1>2. sync'[c].ids = [n \in {m \in DOMAIN ids : m <= room} |-> ids[n]]
  BY <1>1 DEF TypeOK
<1>3. /\ S \in SUBSET Nat /\ IsFiniteSet(S) /\ Cardinality(S) \in Nat /\ S \subseteq Ids
      /\ SyncLimit \in Nat /\ room \in Nat /\ room >= SyncLimit
  <2>1. UserOf[c] \in Users /\ SyncLimit \in Nat
    BY GroupChatAssumption
  <2>2. S \in SUBSET Nat /\ IsFiniteSet(S) /\ Cardinality(S) \in Nat /\ S \subseteq Ids
    BY <2>1, RowsTyped DEF Backlog
  <2> HIDE DEF S
  <2> QED
    BY <2>1, <2>2 DEF Room
<1>4. ~cut => Cardinality(S) <= SyncLimit
  BY GroupChatAssumption DEF BacklogFits
<1>5. i \in S
  OBVIOUS
<1> HIDE DEF S
<1>6. ids \in [1..Cardinality(S) -> S]
  BY DEF Ordered
<1>7. \A m \in 1..Cardinality(S) : m <= room => ids[m] \in L
  BY <1>2, <1>6 DEF Batch
<1> HIDE DEF L
<1>8. PICK n \in 1..Cardinality(S) : ids[n] = i
  BY <1>3, <1>5, OrderedCovers
<1>9. CASE n <= room
  BY <1>7, <1>8, <1>9 DEF L
<1>10. CASE room < n
  <2>1. cut
    BY <1>3, <1>4, <1>10
  <2>2. \A m \in 1..SyncLimit : m \in 1..Cardinality(S) /\ m <= room /\ m < n
    BY <1>3, <1>10
  <2>3. \A m \in 1..SyncLimit : ids[m] \in Below(i, c, L)
    BY <1>3, <1>6, <1>7, <1>8, <2>2 DEF Below, Ordered
  <2>4. IsFiniteSet(Below(i, c, L))
    <3>1. IsFiniteSet(Ids)
      BY RowsTyped, UpTo
    <3> QED
      BY <3>1, FS_Subset DEF Below
  <2>5. SyncLimit \in 0..Cardinality(S)
    BY <1>3, <1>10
  <2>6. Cardinality(Below(i, c, L)) >= SyncLimit
    BY <1>3, <2>3, <2>4, <2>5, OrderedPrefix
  <2> QED
    BY <2>1, <2>6 DEF L
<1> QED
  BY <1>3, <1>9, <1>10

LEMMA DeliveryStep ==
    ASSUME TypeOK, OwnInv, NEW cut \in BOOLEAN, cut \/ BacklogFits, DeliveryInv(cut), [Next]_vars
    PROVE  DeliveryInv(cut)'
<1> SUFFICES ASSUME NEW c \in Conns, sock'[c] = "open"
             PROVE  /\ online'[UserOf[c]] = c
                    /\ sync'[c].pc = "done" =>
                         \A i \in ForMember(UserOf[c])' \ unpushed' : Reached(i, c, {}, cut)'
                    /\ sync'[c].pc = "push" =>
                         \A i \in ForMember(UserOf[c])' \ unpushed' :
                            Reached(i, c, Batch(c), cut)'
  BY DEF DeliveryInv
<1>0. UserOf[c] \in Users
  BY GroupChatAssumption
<1>1. online'[UserOf[c]] = c
  BY RegisteredStays DEF DeliveryInv
<1>2. CASE Connect(c)
  <2>1. sync'[c].pc = "select"
    BY <1>2 DEF Connect, TypeOK
  <2> QED
    BY <1>1, <2>1
\* A message that was one before, or is being pushed.
<1>3. ASSUME NEW i \in ForMember(UserOf[c])' \ unpushed'
      PROVE  i \in ForMember(UserOf[c]) \ unpushed \/ Got(i, c)'
  <2>1. CASE i \in ForMember(UserOf[c])
    BY <1>0, <1>3, <2>1, PageGrows
  <2>2. ASSUME NEW d \in Conns, Inserts(d), i = Len(rows) + 1 PROVE Got(i, c)'
    <3>1. task'[d].pc = "ack" /\ task'[d].id = i
      BY <2>2, InsertedRow
    <3> QED
      BY <3>1 DEF Got, OnItsWay
  <2> QED
    BY <1>0, <1>3, <2>1, <2>2, ForMemberStep
<1>4. ASSUME sock[c] = "open", NEW i \in ForMember(UserOf[c])' \ unpushed', NEW K,
             i \in ForMember(UserOf[c]) \ unpushed => Reached(i, c, K, cut),
             NEW L, \A j \in K : j \in L \/ rows'[j] \in PushedTo(c)'
      PROVE  \/ Got(i, c)' \/ i \in L
             \/ cut /\ Cardinality({j \in Ids' : j < i /\
                          (rows'[j] \in recv'[UserOf[c]] \cup PushedTo(c)' \/ j \in L)}) >= SyncLimit
  <2>0. online[UserOf[c]] = c
    BY <1>4 DEF DeliveryInv
  <2>1. CASE i \in ForMember(UserOf[c]) \ unpushed
    <3>1. i \in ForMember(UserOf[c]) \ unpushed' /\ i \in ForMember(UserOf[c])'
      BY <1>4, <2>1
    <3>2. Reached(i, c, K, cut)
      BY <1>4, <2>1
    <3> QED
      BY <1>4, <2>0, <3>1, <3>2, ReachedStays
  <2>2. CASE Got(i, c)'
    BY <2>2
  <2> QED
    BY <1>3, <1>4, <2>1, <2>2
<1>5. CASE sync'[c] = sync[c] /\ sock[c] = "open"
  <2>1. Batch(c)' = Batch(c)
    BY <1>5 DEF Batch
  <2>2. ASSUME sync'[c].pc = "done", NEW i \in ForMember(UserOf[c])' \ unpushed'
        PROVE  Reached(i, c, {}, cut)'
    <3> DEFINE none == {}
    <3>1. i \in ForMember(UserOf[c]) \ unpushed => Reached(i, c, none, cut)
      BY <1>5, <2>2 DEF DeliveryInv
    <3>2. \A j \in none : j \in none \/ rows'[j] \in PushedTo(c)'
      OBVIOUS
    <3> HIDE DEF none
    <3>3. \/ Got(i, c)' \/ i \in none
          \/ cut /\ Cardinality({j \in Ids' : j < i /\
                       (rows'[j] \in recv'[UserOf[c]] \cup PushedTo(c)' \/ j \in none)}) >= SyncLimit
      BY <1>4, <1>5, <2>2, <3>1, <3>2
    <3> QED
      BY <3>3 DEF Reached, Below, none
  <2>3. ASSUME sync'[c].pc = "push", NEW i \in ForMember(UserOf[c])' \ unpushed'
        PROVE  Reached(i, c, Batch(c), cut)'
    <3>1. i \in ForMember(UserOf[c]) \ unpushed => Reached(i, c, Batch(c), cut)
      BY <1>5, <2>3 DEF DeliveryInv
    <3> QED
      BY <1>4, <1>5, <2>1, <2>3, <3>1 DEF Reached, Below
  <2> QED
    BY <1>1, <2>2, <2>3
<1>6. CASE sock[c] = "open" /\ SyncSelect(c)
  <2>1. sync'[c].pc = "push" /\ UNCHANGED <<rows, recv, cursor, chan>>
    BY <1>6 DEF SyncSelect, TypeOK, db, net, page
  <2>2. Ids' = Ids /\ PushedTo(c)' = PushedTo(c)
    BY <2>1 DEF Ids, PushedTo, Frames
  <2>3. ASSUME NEW i \in ForMember(UserOf[c])' \ unpushed' PROVE Reached(i, c, Batch(c), cut)'
    <3>1. CASE i \in Backlog(UserOf[c])
      <4>1. i \in Batch(c)' \/ (cut /\ Cardinality(Below(i, c, Batch(c)')) >= SyncLimit)
        BY <1>6, <3>1, BacklogReaches
      <4> QED
        BY <2>1, <2>2, <4>1 DEF Reached, Below
    <3>2. CASE i \notin Backlog(UserOf[c]) /\ i \in ForMember(UserOf[c])
      <4>1. i \in Ids /\ i \in Nat /\ cursor[UserOf[c]] \in Nat
        BY <1>0, <3>2, RowsTyped DEF ForMember, TypeOK
      <4>2. i <= cursor'[UserOf[c]]
        BY <2>1, <3>2, <4>1 DEF Backlog
      <4> QED
        BY <4>2 DEF Reached, Got
    <3> QED
      BY <1>3, <2>3, <3>1, <3>2 DEF Reached
  <2> QED
    BY <1>1, <2>1, <2>3
<1>7. CASE sock[c] = "open" /\ SyncPush(c)
  <2>1. sync'[c].pc = "done" /\ sync[c].pc = "push" /\ UNCHANGED rows
    BY <1>7 DEF SyncPush, NoSync, TypeOK, db
  <2>2. \A j \in Batch(c) : rows'[j] \in PushedTo(c)'
    BY <1>7, <2>1, SyncPushFrames DEF Batch
  <2>3. ASSUME NEW i \in ForMember(UserOf[c])' \ unpushed' PROVE Reached(i, c, {}, cut)'
    <3> DEFINE none == {}
    <3>1. i \in ForMember(UserOf[c]) \ unpushed => Reached(i, c, Batch(c), cut)
      BY <1>7, <2>1 DEF DeliveryInv
    <3>2. \A j \in Batch(c) : j \in none \/ rows'[j] \in PushedTo(c)'
      BY <2>2
    <3> HIDE DEF none
    <3>3. \/ Got(i, c)' \/ i \in none
          \/ cut /\ Cardinality({j \in Ids' : j < i /\
                       (rows'[j] \in recv'[UserOf[c]] \cup PushedTo(c)' \/ j \in none)}) >= SyncLimit
      BY <1>4, <1>7, <2>3, <3>1, <3>2
    <3> QED
      BY <3>3 DEF Reached, Below, none
  <2> QED
    BY <1>1, <2>1, <2>3
<1>8. CASE SyncFails(c)
  <2>1. sync'[c].pc = "failed"
    BY <1>8 DEF SyncFails, TypeOK
  <2> QED
    BY <1>1, <2>1
<1> QED
  BY <1>2, <1>5, <1>6, <1>7, <1>8, SyncChanges DEF SyncStep

LEMMA DeliveryInit == ASSUME Init, NEW cut PROVE OwnInv /\ DeliveryInv(cut)
  BY DEF Init, OwnInv, DeliveryInv, Idle

LEMMA OwnAlways == Spec => [](TypeOK /\ OwnInv)
<1>1. Init => OwnInv
  BY DEF Init, OwnInv, Idle
<1> QED
  BY <1>1, TypeInit, TypeStep, OwnStep, PTL DEF Spec

\* What a synced member misses of the backlog comes after SyncLimit messages their page
\* was given, whatever fails and whoever leaves or reads (GroupBacklogGivesOldest).
THEOREM OldestFirst == Spec => []GroupBacklogGivesOldest
<1>1. Init => DeliveryInv(TRUE)
  BY DeliveryInit
<1>2. TypeOK /\ OwnInv /\ DeliveryInv(TRUE) /\ [Next]_vars => DeliveryInv(TRUE)'
  BY DeliveryStep
<1>3. DeliveryInv(TRUE) => GroupBacklogGivesOldest
  <2> SUFFICES ASSUME DeliveryInv(TRUE), NEW c \in Conns, sock[c] = "open", sync[c] = NoSync,
                      NEW i \in ForMember(UserOf[c]) \ unpushed
               PROVE  Got(i, c) \/ Cardinality({j \in Ids : j < i /\
                          rows[j] \in recv[UserOf[c]] \cup PushedTo(c)}) >= SyncLimit
    BY DEF GroupBacklogGivesOldest, Got, OnItsWay
  <2>1. sync[c].pc = "done"
    BY DEF NoSync
  <2>2. Reached(i, c, {}, TRUE)
    BY <2>1 DEF DeliveryInv
  <2>3. Below(i, c, {}) = {j \in Ids : j < i /\ rows[j] \in recv[UserOf[c]] \cup PushedTo(c)}
    BY DEF Below
  <2> QED
    BY <2>2, <2>3 DEF Reached
<1> QED
  BY <1>1, <1>2, <1>3, OwnAlways, PTL DEF Spec

\* While the backlog fits its limit, a member who is connected and synced has, or is
\* being sent, every message stored since they joined that is not behind their cursor.
THEOREM NothingIsLost == Spec /\ []BacklogFits => []NoLostGroupMessage
<1>1. Init => DeliveryInv(FALSE)
  BY DeliveryInit
<1>2. TypeOK /\ OwnInv /\ BacklogFits /\ DeliveryInv(FALSE) /\ [Next]_vars => DeliveryInv(FALSE)'
  BY DeliveryStep
<1>3. DeliveryInv(FALSE) => NoLostGroupMessage
  BY DEF DeliveryInv, NoLostGroupMessage, Reached, Got, NoSync
<1> QED
  BY <1>1, <1>2, <1>3, OwnAlways, PTL DEF Spec
=============================================================================
