-------------------------- MODULE PrivateChatProofs --------------------------
(* Safety of a private conversation for any number of messages, connections, *)
(* resends, restarts and failures.                                           *)
EXTENDS PrivateChat, TLAPS, SequenceTheorems, FiniteSetTheorems

-----------------------------------------------------------------------------
(* Types                                                                   *)

LEMMA TypeInit == Init => TypeOK
<1> SUFFICES ASSUME Init PROVE TypeOK
  OBVIOUS
<1>1. /\ rows \in Seq([key : Msgs, seen : BOOLEAN])
      /\ up \in [Conns -> Seq(Request)] /\ chan \in [Conns -> Seq(Frame)]
  BY DEF Init
<1>2. /\ task \in [Conns -> Working] /\ sync \in [Conns -> Syncing]
      /\ hist \in Loading /\ shist \in Reloading
  BY DEF Init, Idle, Working, Syncing, Loading, Reloading
<1>3. sends \in [Msgs -> 0..MaxSends] /\ reloads \in 0..MaxReloads /\ crashes \in 0..MaxCrashes
  BY PrivateChatAssumption DEF Init
<1>4. awaited \in [Conns -> [Msgs -> Int]]
  BY DEF Init
<1> QED
  BY <1>1, <1>2, <1>3, <1>4 DEF Init, TypeOK

\* Rows are never removed, so that what names them stays of its type.
LEMMA TypesGrow ==
    ASSUME Ids \subseteq Ids'
    PROVE  /\ Frame \subseteq Frame' /\ Working \subseteq Working'
           /\ Loading \subseteq Loading' /\ Reloading \subseteq Reloading'
           /\ [Conns -> Seq(Frame)] \subseteq [Conns -> Seq(Frame')]
           /\ [Conns -> Working] \subseteq [Conns -> Working']
<1>1. /\ Frame \subseteq Frame' /\ Working \subseteq Working'
      /\ Loading \subseteq Loading' /\ Reloading \subseteq Reloading'
  BY DEF Frame, Working, Loading, Reloading
<1>2. Seq(Frame) \subseteq Seq(Frame')
  BY <1>1, SeqMonotonic
<1> QED
  BY <1>1, <1>2

LEMMA TypesStay ==
    ASSUME UNCHANGED rows
    PROVE  /\ Ids' = Ids /\ Frame' = Frame /\ Working' = Working
           /\ Loading' = Loading /\ Reloading' = Reloading
  BY DEF Ids, Frame, Working, Loading, Reloading

\* The first n numbers are n.
LEMMA UpTo ==
    ASSUME NEW n \in Nat
    PROVE  IsFiniteSet(1..n) /\ Cardinality(1..n) = n
<1>1. 1 \in Int /\ n \in Int
  OBVIOUS
<1>2. IsFiniteSet(1..n) /\ Cardinality(1..n) = IF 1 > n THEN 0 ELSE n - 1 + 1
  BY ONLY <1>1, FS_Interval
<1> QED
  BY <1>2

LEMMA RowsTyped ==
    ASSUME TypeOK
    PROVE  /\ Len(rows) \in Nat /\ Ids = 1..Len(rows)
           /\ \A i \in Ids : rows[i].key \in Msgs /\ rows[i].seen \in BOOLEAN
           /\ IsFiniteSet(Unseen) /\ Cardinality(Unseen) \in Nat
<1>1. Len(rows) \in Nat /\ Ids = 1..Len(rows) /\ rows \in [1..Len(rows) -> [key : Msgs, seen : BOOLEAN]]
  BY LenProperties DEF TypeOK, Ids
<1>2. IsFiniteSet(Ids) /\ Unseen \in SUBSET Ids
  BY <1>1, UpTo DEF Unseen
<1>3. IsFiniteSet(Unseen)
  BY <1>2, FS_Subset
<1> QED
  BY <1>1, <1>3, FS_CardinalityType

LEMMA ReplyType ==
    ASSUME TypeOK, NEW c \in Conns, NEW fs \in Seq(Frame), Reply(c, fs)
    PROVE  chan' \in [Conns -> Seq(Frame)]
<1>1. chan[c] \o fs \in Seq(Frame)
  BY ConcatProperties DEF TypeOK
<1> QED
  BY <1>1 DEF TypeOK, Reply

LEMMA SendType ==
    ASSUME TypeOK, NEW u \in {Sender, Recipient}, NEW f \in Frame, SendToUser(u, f)
    PROVE  /\ chan' \in [Conns -> Seq(Frame)]
           /\ online' \in [{Sender, Recipient} -> Conns \cup {NoConn}]
           /\ \A v \in {Sender, Recipient} : online'[v] # NoConn => UserOf(online'[v]) = v
<1>1. <<f>> \in Seq(Frame)
  OBVIOUS
<1> QED
  BY <1>1, ReplyType DEF TypeOK, SendToUser

\* What a step does to the components it changes is of its type; the rest is unchanged.
LEMMA ConnectionTypes ==
    ASSUME TypeOK, NEW c \in Conns, Connect(c) \/ Disconnect(c)
    PROVE  TypeOK'
<1>1. CASE Connect(c)
  BY <1>1 DEF Connect, TypeOK, Syncing, Idle, Ids, Frame, Request, Working, Loading,
              Reloading, page, hists, reload, UserOf, Conns
<1>2. CASE Disconnect(c)
  <2>1. \A n \in 0..Len(up[c]) : SubSeq(up[c], 1, n) \in Seq(Request)
    BY SubSeqProperties, ElementOfSeq DEF TypeOK
  <2> QED
    BY <1>2, <2>1 DEF Disconnect, TypeOK, Ids, Frame, Request, Working, Loading, Reloading,
                      Syncing, page, hists, reload
<1> QED
  BY <1>1, <1>2

LEMMA CrashTypes == TypeOK /\ Crash => TypeOK'
  BY PrivateChatAssumption
  DEF Crash, TypeOK, Ids, Frame, Request, Working, Loading, Reloading, Syncing, page, hists,
      reload, Idle

\* Marking rows changes neither their number nor their messages.
LEMMA SeenAllType ==
    ASSUME TypeOK, NEW ids, rows' = SeenAll(ids)
    PROVE  rows' \in Seq([key : Msgs, seen : BOOLEAN]) /\ Ids' = Ids
<1>1. Len(rows) \in Nat /\ rows \in [1..Len(rows) -> [key : Msgs, seen : BOOLEAN]] /\ Ids = 1..Len(rows)
  BY LenProperties DEF TypeOK, Ids
<1>2. \A i \in Ids : [rows[i] EXCEPT !.seen = rows[i].seen \/ i \in ids] \in [key : Msgs, seen : BOOLEAN]
  BY <1>1
<1>3. DOMAIN rows' = Ids /\ rows' = [i \in DOMAIN rows' |-> rows'[i]]
  BY DEF SeenAll
<1>3a. \A i \in Ids : rows'[i] = [rows[i] EXCEPT !.seen = rows[i].seen \/ i \in ids]
  BY DEF SeenAll
<1>4. rows' \in [Ids -> [key : Msgs, seen : BOOLEAN]]
  BY <1>2, <1>3, <1>3a
<1>5. \E n \in Nat : rows' \in [1..n -> [key : Msgs, seen : BOOLEAN]]
  BY <1>1, <1>4
<1>6. rows' \in UNION {[1..n -> [key : Msgs, seen : BOOLEAN]] : n \in Nat}
  BY <1>5
<1>7. rows' \in Seq([key : Msgs, seen : BOOLEAN])
  BY <1>6, SeqDef
<1> QED
  BY <1>3, <1>7 DEF Ids

LEMMA TaskTypes ==
    ASSUME TypeOK, NEW c \in Conns, TaskStep(c)
    PROVE  TypeOK'
<1> USE DEF page, hists, reload
<1>k. /\ task[c] \in Working
      /\ task[c].pc \in {"private_chat", "lookup", "push", "ack"} => task[c].key \in Msgs
  BY DEF TypeOK, Working, Request
<1>1. CASE TakeFrame(c)
  <2>1. up[c] \in Seq(Request) /\ up[c] # <<>>
    BY <1>1 DEF TakeFrame, TypeOK
  <2>2. Head(up[c]) \in Request /\ Tail(up[c]) \in Seq(Request)
    BY <2>1, HeadTailProperties
  <2>3. task' \in [Conns -> Working] /\ up' \in [Conns -> Seq(Request)]
    BY <1>1, <2>2 DEF TakeFrame, TypeOK, Working
  <2> QED
    BY <1>1, <2>3 DEF TakeFrame, TypeOK, Ids, Frame, Working, Loading, Reloading
<1>2. CASE PersistInsert(c)
  <2>1. CASE task' = [task EXCEPT ![c] = [pc |-> "lookup", key |-> task[c].key]] /\ UNCHANGED rows
    <3>1. task' \in [Conns -> Working]
      BY <1>2, <1>k, <2>1 DEF PersistInsert, TypeOK, Working
    <3> QED
      BY <1>2, <2>1, <3>1 DEF PersistInsert, TypeOK, Ids, Frame, Working, Loading, Reloading
  <2>2. CASE /\ rows' = Append(rows, [key |-> task[c].key, seen |-> FALSE])
             /\ task' = [task EXCEPT ![c] = [pc |-> "push", key |-> task[c].key, id |-> Len(rows) + 1]]
    <3>1. [key |-> task[c].key, seen |-> FALSE] \in [key : Msgs, seen : BOOLEAN]
      BY <1>2, <1>k DEF PersistInsert
    <3>2. /\ rows' \in Seq([key : Msgs, seen : BOOLEAN])
          /\ Len(rows) \in Nat /\ Len(rows') = Len(rows) + 1
          /\ Ids = 1..Len(rows) /\ Ids' = 1..Len(rows')
      BY <2>2, <3>1, AppendProperties, LenProperties DEF TypeOK, Ids
    <3>3. Ids \subseteq Ids' /\ Len(rows) + 1 \in Ids'
      BY <3>2
    <3>4. [pc |-> "push", key |-> task[c].key, id |-> Len(rows) + 1] \in Working'
      BY <1>2, <1>k, <3>3 DEF PersistInsert, Working
    <3>5. task' \in [Conns -> Working']
      BY <2>2, <3>3, <3>4, TypesGrow DEF TypeOK
    <3> QED
      BY <1>2, <3>2, <3>3, <3>5, TypesGrow DEF PersistInsert, TypeOK
  <2> QED
    BY <1>2, <2>1, <2>2 DEF PersistInsert, Goto
<1>3. CASE PersistLookup(c)
  <2>0. PICK i \in Ids : task' = [task EXCEPT ![c] = [pc |-> "push", key |-> task[c].key, id |-> i]]
    BY <1>3 DEF PersistLookup, Goto, RowsOf
  <2>1. [pc |-> "push", key |-> task[c].key, id |-> i] \in Working
    BY <1>3, <1>k DEF PersistLookup, Working
  <2>1a. task' \in [Conns -> Working]
    BY <2>0, <2>1 DEF TypeOK
  <2> QED
    BY <1>3, <2>1a DEF PersistLookup, TypeOK, Ids, Frame, Working, Loading, Reloading
<1>4. CASE PersistFails(c)
  <2>1. <<[cmd |-> "error", key |-> task[c].key]>> \in Seq(Frame)
    BY <1>4, <1>k DEF PersistFails, Frame
  <2>2. chan' \in [Conns -> Seq(Frame)]
    BY <1>4, <2>1, ReplyType DEF PersistFails
  <2>3. task' \in [Conns -> Working]
    BY <1>4 DEF PersistFails, Goto, Idle, TypeOK, Working
  <2> QED
    BY <1>4, <2>2, <2>3 DEF PersistFails, TypeOK, Ids, Frame, Working, Loading, Reloading
<1>5. CASE PushToRecipient(c)
  <2>1. [cmd |-> "private_push", key |-> task[c].key] \in Frame
    BY <1>5, <1>k DEF PushToRecipient, Frame
  <2>2. [task[c] EXCEPT !.pc = "ack"] \in Working
    BY <1>5, <1>k DEF PushToRecipient, Working, Request
  <2>3. task' \in [Conns -> Working]
    BY <1>5, <2>2 DEF PushToRecipient, Goto, TypeOK
  <2> QED
    BY <1>5, <2>1, <2>3, SendType DEF PushToRecipient, TypeOK, Ids, Frame, Working, Loading, Reloading
<1>6. CASE AckSender(c)
  <2>1. [cmd |-> "private_chat_ack", key |-> task[c].key, id |-> task[c].id] \in Frame
    BY <1>6, <1>k DEF AckSender, Frame, Working, Request
  <2> DEFINE ack == <<[cmd |-> "private_chat_ack", key |-> task[c].key, id |-> task[c].id]>>
  <2>a. ack \in Seq(Frame)
    BY <2>1
  <2>b. Reply(c, ack)
    BY <1>6 DEF AckSender
  <2>2. chan' \in [Conns -> Seq(Frame)]
    <3> HIDE DEF ack
    <3> QED
      BY <2>a, <2>b, ReplyType
  <2>3. task' \in [Conns -> Working]
    BY <1>6 DEF AckSender, Goto, Idle, TypeOK, Working
  <2> QED
    BY <1>6, <2>2, <2>3 DEF AckSender, TypeOK, Ids, Frame, Working, Loading, Reloading
<1>7. CASE MarkSeen(c)
  <2>1. rows' \in Seq([key : Msgs, seen : BOOLEAN]) /\ Ids' = Ids
    BY <1>7, SeenAllType DEF MarkSeen
  <2>2. Idle \in Working /\ [pc |-> "report", ids |-> Unseen] \in Working
    BY DEF Idle, Working, Unseen
  <2>3. task' \in [Conns -> Working]
    BY <1>7, <2>2 DEF MarkSeen, Goto, TypeOK
  <2> QED
    BY <1>7, <2>1, <2>3 DEF MarkSeen, TypeOK, Frame, Working, Loading, Reloading
<1>8. CASE MarkSeenFails(c)
  BY <1>8 DEF MarkSeenFails, Goto, Idle, TypeOK, Ids, Frame, Working, Loading, Reloading
<1>9. CASE ReportSeen(c)
  <2>1. task[c].ids \in SUBSET Ids
    BY <1>9, <1>k DEF ReportSeen, Working, Request
  <2>2. [cmd |-> "delivery_update", ids |-> task[c].ids] \in Frame
    BY <2>1 DEF Frame
  <2>3. task' \in [Conns -> Working]
    BY <1>9 DEF ReportSeen, Goto, Idle, TypeOK, Working
  <2> QED
    BY <1>9, <2>2, <2>3, SendType DEF ReportSeen, TypeOK, Ids, Frame, Working, Loading, Reloading
<1> QED
  BY <1>1, <1>2, <1>3, <1>4, <1>5, <1>6, <1>7, <1>8, <1>9 DEF TaskStep

\* The backlog of messages as the pushes that carry them.
LEMMA PushesTyped ==
    ASSUME NEW batch \in Seq(Msgs)
    PROVE  [i \in DOMAIN batch |-> [cmd |-> "private_push", key |-> batch[i]]] \in Seq(Frame)
<1> DEFINE pushes == [i \in DOMAIN batch |-> [cmd |-> "private_push", key |-> batch[i]]]
<1>1. \E n \in Nat : DOMAIN batch = 1..n
  BY LenProperties
<1>2. \A i \in DOMAIN batch : [cmd |-> "private_push", key |-> batch[i]] \in Frame
  BY LenProperties DEF Frame
<1>3. pushes \in UNION {[1..n -> Frame] : n \in Nat}
  BY <1>1, <1>2
<1> QED
  BY <1>3, SeqDef

LEMMA SyncTypes ==
    ASSUME TypeOK, NEW c \in Conns, SyncStep(c)
    PROVE  TypeOK'
<1> USE DEF page, hists, reload
<1>1. CASE SyncSelect(c)
  <2>1. PICK ids \in Ordered(Unseen), room \in Room(Unseen) :
            sync' = [sync EXCEPT ![c] = [pc |-> "push",
              batch |-> [n \in {m \in DOMAIN ids : m <= room} |-> rows[ids[n]].key]]]
    BY <1>1 DEF SyncSelect
  <2> DEFINE D == {m \in DOMAIN ids : m <= room}
             batch == [n \in D |-> rows[ids[n]].key]
  <2>2. /\ ids \in [1..Cardinality(Unseen) -> Unseen] /\ Cardinality(Unseen) \in Nat
        /\ room \in Nat
    BY RowsTyped, PrivateChatAssumption DEF Ordered, Room
  <2>3. \E k \in Nat : D = 1..k
    <3>1. CASE Cardinality(Unseen) <= room
      BY <2>2, <3>1
    <3>2. CASE ~(Cardinality(Unseen) <= room)
      <4>1. D = 1..room
        BY <2>2, <3>2
      <4> QED
        BY <2>2, <4>1
    <3> QED
      BY <3>1, <3>2
  <2>4. \A n \in D : rows[ids[n]].key \in Msgs
    <3>1. \A n \in D : ids[n] \in Ids
      BY <2>2 DEF Unseen
    <3> QED
      BY <3>1, RowsTyped
  <2>5. batch \in UNION {[1..k -> Msgs] : k \in Nat}
    BY <2>3, <2>4
  <2>6. [pc |-> "push", batch |-> batch] \in Syncing
    BY <2>5, SeqDef DEF Syncing
  <2>7. sync' \in [Conns -> Syncing]
    BY <2>1, <2>6 DEF TypeOK
  <2> QED
    BY <1>1, <2>7 DEF SyncSelect, TypeOK, Ids, Frame, Working, Loading, Reloading
<1>2. CASE SyncFails(c)
  BY <1>2 DEF SyncFails, TypeOK, Syncing, Idle, Ids, Frame, Working, Loading, Reloading
<1>3. CASE SyncPush(c)
  <2> DEFINE pushes == [i \in DOMAIN sync[c].batch |->
                          [cmd |-> "private_push", key |-> sync[c].batch[i]]]
  <2>1. sync[c].batch \in Seq(Msgs)
    BY <1>3 DEF SyncPush, TypeOK, Syncing
  <2>2. pushes \in Seq(Frame)
    BY <2>1, PushesTyped
  <2>3. Reply(c, pushes)
    BY <1>3 DEF SyncPush
  <2>4. chan' \in [Conns -> Seq(Frame)]
    <3> HIDE DEF pushes
    <3> QED
      BY <2>2, <2>3, ReplyType
  <2>5. sync' \in [Conns -> Syncing]
    BY <1>3 DEF SyncPush, TypeOK, Syncing, Idle
  <2> QED
    BY <1>3, <2>4, <2>5 DEF SyncPush, TypeOK, Ids, Frame, Working, Loading, Reloading
<1> QED
  BY <1>1, <1>2, <1>3 DEF SyncStep

LEMMA HistoryTypes ==
    ASSUME TypeOK,
           OpenChat \/ CloseChat \/ HistStep \/ SenderHistSelect \/ SenderHistStep
    PROVE  TypeOK'
<1> USE DEF page, hists, reload
<1>1. CASE OpenChat \/ CloseChat
  BY <1>1, TypesStay DEF OpenChat, CloseChat, TypeOK, Loading
<1>2. CASE HistUpdate
  <2>1. rows' \in Seq([key : Msgs, seen : BOOLEAN]) /\ Ids' = Ids
    BY <1>2, SeenAllType DEF HistUpdate, TypeOK, Ids
  <2>2. hist' \in Loading
    BY <1>2 DEF HistUpdate, Loading, Unseen
  <2> QED
    BY <1>2, <2>1, <2>2 DEF HistUpdate, TypeOK, Frame, Working, Loading, Reloading
<1>3. CASE HistSelect
  <2>1. hist.ids \in SUBSET Ids
    BY <1>3 DEF HistSelect, TypeOK, Loading
  <2>2. [cmd |-> "delivery_update", ids |-> hist.ids] \in Frame
    BY <2>1 DEF Frame
  <2>3. {rows[i].key : i \in Ids} \in SUBSET Msgs
    BY RowsTyped
  <2>4. hist' \in Loading
    BY <1>3, <2>3 DEF HistSelect, Loading
  <2>5. \/ UNCHANGED <<online, chan>>
        \/ SendToUser(Sender, [cmd |-> "delivery_update", ids |-> hist.ids])
    BY <1>3 DEF HistSelect
  <2>6. /\ chan' \in [Conns -> Seq(Frame)]
        /\ online' \in [{Sender, Recipient} -> Conns \cup {NoConn}]
        /\ \A v \in {Sender, Recipient} : online'[v] # NoConn => UserOf(online'[v]) = v
    BY <2>2, <2>5, SendType DEF TypeOK
  <2> QED
    BY <1>3, <2>4, <2>6 DEF HistSelect, TypeOK, Ids, Frame, Working, Loading, Reloading
<1>4. CASE HistAborts \/ HistRespond
  <2>1. hist' \in Loading /\ recv' \subseteq Msgs
    BY <1>4 DEF HistAborts, HistRespond, TypeOK, Idle, Loading
  <2> QED
    BY <1>4, <2>1, TypesStay DEF HistAborts, HistRespond, TypeOK
<1>5. CASE SenderHistSelect
  <2>1. shist' \in Reloading
    BY <1>5 DEF SenderHistSelect, Reloading
  <2> QED
    BY <1>5, <2>1, PrivateChatAssumption, TypesStay DEF SenderHistSelect, TypeOK
<1>6. CASE SenderHistStep
  <2>1. shist' \in Reloading /\ known' \cup read' \subseteq Ids
    BY <1>6
    DEF SenderHistStep, SenderHistAborts, SenderHistRespond, TypeOK, Idle, Reloading
  <2> QED
    BY <1>6, <2>1, TypesStay DEF SenderHistStep, SenderHistAborts, SenderHistRespond, TypeOK
<1> QED
  BY <1>1, <1>2, <1>3, <1>4, <1>5, <1>6 DEF HistStep

LEMMA SendMessageTypes ==
    ASSUME TypeOK, NEW c \in Conns, NEW k \in Msgs, SendMessage(c, k)
    PROVE  TypeOK'
<1>1. Append(up[c], [pc |-> "private_chat", key |-> k]) \in Seq(Request)
  BY AppendProperties DEF TypeOK, Request
<1>2. up' \in [Conns -> Seq(Request)]
  BY <1>1 DEF SendMessage, TypeOK
<1>3. sends' \in [Msgs -> 0..MaxSends]
  BY PrivateChatAssumption DEF SendMessage, TypeOK
<1> QED
  BY <1>2, <1>3
  DEF SendMessage, TypeOK, hists, reload, Ids, Frame, Working, Loading, Reloading

LEMMA ClientTypes ==
    ASSUME TypeOK, NEW c \in Conns, ClientRead(c)
    PROVE  TypeOK'
<1>1. /\ chan[c] \in Seq(Frame) /\ chan[c] # <<>>
      /\ chan' = [chan EXCEPT ![c] = Tail(@)]
      /\ UNCHANGED <<rows, online, sock, task, sync, hists, viewing, sends, crashes>>
  BY DEF TypeOK, ClientRead, HandlePush, HandleAck, HandleDeliveryUpdate, IgnoreError, Took
<1>2. Head(chan[c]) \in Frame /\ chan' \in [Conns -> Seq(Frame)]
  BY <1>1, HeadTailProperties DEF TypeOK
<1>3. /\ Frame' = Frame /\ Working' = Working /\ Loading' = Loading /\ Reloading' = Reloading
      /\ Ids' = Ids /\ UNCHANGED <<hist, shist, reloads>>
  BY <1>1 DEF Ids, Frame, Working, Loading, Reloading, hists, reload
<1>4. CASE HandlePush(c)
  <2>1. Append(up[c], [pc |-> "mark_seen"]) \in Seq(Request)
    BY AppendProperties DEF TypeOK, Request
  <2>2. up' \in [Conns -> Seq(Request)] /\ recv' \subseteq Msgs
    BY <1>2, <1>4, <2>1 DEF HandlePush, Took, TypeOK, Frame
  <2> QED
    BY <1>1, <1>2, <1>3, <1>4, <2>2 DEF HandlePush, TypeOK
<1>5. CASE HandleAck(c)
  <2>1. Head(chan[c]).key \in Msgs /\ Head(chan[c]).id \in Ids
    BY <1>2, <1>5 DEF HandleAck, Took, Frame
  <2> QED
    BY <1>1, <1>2, <1>3, <1>5, <2>1 DEF HandleAck, TypeOK
<1>6. CASE HandleDeliveryUpdate(c)
  <2>1. Head(chan[c]).ids \subseteq Ids
    BY <1>2, <1>6 DEF HandleDeliveryUpdate, Took, Frame
  <2> QED
    BY <1>1, <1>2, <1>3, <1>6, <2>1 DEF HandleDeliveryUpdate, TypeOK
<1>7. CASE IgnoreError(c)
  <2>1. Head(chan[c]).key \in Msgs
    BY <1>2, <1>7 DEF IgnoreError, Took, Frame
  <2> QED
    BY <1>1, <1>2, <1>3, <1>7, <2>1 DEF IgnoreError, TypeOK
<1> QED
  BY <1>4, <1>5, <1>6, <1>7 DEF ClientRead

LEMMA TypeStep == TypeOK /\ [Next]_vars => TypeOK'
<1> SUFFICES ASSUME TypeOK, [Next]_vars PROVE TypeOK'
  OBVIOUS
<1>1. CASE UNCHANGED vars
  BY <1>1, TypesStay DEF vars, page, hists, reload, TypeOK
<1>2. ASSUME NEW c \in Conns, Connect(c) \/ Disconnect(c) PROVE TypeOK'
  BY <1>2, ConnectionTypes
<1>3. ASSUME NEW c \in Conns, TaskStep(c) \/ SyncStep(c) \/ ClientRead(c) PROVE TypeOK'
  BY <1>3, TaskTypes, SyncTypes, ClientTypes
<1>4. ASSUME NEW c \in Conns, NEW k \in Msgs, SendMessage(c, k) PROVE TypeOK'
  BY <1>4, SendMessageTypes
<1>5. CASE OpenChat \/ CloseChat \/ HistStep \/ SenderHistSelect \/ SenderHistStep
  BY <1>5, HistoryTypes
<1>6. CASE Crash
  BY <1>6, CrashTypes
<1> QED
  BY <1>1, <1>2, <1>3, <1>4, <1>5, <1>6 DEF Next

\* Type correctness of the rows, the connections, the tasks, the frames and the pages.
THEOREM TypeCorrect == Spec => []TypeOK
  BY TypeInit, TypeStep, PTL DEF Spec

-----------------------------------------------------------------------------
(* What a step does to the rows and to the frames                          *)

\* The one statement that adds a row, and those that mark rows.
LEMMA RowChanges ==
    ASSUME [Next]_vars
    PROVE  \/ UNCHANGED rows
           \/ rows' = SeenAll(Unseen)
           \/ \E c \in Conns : PersistInsert(c) /\ ~UNCHANGED rows
  BY DEF Next, vars, Connect, Disconnect, Crash, TaskStep, TakeFrame, PersistLookup,
         PersistFails, PushToRecipient, AckSender, MarkSeen, MarkSeenFails, ReportSeen,
         SyncStep, SyncSelect, SyncFails, SyncPush, OpenChat, CloseChat, HistStep, HistUpdate,
         HistSelect, HistAborts, HistRespond, SenderHistSelect, SenderHistStep,
         SenderHistAborts, SenderHistRespond, SendMessage, ClientRead, HandlePush, HandleAck,
         HandleDeliveryUpdate, IgnoreError, Took

\* Rows keep their number and message, and seen is never taken back.
LEMMA RowsStep ==
    ASSUME TypeOK, [Next]_vars
    PROVE  /\ Ids \subseteq Ids'
           /\ \A i \in Ids : rows'[i].key = rows[i].key /\ (rows[i].seen => rows'[i].seen)
<1>1. CASE UNCHANGED rows
  BY <1>1 DEF Ids
<1>2. ASSUME NEW ids, rows' = SeenAll(ids)
      PROVE  /\ Ids \subseteq Ids'
             /\ \A i \in Ids : rows'[i].key = rows[i].key /\ (rows[i].seen => rows'[i].seen)
  <2>1. Ids' = Ids /\ \A i \in Ids : rows'[i] = [rows[i] EXCEPT !.seen = rows[i].seen \/ i \in ids]
    BY <1>2 DEF SeenAll, Ids
  <2>2. rows \in [1..Len(rows) -> [key : Msgs, seen : BOOLEAN]] /\ Ids = 1..Len(rows)
    BY LenProperties DEF TypeOK, Ids
  <2>3. \A i \in Ids : rows[i] \in [key : Msgs, seen : BOOLEAN]
    BY <2>2
  <2> QED
    BY <2>1, <2>3
<1>3. ASSUME NEW c \in Conns, PersistInsert(c), ~UNCHANGED rows
      PROVE  /\ Ids \subseteq Ids'
             /\ \A i \in Ids : rows'[i].key = rows[i].key /\ (rows[i].seen => rows'[i].seen)
  <2>1. rows' = Append(rows, [key |-> task[c].key, seen |-> FALSE])
    BY <1>3 DEF PersistInsert
  <2>2. [key |-> task[c].key, seen |-> FALSE] \in [key : Msgs, seen : BOOLEAN]
    BY <1>3 DEF PersistInsert, TypeOK, Working, Request
  <2>3. Ids' = 1..Len(rows) + 1 /\ \A i \in 1..Len(rows) : rows'[i] = rows[i]
    BY <2>1, <2>2, AppendProperties, LenProperties DEF TypeOK, Ids
  <2> QED
    BY <2>3, RowsTyped
<1>4. \/ UNCHANGED rows
      \/ rows' = SeenAll(Unseen)
      \/ \E c \in Conns : PersistInsert(c)
  BY RowChanges
<1> QED
  BY <1>1, <1>2, <1>3, <1>4

\* A reply leaves the frames before it in place.
LEMMA ReplyFrames ==
    ASSUME TypeOK, NEW c \in Conns, NEW fs \in Seq(Frame), Reply(c, fs),
           NEW d \in Conns, NEW n \in DOMAIN chan'[d]
    PROVE  \/ n \in DOMAIN chan[d] /\ chan'[d][n] = chan[d][n]
           \/ /\ d = c /\ sock[c] = "open"
              /\ n > Len(chan[c]) /\ n - Len(chan[c]) \in 1..Len(fs)
              /\ chan'[d][n] = fs[n - Len(chan[c])]
<1>1. chan[c] \in Seq(Frame) /\ chan \in [Conns -> Seq(Frame)]
  BY DEF TypeOK
<1>2. CASE sock[c] = "open" /\ d = c
  <2>1. chan'[d] = chan[c] \o fs
    BY <1>1, <1>2 DEF Reply
  <2>2. /\ Len(chan[c]) \in Nat /\ Len(fs) \in Nat
        /\ DOMAIN chan[c] = 1..Len(chan[c]) /\ DOMAIN chan'[d] = 1..Len(chan[c]) + Len(fs)
        /\ \A m \in 1..Len(chan[c]) + Len(fs) :
             chan'[d][m] = IF m <= Len(chan[c]) THEN chan[c][m] ELSE fs[m - Len(chan[c])]
    <3>1. chan'[d] \in Seq(Frame)
      BY <1>1, <2>1, ConcatProperties
    <3> QED
      BY <1>1, <2>1, <3>1, ConcatProperties, LenProperties
  <2> QED
    BY <1>2, <2>2
<1>3. CASE ~(sock[c] = "open" /\ d = c)
  BY <1>1, <1>3 DEF Reply
<1> QED
  BY <1>2, <1>3

LEMMA SendFrames ==
    ASSUME TypeOK, NEW u \in {Sender, Recipient}, NEW f \in Frame, SendToUser(u, f),
           NEW d \in Conns, NEW n \in DOMAIN chan'[d]
    PROVE  \/ n \in DOMAIN chan[d] /\ chan'[d][n] = chan[d][n]
           \/ /\ d = online[u] /\ sock[d] = "open"
              /\ n = Len(chan[d]) + 1 /\ n \notin DOMAIN chan[d] /\ chan'[d][n] = f
<1>1. CASE online[u] # NoConn /\ sock[online[u]] = "open"
  <2> DEFINE fs == <<f>>
  <2>1. online[u] \in Conns /\ fs \in Seq(Frame) /\ Reply(online[u], fs)
    BY <1>1 DEF SendToUser, TypeOK
  <2>2. \/ n \in DOMAIN chan[d] /\ chan'[d][n] = chan[d][n]
        \/ /\ d = online[u] /\ sock[d] = "open"
           /\ n > Len(chan[d]) /\ n - Len(chan[d]) \in 1..Len(fs)
           /\ chan'[d][n] = fs[n - Len(chan[d])]
    <3> HIDE DEF fs
    <3> QED
      BY <2>1, ReplyFrames
  <2>3. Len(chan[d]) \in Nat /\ DOMAIN chan[d] = 1..Len(chan[d])
    BY LenProperties DEF TypeOK
  <2>4. Len(fs) = 1 /\ fs[1] = f
    OBVIOUS
  <2>5. DOMAIN chan'[d] \subseteq Nat
    BY <2>1, ReplyType, LenProperties
  <2> QED
    BY <2>2, <2>3, <2>4, <2>5
<1>2. CASE ~(online[u] # NoConn /\ sock[online[u]] = "open")
  BY <1>2 DEF SendToUser
<1> QED
  BY <1>1, <1>2

LEMMA TookFrames ==
    ASSUME TypeOK, NEW c \in Conns, NEW cmd, Took(c, cmd)
    PROVE  /\ Head(chan[c]) = chan[c][1] /\ 1 \in DOMAIN chan[c] /\ chan[c][1].cmd = cmd
           /\ Head(chan[c]) \in Frame
           /\ \A d \in Conns \ {c} : chan'[d] = chan[d]
           /\ \A n \in DOMAIN chan'[c] :
                n \in Nat \ {0} /\ n + 1 \in DOMAIN chan[c] /\ chan'[c][n] = chan[c][n + 1]
<1>1. chan[c] \in Seq(Frame) /\ chan[c] # <<>> /\ chan \in [Conns -> Seq(Frame)]
  BY DEF TypeOK, Took
<1>2. /\ Len(Tail(chan[c])) = Len(chan[c]) - 1 /\ Tail(chan[c]) \in Seq(Frame)
      /\ Head(chan[c]) \in Frame
      /\ \A i \in 1..Len(Tail(chan[c])) : Tail(chan[c])[i] = chan[c][i+1]
  BY <1>1, HeadTailProperties
<1>3. /\ Len(chan[c]) \in Nat \ {0} /\ DOMAIN chan[c] = 1..Len(chan[c])
      /\ DOMAIN Tail(chan[c]) = 1..Len(Tail(chan[c]))
  BY <1>1, <1>2, LenProperties, EmptySeq
<1>4. Head(chan[c]) = chan[c][1]
  BY <1>1
<1> QED
  BY <1>1, <1>2, <1>3, <1>4 DEF Took

LEMMA DroppedFrames ==
    ASSUME TypeOK, Crash \/ \E c \in Conns : Disconnect(c)
    PROVE  \A d \in Conns : \A n \in DOMAIN chan'[d] :
             n \in DOMAIN chan[d] /\ chan'[d][n] = chan[d][n]
<1>1. \A d \in Conns : chan'[d] = chan[d] \/ chan'[d] = <<>>
  BY DEF Disconnect, Crash, TypeOK
<1>2. DOMAIN <<>> = {}
  OBVIOUS
<1> QED
  BY <1>1, <1>2

\* What the sync task of a connection is to push.
Batch(c) == {sync[c].batch[n] : n \in DOMAIN sync[c].batch}

LEMMA SyncPushFrames ==
    ASSUME TypeOK, NEW c \in Conns, SyncPush(c), NEW d \in Conns, NEW n \in DOMAIN chan'[d]
    PROVE  \/ n \in DOMAIN chan[d] /\ chan'[d][n] = chan[d][n]
           \/ chan'[d][n].cmd = "private_push" /\ chan'[d][n].key \in Batch(c)
<1> DEFINE pushes == [i \in DOMAIN sync[c].batch |->
                        [cmd |-> "private_push", key |-> sync[c].batch[i]]]
<1>1. sync[c].batch \in Seq(Msgs)
  BY DEF SyncPush, TypeOK, Syncing
<1>2. pushes \in Seq(Frame)
  BY <1>1, PushesTyped
<1>3. Reply(c, pushes)
  BY DEF SyncPush
<1>4. \A m \in 1..Len(pushes) : pushes[m].cmd = "private_push" /\ pushes[m].key \in Batch(c)
  BY <1>2, LenProperties DEF Batch
<1> HIDE DEF pushes
<1> QED
  BY <1>2, <1>3, <1>4, ReplyFrames

LEMMA ErrorFrames ==
    ASSUME TypeOK, NEW c \in Conns, PersistFails(c), NEW d \in Conns, NEW n \in DOMAIN chan'[d]
    PROVE  \/ n \in DOMAIN chan[d] /\ chan'[d][n] = chan[d][n]
           \/ chan'[d][n].cmd = "error"
<1> DEFINE f == [cmd |-> "error", key |-> task[c].key]
           fs == <<f>>
<1>1. f \in Frame
  BY DEF PersistFails, Frame, TypeOK, Working, Request
<1>2. fs \in Seq(Frame) /\ Len(fs) = 1 /\ fs[1] = f /\ f.cmd = "error"
  BY <1>1
<1>3. Reply(c, fs)
  BY DEF PersistFails
<1> HIDE DEF fs, f
<1>4. \A m \in 1..Len(fs) : fs[m].cmd = "error"
  BY <1>2
<1> QED
  BY <1>2, <1>3, <1>4, ReplyFrames

LEMMA AckFrames ==
    ASSUME TypeOK, NEW c \in Conns, AckSender(c), NEW d \in Conns, NEW n \in DOMAIN chan'[d]
    PROVE  \/ n \in DOMAIN chan[d] /\ chan'[d][n] = chan[d][n]
           \/ d = c /\ chan'[d][n] = [cmd |-> "private_chat_ack", key |-> task[c].key,
                                      id |-> task[c].id]
<1> DEFINE f == [cmd |-> "private_chat_ack", key |-> task[c].key, id |-> task[c].id]
           fs == <<f>>
<1>1. f \in Frame
  BY DEF AckSender, Frame, TypeOK, Working, Request
<1>2. fs \in Seq(Frame) /\ Len(fs) = 1 /\ fs[1] = f
  BY <1>1
<1>3. Reply(c, fs)
  BY DEF AckSender
<1>4. \/ n \in DOMAIN chan[d] /\ chan'[d][n] = chan[d][n]
      \/ d = c /\ chan'[d][n] = f
  <2> HIDE DEF fs, f
  <2>1. \A m \in 1..Len(fs) : fs[m] = f
    BY <1>2
  <2> QED
    BY <1>2, <1>3, <2>1, ReplyFrames
<1> QED
  BY <1>4

LEMMA PushFrames ==
    ASSUME TypeOK, NEW c \in Conns, PushToRecipient(c), NEW d \in Conns, NEW n \in DOMAIN chan'[d]
    PROVE  \/ n \in DOMAIN chan[d] /\ chan'[d][n] = chan[d][n]
           \/ chan'[d][n].cmd = "private_push" /\ chan'[d][n].key = task[c].key
<1> DEFINE f == [cmd |-> "private_push", key |-> task[c].key]
<1>1. f \in Frame /\ SendToUser(Recipient, f) /\ f.cmd = "private_push" /\ f.key = task[c].key
  BY DEF PushToRecipient, Frame, TypeOK, Working, Request
<1> HIDE DEF f
<1> QED
  BY <1>1, SendFrames

LEMMA ReportFrames ==
    ASSUME TypeOK, NEW ids \in SUBSET Ids,
           SendToUser(Sender, [cmd |-> "delivery_update", ids |-> ids]),
           NEW d \in Conns, NEW n \in DOMAIN chan'[d]
    PROVE  \/ n \in DOMAIN chan[d] /\ chan'[d][n] = chan[d][n]
           \/ /\ d = online[Sender] /\ n = Len(chan[d]) + 1 /\ n \notin DOMAIN chan[d]
              /\ chan'[d][n] = [cmd |-> "delivery_update", ids |-> ids]
<1> DEFINE f == [cmd |-> "delivery_update", ids |-> ids]
<1>1. f \in Frame /\ SendToUser(Sender, f)
  BY DEF Frame
<1>2. \/ n \in DOMAIN chan[d] /\ chan'[d][n] = chan[d][n]
      \/ /\ d = online[Sender] /\ n = Len(chan[d]) + 1 /\ n \notin DOMAIN chan[d]
         /\ chan'[d][n] = f
  <2> HIDE DEF f
  <2> QED
    BY <1>1, SendFrames
<1> QED
  BY <1>2

\* A push is of the message of a main task, or of the batch of a sync task.
PushSource(k) ==
    \E c \in Conns : \/ PushToRecipient(c) /\ k = task[c].key
                     \/ SyncPush(c) /\ k \in Batch(c)

\* Where a frame comes from: it was there before, or a step of its kind has sent it.
LEMMA NewFrames ==
    ASSUME TypeOK, [Next]_vars, NEW d \in Conns, NEW n \in DOMAIN chan'[d]
    PROVE  \/ \E m \in DOMAIN chan[d] : chan'[d][n] = chan[d][m]
           \/ chan'[d][n].cmd \in {"error", "delivery_update"}
           \/ chan'[d][n].cmd = "private_push" /\ PushSource(chan'[d][n].key)
           \/ /\ AckSender(d)
              /\ chan'[d][n] = [cmd |-> "private_chat_ack", key |-> task[d].key, id |-> task[d].id]
<1>1. CASE UNCHANGED chan
  BY <1>1
<1>2. ASSUME Crash \/ \E c \in Conns : Disconnect(c)
      PROVE  n \in DOMAIN chan[d] /\ chan'[d][n] = chan[d][n]
  BY <1>2, DroppedFrames
<1>3. ASSUME NEW c \in Conns, TaskStep(c), ~UNCHANGED chan
      PROVE  \/ \E m \in DOMAIN chan[d] : chan'[d][n] = chan[d][m]
             \/ chan'[d][n].cmd \in {"error", "delivery_update"}
             \/ chan'[d][n].cmd = "private_push" /\ PushSource(chan'[d][n].key)
             \/ /\ AckSender(d)
                /\ chan'[d][n] = [cmd |-> "private_chat_ack", key |-> task[d].key, id |-> task[d].id]
  <2>1. PersistFails(c) \/ PushToRecipient(c) \/ AckSender(c) \/ ReportSeen(c)
    BY <1>3 DEF TaskStep, TakeFrame, PersistInsert, PersistLookup, MarkSeen, MarkSeenFails
  <2>2. CASE ReportSeen(c)
    <3>1. /\ task[c].ids \in SUBSET Ids
          /\ SendToUser(Sender, [cmd |-> "delivery_update", ids |-> task[c].ids])
      BY <2>2 DEF ReportSeen, TypeOK, Working, Request
    <3> QED
      BY <3>1, ReportFrames
  <2>3. CASE AckSender(c)
    BY <2>3, AckFrames
  <2>4. CASE PushToRecipient(c)
    <3>1. PushSource(task[c].key)
      BY <1>3, <2>4 DEF PushSource
    <3> QED
      BY <2>4, <3>1, PushFrames
  <2> QED
    BY <2>1, <2>2, <2>3, <2>4, ErrorFrames
<1>4. ASSUME NEW c \in Conns, SyncStep(c), ~UNCHANGED chan
      PROVE  \/ \E m \in DOMAIN chan[d] : chan'[d][n] = chan[d][m]
             \/ chan'[d][n].cmd = "private_push" /\ PushSource(chan'[d][n].key)
  BY <1>4, SyncPushFrames DEF PushSource, SyncStep, SyncSelect, SyncFails
<1>5. ASSUME HistSelect
      PROVE  \/ \E m \in DOMAIN chan[d] : chan'[d][n] = chan[d][m]
             \/ chan'[d][n].cmd = "delivery_update"
  <2>1. CASE UNCHANGED chan
    BY <2>1
  <2>2. CASE ~UNCHANGED chan
    <3>1. hist.ids \in SUBSET Ids /\ SendToUser(Sender, [cmd |-> "delivery_update", ids |-> hist.ids])
      BY <1>5, <2>2 DEF HistSelect, TypeOK, Loading
    <3> QED
      BY <3>1, ReportFrames
  <2> QED
    BY <2>1, <2>2
<1>6. ASSUME NEW c \in Conns, ClientRead(c)
      PROVE  \E m \in DOMAIN chan[d] : chan'[d][n] = chan[d][m]
  <2>1. PICK cmd : Took(c, cmd)
    BY <1>6 DEF ClientRead, HandlePush, HandleAck, HandleDeliveryUpdate, IgnoreError
  <2> QED
    BY <2>1, TookFrames
<1> QED
  BY <1>1, <1>2, <1>3, <1>4, <1>5, <1>6
  DEF Next, vars, Connect, OpenChat, CloseChat, HistStep, HistUpdate, HistAborts, HistRespond,
      SenderHistSelect, SenderHistStep, SenderHistAborts, SenderHistRespond, SendMessage

-----------------------------------------------------------------------------
(* A client_msg_id names one row, and acks name rows of their message      *)

KeysInv == OneRowPerKey /\ AckNamesTheMessage

\* A task that has its row, and one that has just got it.
LEMMA TaskRows ==
    ASSUME TypeOK, [Next]_vars, NEW c \in Conns, task'[c].pc \in {"push", "ack"},
           AckNamesTheMessage
    PROVE  rows'[task'[c].id].key = task'[c].key
<1>0. task \in [Conns -> Working]
  BY DEF TypeOK
<1>1. CASE task'[c] = task[c]
  <2>1. task[c].id \in Ids
    BY <1>1 DEF TypeOK, Working, Request
  <2> QED
    BY <1>1, <2>1, RowsStep DEF AckNamesTheMessage
<1>2. CASE PersistInsert(c)
  <2>1. /\ rows' = Append(rows, [key |-> task[c].key, seen |-> FALSE])
        /\ task'[c] = [pc |-> "push", key |-> task[c].key, id |-> Len(rows) + 1]
    BY <1>0, <1>2 DEF PersistInsert, Goto
  <2>2. rows'[Len(rows) + 1].key = task[c].key
    <3>1. [key |-> task[c].key, seen |-> FALSE] \in [key : Msgs, seen : BOOLEAN]
      BY <1>2 DEF PersistInsert, TypeOK, Working, Request
    <3> QED
      BY <2>1, <3>1, AppendProperties DEF TypeOK
  <2> QED
    BY <2>1, <2>2
<1>3. CASE PersistLookup(c)
  BY <1>0, <1>3 DEF PersistLookup, Goto, RowsOf
<1>4. CASE PushToRecipient(c)
  <2>1. task[c].pc = "push" /\ task'[c].id = task[c].id /\ task'[c].key = task[c].key /\ UNCHANGED rows
    BY <1>0, <1>4 DEF PushToRecipient, Goto, Working, Request
  <2> QED
    BY <2>1 DEF AckNamesTheMessage
<1>5. task'[c] = task[c] \/ PersistInsert(c) \/ PersistLookup(c) \/ PushToRecipient(c)
  <2>1. ASSUME NEW e \in Conns, TaskStep(e), e # c PROVE task'[c] = task[c]
    BY <1>0, <2>1
    DEF TaskStep, Goto, TakeFrame, PersistInsert, PersistLookup, PersistFails, PushToRecipient, AckSender,
        MarkSeen, MarkSeenFails, ReportSeen
  <2>2. ASSUME TaskStep(c) PROVE PersistInsert(c) \/ PersistLookup(c) \/ PushToRecipient(c)
    <3>1. Head(up[c]) \in Request \/ up[c] = <<>>
      BY HeadTailProperties DEF TypeOK
    <3> QED
      BY <1>0, <2>2, <3>1
      DEF TaskStep, Goto, Idle, TakeFrame, PersistFails, AckSender, MarkSeen, MarkSeenFails,
          ReportSeen, Request
  <2>3. Crash => task'[c] = Idle
    BY DEF Crash
  <2>4. UNCHANGED task \/ Crash \/ \E e \in Conns : TaskStep(e)
    BY DEF Next, vars, Connect, Disconnect, SyncStep, SyncSelect, SyncFails, SyncPush, OpenChat,
           CloseChat, HistStep, HistUpdate, HistSelect, HistAborts, HistRespond,
           SenderHistSelect, SenderHistStep, SenderHistAborts, SenderHistRespond,
           SendMessage, ClientRead, HandlePush, HandleAck, HandleDeliveryUpdate,
           IgnoreError, Took
  <2> QED
    BY <2>1, <2>2, <2>3, <2>4 DEF Idle
<1> QED
  BY <1>1, <1>2, <1>3, <1>4, <1>5

LEMMA OneRowStep ==
    ASSUME TypeOK, OneRowPerKey, [Next]_vars
    PROVE  OneRowPerKey'
<1>1. CASE Ids' = Ids
  BY <1>1, RowsStep DEF OneRowPerKey
<1>2. ASSUME NEW c \in Conns, PersistInsert(c), ~UNCHANGED rows PROVE OneRowPerKey'
  <2> DEFINE k == task[c].key
  <2>1. /\ rows' = Append(rows, [key |-> k, seen |-> FALSE])
        /\ k \in Keyed => RowsOf(k) = {}
    BY <1>2 DEF PersistInsert
  <2>2. [key |-> k, seen |-> FALSE] \in [key : Msgs, seen : BOOLEAN]
    BY <1>2 DEF PersistInsert, TypeOK, Working, Request
  <2>3. /\ Len(rows) \in Nat /\ Ids = 1..Len(rows) /\ Ids' = 1..Len(rows) + 1
        /\ \A i \in Ids : rows'[i].key = rows[i].key
        /\ rows'[Len(rows) + 1].key = k
    BY <2>1, <2>2, RowsTyped, AppendProperties, LenProperties DEF TypeOK, Ids
  <2>4. k \in Keyed => \A i \in Ids : rows[i].key # k
    BY <2>1 DEF RowsOf
  <2> HIDE DEF k
  <2> QED
    BY <2>3, <2>4 DEF OneRowPerKey
<1>3. \/ Ids' = Ids
      \/ \E c \in Conns : PersistInsert(c) /\ ~UNCHANGED rows
  BY RowChanges, SeenAllType DEF Ids
<1> QED
  BY <1>1, <1>2, <1>3

LEMMA AckStep ==
    ASSUME TypeOK, AckNamesTheMessage, [Next]_vars
    PROVE  AckNamesTheMessage'
<1>1. ASSUME NEW c \in Conns, task'[c].pc \in {"push", "ack"}
      PROVE  rows'[task'[c].id].key = task'[c].key
  BY <1>1, TaskRows
<1>2. ASSUME NEW c \in Conns, NEW n \in DOMAIN chan'[c], chan'[c][n].cmd = "private_chat_ack"
      PROVE  rows'[chan'[c][n].id].key = chan'[c][n].key
  <2>1. CASE \E m \in DOMAIN chan[c] : chan'[c][n] = chan[c][m]
    <3>1. PICK m \in DOMAIN chan[c] : chan'[c][n] = chan[c][m]
      BY <2>1
    <3>2. chan[c][m] \in Frame /\ chan[c][m] \in Frames(c)
      BY ElementOfSeq, LenProperties DEF TypeOK, Frames
    <3>3. chan[c][m].id \in Ids /\ rows[chan[c][m].id].key = chan[c][m].key
      BY <1>2, <3>1, <3>2 DEF Frame, AckNamesTheMessage
    <3> QED
      BY <3>1, <3>3, RowsStep
  <2>2. CASE /\ AckSender(c)
             /\ chan'[c][n] = [cmd |-> "private_chat_ack", key |-> task[c].key, id |-> task[c].id]
    <3>1. task[c].pc = "ack" /\ UNCHANGED rows
      BY <2>2 DEF AckSender
    <3> QED
      BY <2>2, <3>1 DEF AckNamesTheMessage
  <2> QED
    BY <1>2, <2>1, <2>2, NewFrames
<1> QED
  BY <1>1, <1>2 DEF AckNamesTheMessage, Frames

LEMMA KeysAlways == Spec => [](TypeOK /\ KeysInv)
<1>1. Init => KeysInv
  BY DEF Init, KeysInv, OneRowPerKey, AckNamesTheMessage, Ids, Frames, Idle
<1>2. TypeOK /\ KeysInv /\ [Next]_vars => KeysInv'
  BY OneRowStep, AckStep DEF KeysInv
<1> QED
  BY <1>1, <1>2, TypeInit, TypeStep, PTL DEF Spec

\* However often a client_msg_id is sent, over any number of connections and restarts,
\* persist_chat_message stores it in one row.
THEOREM KeyNamesOneRow == Spec => []OneRowPerKey
  BY KeysAlways, PTL DEF KeysInv

\* Every ack, sent or about to be, names a row of its own message.
THEOREM AcksAreRight == Spec => []AckNamesTheMessage
  BY KeysAlways, PTL DEF KeysInv

-----------------------------------------------------------------------------
(* Read receipts are true, and sent once                                   *)

\* Who holds a report of row i: a task, a frame, the history request.
InTask(c, i) == task[c].pc = "report" /\ i \in task[c].ids
InFrame(c, n, i) ==
    n \in DOMAIN chan[c] /\ chan[c][n].cmd = "delivery_update" /\ i \in chan[c][n].ids
InHist(i) == hist.pc = "select" /\ i \in hist.ids
Marked(i) == i \in Ids /\ rows[i].seen

\* What is reported, told or shown as read is marked.
Honest ==
    \A i \in Nat :
        /\ \A c \in Conns : InTask(c, i) => Marked(i)
        /\ \A c \in Conns : \A n \in Nat : InFrame(c, n, i) => Marked(i)
        /\ InHist(i) => Marked(i)
        /\ i \in told \cup read => Marked(i)
        /\ shist.pc = "respond" /\ i \in shist.seen => Marked(i)

\* At most one of them holds a report, and none of a row whose report has arrived.
Once ==
    \A i \in Nat :
        /\ \A c, d \in Conns : InTask(c, i) /\ InTask(d, i) => c = d
        /\ \A c, d \in Conns : \A n, m \in Nat :
             InFrame(c, n, i) /\ InFrame(d, m, i) => c = d /\ n = m
        /\ \A c, d \in Conns : \A n \in Nat : ~(InTask(c, i) /\ InFrame(d, n, i))
        /\ \A c \in Conns : InTask(c, i) => ~InHist(i) /\ i \notin told
        /\ \A c \in Conns : \A n \in Nat : InFrame(c, n, i) => ~InHist(i) /\ i \notin told
        /\ InHist(i) => i \notin told

ReportInv == Honest /\ Once

LEMMA MarkedStays ==
    ASSUME TypeOK, [Next]_vars, NEW i \in Nat, Marked(i)
    PROVE  Marked(i)'
  BY RowsStep DEF Marked

\* A step that reports nothing.
LEMMA QuietStep ==
    ASSUME TypeOK, ReportInv, [Next]_vars,
           \A c \in Conns, i \in Nat : InTask(c, i)' => InTask(c, i),
           \A c \in Conns, n \in Nat, i \in Nat : InFrame(c, n, i)' => InFrame(c, n, i),
           \A i \in Nat : InHist(i)' => InHist(i),
           UNCHANGED <<told, read>>,
           UNCHANGED shist \/ shist' = Idle
    PROVE  ReportInv'
<1>1. Honest'
  BY MarkedStays DEF ReportInv, Honest, Idle
<1>2. Once'
  BY DEF ReportInv, Once
<1> QED
  BY <1>1, <1>2 DEF ReportInv

\* Tasks that do not report, and frames that are no reports.
LEMMA QuietTask ==
    ASSUME TypeOK, NEW c \in Conns, NEW t, t.pc # "report", Goto(c, t)
    PROVE  \A d \in Conns, i \in Nat : InTask(d, i)' => InTask(d, i)
  BY DEF Goto, TypeOK, InTask

LEMMA QuietFrames ==
    ASSUME \A d \in Conns : \A n \in DOMAIN chan'[d] :
             \/ n \in DOMAIN chan[d] /\ chan'[d][n] = chan[d][n]
             \/ chan'[d][n].cmd # "delivery_update"
    PROVE  \A d \in Conns, n \in Nat, i \in Nat : InFrame(d, n, i)' => InFrame(d, n, i)
  BY DEF InFrame

LEMMA ReportInvTask ==
    ASSUME TypeOK, ReportInv, [Next]_vars, NEW c \in Conns, TaskStep(c), ~MarkSeen(c), ~ReportSeen(c)
    PROVE  ReportInv'
<1> USE DEF page, hists, reload
<1>1. UNCHANGED <<hist, shist, told, read>>
  BY DEF TaskStep, TakeFrame, PersistInsert, PersistLookup, PersistFails, PushToRecipient,
         AckSender, MarkSeenFails
<1>2. \E t : t.pc # "report" /\ Goto(c, t)
  <2>1. CASE TakeFrame(c)
    <3>1. Head(up[c]) \in Request
      BY <2>1, HeadTailProperties DEF TypeOK, TakeFrame
    <3> QED
      BY <2>1, <3>1 DEF TakeFrame, Goto, Request
  <2>2. CASE PushToRecipient(c)
    <3>1. [task[c] EXCEPT !.pc = "ack"].pc = "ack"
      BY <2>2 DEF PushToRecipient, TypeOK, Working, Request
    <3> QED
      BY <2>2, <3>1 DEF PushToRecipient
  <2> QED
    BY <2>1, <2>2
    DEF TaskStep, PersistInsert, PersistLookup, PersistFails, AckSender, MarkSeenFails, Idle
<1>3. \A d \in Conns, i \in Nat : InTask(d, i)' => InTask(d, i)
  BY <1>2, QuietTask
<1>4. \A d \in Conns : \A n \in DOMAIN chan'[d] :
        \/ n \in DOMAIN chan[d] /\ chan'[d][n] = chan[d][n]
        \/ chan'[d][n].cmd # "delivery_update"
  <2>1. CASE UNCHANGED chan
    BY <2>1
  <2>2. CASE PersistFails(c)
    BY <2>2, ErrorFrames
  <2>3. CASE PushToRecipient(c)
    BY <2>3, PushFrames
  <2>4. CASE AckSender(c)
    <3>1. [cmd |-> "private_chat_ack", key |-> task[c].key, id |-> task[c].id].cmd # "delivery_update"
      OBVIOUS
    <3> QED
      BY <2>4, <3>1, AckFrames
  <2> QED
    BY <2>1, <2>2, <2>3, <2>4
    DEF TaskStep, TakeFrame, PersistInsert, PersistLookup, MarkSeenFails
<1>5. \A d \in Conns, n \in Nat, i \in Nat : InFrame(d, n, i)' => InFrame(d, n, i)
  BY <1>4, QuietFrames
<1>6. \A i \in Nat : InHist(i)' => InHist(i)
  BY <1>1 DEF InHist
<1> QED
  BY <1>1, <1>3, <1>5, <1>6, QuietStep

\* mark_seen_from_peer and the history request mark rows that nobody has reported.
LEMMA ReportInvMark ==
    ASSUME TypeOK, ReportInv, [Next]_vars, HistUpdate \/ \E c \in Conns : MarkSeen(c)
    PROVE  ReportInv'
<1> USE DEF page, hists, reload
<1>1. \A i \in Nat : i \in Unseen => i \in Ids /\ ~Marked(i)
  BY DEF Unseen, Marked
<1>2. rows' = SeenAll(Unseen) => \A i \in Unseen : Marked(i)'
  <2> SUFFICES ASSUME rows' = SeenAll(Unseen), NEW i \in Unseen PROVE Marked(i)'
    OBVIOUS
  <2>1. Ids' = Ids /\ i \in Ids /\ rows'[i] = [rows[i] EXCEPT !.seen = rows[i].seen \/ i \in Unseen]
    BY SeenAllType DEF SeenAll, Unseen
  <2>2. rows \in [1..Len(rows) -> [key : Msgs, seen : BOOLEAN]] /\ Ids = 1..Len(rows)
    BY LenProperties DEF TypeOK, Ids
  <2>3. rows[i] \in [key : Msgs, seen : BOOLEAN]
    BY <2>1, <2>2
  <2> QED
    BY <2>1, <2>3 DEF Marked
<1>3. UNCHANGED <<chan, shist, told, read>>
  BY DEF MarkSeen, HistUpdate
<1>4. ASSUME NEW c \in Conns, MarkSeen(c) PROVE ReportInv'
  <2>1. UNCHANGED hist /\ rows' = SeenAll(Unseen)
    BY <1>4 DEF MarkSeen
  <2>2. \A d \in Conns, i \in Nat : InTask(d, i)' => InTask(d, i) \/ (d = c /\ i \in Unseen)
    BY <1>4 DEF MarkSeen, Goto, TypeOK, InTask, Idle
  <2>3. \A i \in Nat : ~InTask(c, i)
    BY <1>4 DEF MarkSeen, InTask
  <2>4. \A d \in Conns, n \in Nat, i \in Nat : InFrame(d, n, i)' <=> InFrame(d, n, i)
    BY <1>3 DEF InFrame
  <2>5. \A i \in Nat : InHist(i)' <=> InHist(i)
    BY <2>1 DEF InHist
  <2>6. Honest'
    BY <1>2, <1>3, <2>1, <2>2, <2>4, <2>5, MarkedStays DEF ReportInv, Honest
  <2>7. Once'
    BY <1>1, <1>3, <2>2, <2>4, <2>5 DEF ReportInv, Once, Honest
  <2> QED
    BY <2>6, <2>7 DEF ReportInv
<1>5. CASE HistUpdate
  <2>1. UNCHANGED task
    BY <1>5 DEF HistUpdate
  <2>2. \A i \in Nat : InHist(i)' => i \in Unseen /\ rows' = SeenAll(Unseen)
    BY <1>5 DEF HistUpdate, InHist
  <2>4. \A d \in Conns, n \in Nat, i \in Nat : InFrame(d, n, i)' <=> InFrame(d, n, i)
    BY <1>3 DEF InFrame
  <2>5. \A d \in Conns, i \in Nat : InTask(d, i)' <=> InTask(d, i)
    BY <2>1 DEF InTask
  <2>6. Honest'
    BY <1>2, <1>3, <2>2, <2>4, <2>5, MarkedStays DEF ReportInv, Honest
  <2>7. Once'
    BY <1>1, <1>3, <2>2, <2>4, <2>5 DEF ReportInv, Once, Honest
  <2> QED
    BY <2>6, <2>7 DEF ReportInv
<1> QED
  BY <1>4, <1>5

\* A report moves from a task or the request into one frame, or is lost.
LEMMA ReportInvSend ==
    ASSUME TypeOK, ReportInv, [Next]_vars, HistSelect \/ \E c \in Conns : ReportSeen(c)
    PROVE  ReportInv'
<1> USE DEF page, hists, reload
<1>1. UNCHANGED <<rows, shist, told, read>>
  BY DEF ReportSeen, HistSelect
<1>2. \A i \in Nat : Marked(i)' <=> Marked(i)
  BY <1>1 DEF Marked, Ids
<1>3. ASSUME NEW c \in Conns, ReportSeen(c) PROVE ReportInv'
  <2>1. /\ task[c].pc = "report" /\ task[c].ids \in SUBSET Ids
        /\ SendToUser(Sender, [cmd |-> "delivery_update", ids |-> task[c].ids])
        /\ UNCHANGED hist
    BY <1>3 DEF ReportSeen, TypeOK, Working, Request
  <2>2. \A d \in Conns, i \in Nat : InTask(d, i)' => InTask(d, i) /\ d # c
    BY <1>3 DEF ReportSeen, Goto, TypeOK, InTask, Idle
  <2>3. \A d \in Conns, n \in Nat, i \in Nat : InFrame(d, n, i)' =>
          \/ InFrame(d, n, i)
          \/ d = online[Sender] /\ n = Len(chan[d]) + 1 /\ InTask(c, i)
    BY <2>1, ReportFrames DEF InFrame, InTask
  <2>4. \A i \in Nat : InHist(i)' <=> InHist(i)
    BY <2>1 DEF InHist
  <2>5. Honest'
    BY <1>1, <1>2, <2>2, <2>3, <2>4 DEF ReportInv, Honest
  <2>6. Once'
    BY <1>1, <2>2, <2>3, <2>4 DEF ReportInv, Once
  <2> QED
    BY <2>5, <2>6 DEF ReportInv
<1>4. CASE HistSelect
  <2>1. /\ hist.pc = "select" /\ hist.ids \in SUBSET Ids /\ UNCHANGED task
        /\ \/ UNCHANGED chan
           \/ SendToUser(Sender, [cmd |-> "delivery_update", ids |-> hist.ids])
    BY <1>4 DEF HistSelect, TypeOK, Loading
  <2>2. \A d \in Conns, i \in Nat : InTask(d, i)' <=> InTask(d, i)
    BY <2>1 DEF InTask
  <2>3. \A d \in Conns, n \in Nat, i \in Nat : InFrame(d, n, i)' =>
          \/ InFrame(d, n, i)
          \/ d = online[Sender] /\ n = Len(chan[d]) + 1 /\ InHist(i)
    BY <2>1, ReportFrames DEF InFrame, InHist
  <2>4. \A i \in Nat : ~InHist(i)'
    BY <1>4 DEF HistSelect, InHist
  <2>5. Honest'
    BY <1>1, <1>2, <2>2, <2>3, <2>4 DEF ReportInv, Honest
  <2>6. Once'
    BY <1>1, <2>2, <2>3, <2>4 DEF ReportInv, Once
  <2> QED
    BY <2>5, <2>6 DEF ReportInv
<1> QED
  BY <1>3, <1>4

\* The page takes a frame: the others move up, and a report has arrived.
LEMMA ReportInvTake ==
    ASSUME TypeOK, ReportInv, [Next]_vars, NEW c \in Conns, ClientRead(c)
    PROVE  ReportInv'
<1> USE DEF page, hists, reload
<1>1. PICK cmd : Took(c, cmd)
  BY DEF ClientRead, HandlePush, HandleAck, HandleDeliveryUpdate, IgnoreError
<1>2. UNCHANGED <<rows, task, hist, shist>>
  BY <1>1 DEF Took
<1>3. \A d \in Conns, n \in Nat, i \in Nat : InFrame(d, n, i)' =>
        \/ d # c /\ InFrame(d, n, i)
        \/ d = c /\ n # 0 /\ InFrame(d, n + 1, i)
  BY <1>1, TookFrames DEF InFrame
<1>4. /\ \A d \in Conns, i \in Nat : InTask(d, i)' <=> InTask(d, i)
      /\ \A i \in Nat : (InHist(i)' <=> InHist(i)) /\ (Marked(i)' <=> Marked(i))
  BY <1>2 DEF InTask, InHist, Marked, Ids
<1>5. \A i \in Nat : i \in told' \ told => InFrame(c, 1, i)
  BY <1>1, TookFrames
  DEF ClientRead, HandlePush, HandleAck, HandleDeliveryUpdate, IgnoreError, InFrame, Took
<1>6. \A i \in Nat : i \in read' => i \in read \/ i \in told'
  BY DEF ClientRead, HandlePush, HandleAck, HandleDeliveryUpdate, IgnoreError
<1>7. Honest'
  BY <1>2, <1>3, <1>4, <1>5, <1>6 DEF ReportInv, Honest
<1>8. Once'
  BY <1>2, <1>3, <1>4, <1>5 DEF ReportInv, Once
<1> QED
  BY <1>7, <1>8 DEF ReportInv

LEMMA ReportInvStep == TypeOK /\ ReportInv /\ [Next]_vars => ReportInv'
<1> SUFFICES ASSUME TypeOK, ReportInv, [Next]_vars PROVE ReportInv'
  OBVIOUS
<1> USE DEF page, hists, reload
<1>1. CASE UNCHANGED <<task, chan, hist, shist, told, read>>
  BY <1>1, QuietStep DEF InTask, InFrame, InHist
<1>2. CASE Crash \/ \E c \in Conns : Disconnect(c)
  <2>1. \A d \in Conns, n \in Nat, i \in Nat : InFrame(d, n, i)' => InFrame(d, n, i)
    BY <1>2, DroppedFrames, QuietFrames
  <2>2. \A d \in Conns, i \in Nat : InTask(d, i)' => InTask(d, i)
    BY <1>2 DEF Disconnect, Crash, InTask, Idle
  <2>3. \A i \in Nat : InHist(i)' => InHist(i)
    BY <1>2 DEF Disconnect, Crash, InHist, Idle
  <2>4. UNCHANGED <<told, read>> /\ (UNCHANGED shist \/ shist' = Idle)
    BY <1>2 DEF Disconnect, Crash
  <2> QED
    BY <2>1, <2>2, <2>3, <2>4, QuietStep
<1>3. ASSUME NEW c \in Conns, TaskStep(c) PROVE ReportInv'
  BY <1>3, ReportInvTask, ReportInvMark, ReportInvSend
<1>4. ASSUME NEW c \in Conns, SyncPush(c) PROVE ReportInv'
  <2>1. \A d \in Conns, n \in Nat, i \in Nat : InFrame(d, n, i)' => InFrame(d, n, i)
    BY <1>4, SyncPushFrames, QuietFrames
  <2>2. UNCHANGED <<task, hist, shist, told, read>>
    BY <1>4 DEF SyncPush
  <2> QED
    BY <2>1, <2>2, QuietStep DEF InTask, InHist
<1>5. ASSUME NEW c \in Conns, ClientRead(c) PROVE ReportInv'
  BY <1>5, ReportInvTake
<1>6. CASE HistUpdate \/ HistSelect
  BY <1>6, ReportInvMark, ReportInvSend
<1>7. CASE OpenChat \/ HistAborts \/ HistRespond
  <2>1. UNCHANGED <<task, chan, shist, told, read>> /\ \A i \in Nat : ~InHist(i)'
    BY <1>7 DEF OpenChat, HistAborts, HistRespond, InHist, Idle
  <2> QED
    BY <2>1, QuietStep DEF InTask, InFrame
<1>8. CASE SenderHistSelect
  <2>1. UNCHANGED <<rows, task, chan, hist, told, read>> /\ shist'.seen = Ids \ Unseen
    BY <1>8 DEF SenderHistSelect
  <2>2. \A i \in Ids \ Unseen : Marked(i)'
    BY <2>1 DEF Unseen, Marked, Ids
  <2> QED
    BY <2>1, <2>2, MarkedStays DEF ReportInv, Honest, Once, InTask, InFrame, InHist
<1>9. CASE SenderHistAborts
  BY <1>9, QuietStep DEF SenderHistAborts, InTask, InFrame, InHist
<1>10. CASE SenderHistRespond
  <2>1. UNCHANGED <<rows, task, chan, hist, told>> /\ shist'.pc = "idle" /\ shist.pc = "respond"
    BY <1>10 DEF SenderHistRespond, Idle
  <2>2. read' \subseteq read \cup told \cup shist.seen
    BY <1>10 DEF SenderHistRespond, TypeOK
  <2> QED
    BY <2>1, <2>2, MarkedStays DEF ReportInv, Honest, Once, InTask, InFrame, InHist
<1>11. ASSUME \/ UNCHANGED vars \/ CloseChat
              \/ \E c \in Conns : \/ Connect(c) \/ SyncSelect(c) \/ SyncFails(c)
                                  \/ \E k \in Msgs : SendMessage(c, k)
       PROVE  UNCHANGED <<task, chan, hist, shist, told, read>>
  BY <1>11 DEF vars, CloseChat, Connect, SyncSelect, SyncFails, SendMessage
<1>12. CASE Next
  BY <1>1, <1>2, <1>3, <1>4, <1>5, <1>6, <1>7, <1>8, <1>9, <1>10, <1>11, <1>12
  DEF Next, HistStep, SenderHistStep, SyncStep
<1> QED
  BY <1>1, <1>11, <1>12

LEMMA ReportInvInit == Init => ReportInv
  BY DEF Init, Idle, ReportInv, Honest, Once, InTask, InFrame, InHist

LEMMA ReportsAlways == Spec => [](TypeOK /\ ReportInv)
  BY TypeInit, TypeStep, ReportInvInit, ReportInvStep, PTL DEF Spec

\* What the sender is told, or its page shows as read, is marked in the database, also
\* when statements fail between the mark and the report.
THEOREM ReceiptsAreHonest == Spec => []ReadReceiptHonest
<1>1. TypeOK /\ ReportInv => ReadReceiptHonest
  <2> SUFFICES ASSUME TypeOK, ReportInv, NEW i \in Ids, Reports(i) # {} \/ i \in read PROVE rows[i].seen
    BY DEF ReadReceiptHonest
  <2>1. i \in Nat
    BY RowsTyped
  <2>2. \A c \in Conns : DOMAIN chan[c] \subseteq Nat
    BY LenProperties DEF TypeOK
  <2> QED
    BY <2>1, <2>2 DEF ReportInv, Honest, Reports, TaskReports, HistReports, FrameReports, PageReports,
           InTask, InFrame, InHist, Marked
<1> QED
  BY <1>1, ReportsAlways, PTL

\* mark_seen and the history request race to mark the same rows, and a row is reported
\* by at most one of them.
THEOREM ReportedOnce == Spec => []SeenReportedOnce
<1>1. TypeOK /\ ReportInv => SeenReportedOnce
  <2> SUFFICES ASSUME TypeOK, ReportInv, NEW i \in Ids, NEW r \in Reports(i), NEW s \in Reports(i)
               PROVE r = s
    BY DEF SeenReportedOnce
  <2>1. i \in Nat
    BY RowsTyped
  <2>2. \A c \in Conns : DOMAIN chan[c] \subseteq Nat
    BY LenProperties DEF TypeOK
  <2>3. \A q \in Reports(i) : \/ \E c \in Conns : InTask(c, i) /\ q = <<"task", c>>
                              \/ \E c \in Conns, n \in Nat : InFrame(c, n, i) /\ q = <<"frame", c, n>>
                              \/ InHist(i) /\ q = <<"history">>
                              \/ i \in told /\ q = <<"page">>
    <3> SUFFICES ASSUME NEW q \in Reports(i)
                 PROVE  \/ \E c \in Conns : InTask(c, i) /\ q = <<"task", c>>
                        \/ \E c \in Conns, n \in Nat : InFrame(c, n, i) /\ q = <<"frame", c, n>>
                        \/ InHist(i) /\ q = <<"history">>
                        \/ i \in told /\ q = <<"page">>
      OBVIOUS
    <3>1. q \in TaskReports(i) => \E c \in Conns : InTask(c, i) /\ q = <<"task", c>>
      BY DEF TaskReports, InTask
    <3>2. q \in HistReports(i) => InHist(i) /\ q = <<"history">>
      BY DEF HistReports, InHist
    <3>3. ASSUME q \in FrameReports(i)
          PROVE  \E c \in Conns, n \in Nat : InFrame(c, n, i) /\ q = <<"frame", c, n>>
      <4>1. PICK c \in Conns : q \in {<<"frame", c, n>> : n \in {m \in DOMAIN chan[c] :
                    chan[c][m].cmd = "delivery_update" /\ i \in chan[c][m].ids}}
        BY <3>3, Zenon DEF FrameReports
      <4> QED
        BY <2>2, <4>1 DEF InFrame
    <3>4. q \in PageReports(i) => i \in told /\ q = <<"page">>
      BY DEF PageReports
    <3> QED
      BY <3>1, <3>2, <3>3, <3>4 DEF Reports
  <2> QED
    BY <2>1, <2>3 DEF ReportInv, Once
<1> QED
  BY <1>1, ReportsAlways, PTL

-----------------------------------------------------------------------------
(* What the sender's page shows as read stays read                         *)

\* What the page shows as read, and a history under way may have selected before it was
\* marked, is saved.
ReloadInv == shist.pc = "respond" => read \cap shist.ids \subseteq saved \cup shist.seen

LEMMA ReloadStep == TypeOK /\ ReportInv /\ ReloadInv /\ [Next]_vars => ReloadInv'
<1> SUFFICES ASSUME TypeOK, ReportInv, ReloadInv, [Next]_vars PROVE ReloadInv'
  OBVIOUS
<1> USE DEF page, hists, reload
<1>1. CASE UNCHANGED <<shist, read, saved>>
  BY <1>1 DEF ReloadInv
<1>2. CASE shist' = Idle
  BY <1>2 DEF ReloadInv, Idle
<1>3. CASE SenderHistSelect
  <2>1. shist'.ids = Ids /\ shist'.seen = Ids \ Unseen /\ UNCHANGED read
    BY <1>3 DEF SenderHistSelect
  <2>2. \A i \in Ids : i \in read => i \notin Unseen
    BY RowsTyped DEF ReportInv, Honest, Marked, Unseen
  <2> QED
    BY <2>1, <2>2 DEF ReloadInv
<1>4. ASSUME NEW c \in Conns, ClientRead(c) PROVE ReloadInv'
  <2>1. UNCHANGED shist
    BY <1>4 DEF ClientRead, HandlePush, HandleAck, HandleDeliveryUpdate, IgnoreError, Took
  <2>2. /\ read' \ read \subseteq saved' /\ saved \subseteq saved'
    BY <1>4 DEF ClientRead, HandlePush, HandleAck, HandleDeliveryUpdate, IgnoreError
  <2> QED
    BY <2>1, <2>2 DEF ReloadInv
<1>5. \/ UNCHANGED <<shist, read, saved>> \/ shist' = Idle \/ SenderHistSelect
      \/ \E c \in Conns : ClientRead(c)
  BY DEF Next, vars, Connect, Disconnect, Crash, TaskStep, TakeFrame, PersistInsert,
         PersistLookup, PersistFails, PushToRecipient, AckSender, MarkSeen, MarkSeenFails,
         ReportSeen, SyncStep, SyncSelect, SyncFails, SyncPush, OpenChat, CloseChat, HistStep,
         HistUpdate, HistSelect, HistAborts, HistRespond, SenderHistStep, SenderHistAborts,
         SenderHistRespond, SendMessage
<1> QED
  BY <1>1, <1>2, <1>3, <1>4, <1>5

LEMMA ReadGrows == ReloadInv /\ [Next]_vars => read \subseteq read'
<1> SUFFICES ASSUME ReloadInv, [Next]_vars PROVE read \subseteq read'
  OBVIOUS
<1> USE DEF page, hists, reload
<1>1. CASE SenderHistRespond
  BY <1>1 DEF SenderHistRespond, ReloadInv
<1>2. UNCHANGED read \/ SenderHistRespond \/ \E c \in Conns : HandleDeliveryUpdate(c)
  BY DEF Next, vars, Connect, Disconnect, Crash, TaskStep, TakeFrame, PersistInsert,
         PersistLookup, PersistFails, PushToRecipient, AckSender, MarkSeen, MarkSeenFails,
         ReportSeen, SyncStep, SyncSelect, SyncFails, SyncPush, OpenChat, CloseChat, HistStep,
         HistUpdate, HistSelect, HistAborts, HistRespond, SenderHistSelect, SenderHistStep,
         SenderHistAborts, SendMessage, ClientRead, HandlePush, HandleAck, IgnoreError
<1> QED
  BY <1>1, <1>2 DEF HandleDeliveryUpdate

\* What the sender's page shows as read it never shows as merely sent again, however
\* histories and delivery updates overtake each other.
THEOREM ReadIsKept == Spec => ReadStays
<1>1. Init => ReloadInv
  BY DEF Init, Idle, ReloadInv
<1>2. ReloadInv /\ [Next]_vars => [read \subseteq read']_vars
  BY ReadGrows
<1> QED
  BY <1>1, <1>2, ReloadStep, ReportsAlways, PTL DEF Spec, ReadStays

-----------------------------------------------------------------------------
(* Frames stay until they are read                                         *)

LEMMA ReplyKeeps ==
    ASSUME TypeOK, NEW c \in Conns, NEW fs \in Seq(Frame), Reply(c, fs)
    PROVE  /\ \A d \in Conns : Frames(d) \subseteq Frames(d)'
           /\ sock[c] = "open" => \A m \in 1..Len(fs) : fs[m] \in Frames(c)'
<1>1. chan[c] \in Seq(Frame) /\ chan \in [Conns -> Seq(Frame)]
  BY DEF TypeOK
<1>2. CASE sock[c] = "open"
  <2>1. chan'[c] = chan[c] \o fs /\ \A d \in Conns \ {c} : chan'[d] = chan[d]
    BY <1>1, <1>2 DEF Reply
  <2>2. /\ Len(chan[c]) \in Nat /\ Len(fs) \in Nat
        /\ DOMAIN chan[c] = 1..Len(chan[c]) /\ DOMAIN chan'[c] = 1..Len(chan[c]) + Len(fs)
        /\ \A m \in 1..Len(chan[c]) + Len(fs) :
             chan'[c][m] = IF m <= Len(chan[c]) THEN chan[c][m] ELSE fs[m - Len(chan[c])]
    <3>1. chan'[c] \in Seq(Frame)
      BY <1>1, <2>1, ConcatProperties
    <3> QED
      BY <1>1, <2>1, <3>1, ConcatProperties, LenProperties
  <2>3. \A m \in DOMAIN chan[c] : m \in DOMAIN chan'[c] /\ chan'[c][m] = chan[c][m]
    BY <2>2
  <2>4. \A m \in 1..Len(fs) : /\ Len(chan[c]) + m \in DOMAIN chan'[c]
                              /\ chan'[c][Len(chan[c]) + m] = fs[m]
    BY <2>2
  <2>5. \A m \in 1..Len(fs) : fs[m] \in Frames(c)'
    <3> SUFFICES ASSUME NEW m \in 1..Len(fs) PROVE fs[m] \in {chan'[c][n] : n \in DOMAIN chan'[c]}
      BY DEF Frames
    <3> QED
      BY <2>4
  <2>6. Frames(c) \subseteq Frames(c)'
    BY <2>3 DEF Frames
  <2>7. \A d \in Conns \ {c} : Frames(d) = Frames(d)'
    BY <2>1 DEF Frames
  <2> QED
    BY <2>5, <2>6, <2>7
<1>3. CASE sock[c] # "open"
  BY <1>3 DEF Reply, Frames
<1> QED
  BY <1>2, <1>3

LEMMA SendKeeps ==
    ASSUME TypeOK, NEW u \in {Sender, Recipient}, NEW f \in Frame, SendToUser(u, f)
    PROVE  /\ \A d \in Conns : Frames(d) \subseteq Frames(d)'
           /\ online[u] # NoConn /\ sock[online[u]] = "open" =>
                f \in Frames(online[u])' /\ UNCHANGED online
           /\ \A v \in {Sender, Recipient} \ {u} : online'[v] = online[v]
<1>1. CASE online[u] # NoConn /\ sock[online[u]] = "open"
  <2> DEFINE fs == <<f>>
  <2>1. online[u] \in Conns /\ fs \in Seq(Frame) /\ Reply(online[u], fs) /\ UNCHANGED online
    BY <1>1 DEF SendToUser, TypeOK
  <2>2. Len(fs) = 1 /\ fs[1] = f
    OBVIOUS
  <2> HIDE DEF fs
  <2>3. 1 \in 1..Len(fs)
    BY <2>2
  <2> QED
    BY <1>1, <2>1, <2>2, <2>3, ReplyKeeps
<1>2. CASE ~(online[u] # NoConn /\ sock[online[u]] = "open")
  BY <1>2 DEF SendToUser, Frames, TypeOK
<1> QED
  BY <1>1, <1>2

LEMMA AckSends ==
    ASSUME TypeOK, NEW c \in Conns, AckSender(c)
    PROVE  /\ \A d \in Conns : Frames(d) \subseteq Frames(d)'
           /\ sock[c] = "open" =>
                [cmd |-> "private_chat_ack", key |-> task[c].key, id |-> task[c].id] \in Frames(c)'
<1> DEFINE f == [cmd |-> "private_chat_ack", key |-> task[c].key, id |-> task[c].id]
           fs == <<f>>
<1>1. f \in Frame
  BY DEF AckSender, Frame, TypeOK, Working, Request
<1>2. fs \in Seq(Frame) /\ Len(fs) = 1 /\ fs[1] = f /\ Reply(c, fs)
  BY <1>1 DEF AckSender
<1> HIDE DEF fs, f
<1>3. 1 \in 1..Len(fs)
  BY <1>2
<1>4. /\ \A d \in Conns : Frames(d) \subseteq Frames(d)'
      /\ sock[c] = "open" => f \in Frames(c)'
  BY <1>2, <1>3, ReplyKeeps
<1> QED
  BY <1>4 DEF f

LEMMA ErrorSends ==
    ASSUME TypeOK, NEW c \in Conns, PersistFails(c)
    PROVE  /\ \A d \in Conns : Frames(d) \subseteq Frames(d)'
           /\ sock[c] = "open" => [cmd |-> "error", key |-> task[c].key] \in Frames(c)'
<1> DEFINE f == [cmd |-> "error", key |-> task[c].key]
           fs == <<f>>
<1>1. f \in Frame
  BY DEF PersistFails, Frame, TypeOK, Working, Request
<1>2. fs \in Seq(Frame) /\ Len(fs) = 1 /\ fs[1] = f /\ Reply(c, fs)
  BY <1>1 DEF PersistFails
<1> HIDE DEF fs, f
<1>3. 1 \in 1..Len(fs)
  BY <1>2
<1>4. /\ \A d \in Conns : Frames(d) \subseteq Frames(d)'
      /\ sock[c] = "open" => f \in Frames(c)'
  BY <1>2, <1>3, ReplyKeeps
<1> QED
  BY <1>4 DEF f

LEMMA PushSends ==
    ASSUME TypeOK, NEW c \in Conns, PushToRecipient(c)
    PROVE  /\ \A d \in Conns : Frames(d) \subseteq Frames(d)'
           /\ online[Recipient] # NoConn /\ sock[online[Recipient]] = "open" =>
                /\ [cmd |-> "private_push", key |-> task[c].key] \in Frames(online[Recipient])'
                /\ UNCHANGED online
<1> DEFINE f == [cmd |-> "private_push", key |-> task[c].key]
<1>1. f \in Frame /\ SendToUser(Recipient, f)
  BY DEF PushToRecipient, Frame, TypeOK, Working, Request
<1>2. /\ \A d \in Conns : Frames(d) \subseteq Frames(d)'
      /\ online[Recipient] # NoConn /\ sock[online[Recipient]] = "open" =>
           f \in Frames(online[Recipient])' /\ UNCHANGED online
  <2> HIDE DEF f
  <2> QED
    BY <1>1, SendKeeps
<1> QED
  BY <1>2

LEMMA ReportSends ==
    ASSUME TypeOK, NEW ids \in SUBSET Ids,
           SendToUser(Sender, [cmd |-> "delivery_update", ids |-> ids])
    PROVE  /\ \A d \in Conns : Frames(d) \subseteq Frames(d)'
           /\ online'[Recipient] = online[Recipient]
<1> DEFINE f == [cmd |-> "delivery_update", ids |-> ids]
<1>1. f \in Frame /\ SendToUser(Sender, f)
  BY DEF Frame
<1> HIDE DEF f
<1>2. Recipient \in {Sender, Recipient} \ {Sender}
  BY PrivateChatAssumption
<1> QED
  BY <1>1, <1>2, SendKeeps

LEMMA SyncSends ==
    ASSUME TypeOK, NEW c \in Conns, SyncPush(c)
    PROVE  /\ \A d \in Conns : Frames(d) \subseteq Frames(d)'
           /\ sock[c] = "open" =>
                \A i \in DOMAIN sync[c].batch : sync[c].batch[i] \in PushedTo(c)'
<1> DEFINE pushes == [i \in DOMAIN sync[c].batch |->
                        [cmd |-> "private_push", key |-> sync[c].batch[i]]]
<1>1. sync[c].batch \in Seq(Msgs)
  BY DEF SyncPush, TypeOK, Syncing
<1>2. pushes \in Seq(Frame)
  BY <1>1, PushesTyped
<1>3. Reply(c, pushes)
  BY DEF SyncPush
<1>4. \A i \in DOMAIN sync[c].batch : /\ i \in 1..Len(pushes)
                                      /\ pushes[i].cmd = "private_push"
                                      /\ pushes[i].key = sync[c].batch[i]
  BY <1>1, <1>2, LenProperties
<1> HIDE DEF pushes
<1>5. /\ \A d \in Conns : Frames(d) \subseteq Frames(d)'
      /\ sock[c] = "open" => \A m \in 1..Len(pushes) : pushes[m] \in Frames(c)'
  BY <1>2, <1>3, ReplyKeeps
<1> QED
  BY <1>4, <1>5 DEF PushedTo

\* A frame on a connection that stays open is there until the page reads it.
LEMMA FramesStay ==
    ASSUME TypeOK, [Next]_vars, NEW d \in Conns, sock'[d] = "open", NEW f \in Frames(d)
    PROVE  f \in Frames(d)' \/ (ClientRead(d) /\ f = Head(chan[d]))
<1>1. CASE UNCHANGED chan
  BY <1>1 DEF Frames
<1>2. ASSUME NEW c \in Conns, Disconnect(c) PROVE chan'[d] = chan[d]
  BY <1>2 DEF Disconnect, TypeOK
<1>3. CASE Crash
  BY <1>3 DEF Crash
<1>4. ASSUME NEW c \in Conns, TaskStep(c), ~UNCHANGED chan PROVE f \in Frames(d)'
  <2>1. PersistFails(c) \/ PushToRecipient(c) \/ AckSender(c) \/ ReportSeen(c)
    BY <1>4 DEF TaskStep, TakeFrame, PersistInsert, PersistLookup, MarkSeen, MarkSeenFails
  <2>2. ASSUME ReportSeen(c) PROVE f \in Frames(d)'
    <3>1. /\ task[c].ids \in SUBSET Ids
          /\ SendToUser(Sender, [cmd |-> "delivery_update", ids |-> task[c].ids])
      BY <2>2 DEF ReportSeen, TypeOK, Working, Request
    <3> QED
      BY <3>1, ReportSends
  <2> QED
    BY <2>1, <2>2, ErrorSends, PushSends, AckSends
<1>5. ASSUME NEW c \in Conns, SyncPush(c) PROVE f \in Frames(d)'
  BY <1>5, SyncSends
<1>6. ASSUME HistSelect, ~UNCHANGED chan PROVE f \in Frames(d)'
  <2>1. hist.ids \in SUBSET Ids /\ SendToUser(Sender, [cmd |-> "delivery_update", ids |-> hist.ids])
    BY <1>6 DEF HistSelect, TypeOK, Loading
  <2> QED
    BY <2>1, ReportSends
<1>7. ASSUME NEW c \in Conns, ClientRead(c)
      PROVE  f \in Frames(d)' \/ (ClientRead(d) /\ f = Head(chan[d]))
  <2>1. chan' = [chan EXCEPT ![c] = Tail(@)] /\ chan[c] \in Seq(Frame) /\ chan[c] # <<>>
    BY <1>7 DEF ClientRead, HandlePush, HandleAck, HandleDeliveryUpdate, IgnoreError, Took, TypeOK
  <2>2. CASE d # c
    BY <2>1, <2>2 DEF Frames, TypeOK
  <2>3. CASE d = c
    <3>1. PICK n \in DOMAIN chan[c] : f = chan[c][n]
      BY <2>3 DEF Frames
    <3>2. /\ DOMAIN chan[c] = 1..Len(chan[c]) /\ Len(chan[c]) \in Nat
          /\ Tail(chan[c]) \in Seq(Frame) /\ Len(Tail(chan[c])) = Len(chan[c]) - 1
          /\ DOMAIN Tail(chan[c]) = 1..Len(Tail(chan[c]))
          /\ \A i \in 1..Len(Tail(chan[c])) : Tail(chan[c])[i] = chan[c][i+1]
      BY <2>1, HeadTailProperties, LenProperties
    <3>3. Head(chan[c]) = chan[c][1] /\ chan'[c] = Tail(chan[c])
      BY <2>1 DEF TypeOK
    <3>4. CASE n = 1
      BY <1>7, <2>3, <3>1, <3>3, <3>4
    <3>5. CASE n # 1
      <4>1. n - 1 \in DOMAIN chan'[c] /\ chan'[c][n - 1] = f
        BY <3>1, <3>2, <3>3, <3>5
      <4> QED
        BY <2>3, <4>1 DEF Frames
    <3> QED
      BY <3>4, <3>5
  <2> QED
    BY <2>2, <2>3
<1>8. \/ UNCHANGED chan \/ Crash
      \/ \E c \in Conns : Disconnect(c) \/ TaskStep(c) \/ SyncPush(c) \/ ClientRead(c)
      \/ HistSelect
  BY DEF Next, vars, Connect, SyncStep, SyncSelect, SyncFails, OpenChat, CloseChat, HistStep,
         HistUpdate, HistAborts, HistRespond, SenderHistSelect, SenderHistStep,
         SenderHistAborts, SenderHistRespond, SendMessage
<1> QED
  BY <1>1, <1>2, <1>3, <1>4, <1>5, <1>6, <1>7, <1>8 DEF Frames

-----------------------------------------------------------------------------
(* Every private_chat frame is answered once                               *)

\* What a queue grows and shrinks by is what the count changes by.
LEMMA CountNat ==
    ASSUME NEW S, NEW s \in Seq(S), NEW T
    PROVE  /\ IsFiniteSet({n \in DOMAIN s : s[n] \in T}) /\ Count(s, T) \in Nat
<1>1. IsFiniteSet(1..Len(s)) /\ DOMAIN s = 1..Len(s)
  BY LenProperties, UpTo
<1>2. {n \in DOMAIN s : s[n] \in T} \in SUBSET (1..Len(s))
  BY <1>1
<1>3. IsFiniteSet({n \in DOMAIN s : s[n] \in T})
  BY <1>1, <1>2, FS_Subset
<1> QED
  BY <1>3, FS_CardinalityType DEF Count

LEMMA CountNothing ==
    ASSUME NEW T
    PROVE  Count(<<>>, T) = 0
<1>1. {n \in DOMAIN <<>> : <<>>[n] \in T} = {}
  OBVIOUS
<1> QED
  BY <1>1, FS_EmptySet DEF Count

LEMMA CountOthers ==
    ASSUME NEW S, NEW s \in Seq(S), NEW t \in Seq(S), NEW T, \A n \in DOMAIN t : t[n] \notin T
    PROVE  Count(s \o t, T) = Count(s, T)
<1>1. /\ Len(s) \in Nat /\ DOMAIN s = 1..Len(s)
      /\ Len(t) \in Nat /\ DOMAIN t = 1..Len(t)
  BY LenProperties
<1>2. /\ s \o t \in Seq(S) /\ Len(s \o t) = Len(s) + Len(t)
      /\ \A n \in 1..(Len(s) + Len(t)) :
            (s \o t)[n] = IF n <= Len(s) THEN s[n] ELSE t[n - Len(s)]
  BY ConcatProperties
<1>3. DOMAIN (s \o t) = 1..(Len(s) + Len(t))
  BY <1>2, LenProperties
<1>4. \A n \in DOMAIN (s \o t) : (s \o t)[n] \in T => n \in DOMAIN s /\ s[n] \in T
  <2>1. ASSUME NEW n \in DOMAIN (s \o t), n > Len(s) PROVE (s \o t)[n] \notin T
    <3>1. n - Len(s) \in DOMAIN t /\ (s \o t)[n] = t[n - Len(s)]
      BY <1>1, <1>2, <1>3, <2>1
    <3> QED
      BY <3>1
  <2> QED
    BY <1>1, <1>2, <1>3, <2>1
<1>5. \A n \in DOMAIN s : n \in DOMAIN (s \o t) /\ (s \o t)[n] = s[n]
  BY <1>1, <1>2, <1>3
<1>6. {n \in DOMAIN (s \o t) : (s \o t)[n] \in T} = {n \in DOMAIN s : s[n] \in T}
  BY <1>4, <1>5
<1> QED
  BY <1>6 DEF Count

LEMMA CountOneMore ==
    ASSUME NEW S, NEW s \in Seq(S), NEW x \in S, NEW T
    PROVE  Count(Append(s, x), T) = Count(s, T) + (IF x \in T THEN 1 ELSE 0)
<1> DEFINE A == {n \in DOMAIN s : s[n] \in T}
           B == {n \in DOMAIN Append(s, x) : Append(s, x)[n] \in T}
<1>1. /\ Len(s) \in Nat /\ DOMAIN s = 1..Len(s)
      /\ Append(s, x) \in Seq(S) /\ Len(Append(s, x)) = Len(s) + 1
      /\ \A n \in 1..Len(s) : Append(s, x)[n] = s[n]
      /\ Append(s, x)[Len(s) + 1] = x
  BY LenProperties, AppendProperties
<1>2. DOMAIN Append(s, x) = 1..Len(s) + 1
  BY <1>1, LenProperties
<1>3. IsFiniteSet(A) /\ Len(s) + 1 \notin A
  <2>1. IsFiniteSet(A)
    BY CountNat
  <2>2. Len(s) + 1 \notin A
    BY <1>1
  <2> QED
    BY <2>1, <2>2
<1>3a. Cardinality(A) \in Nat
  BY <1>3, FS_CardinalityType
<1>3b. Count(s, T) = Cardinality(A) /\ Count(Append(s, x), T) = Cardinality(B)
  BY DEF Count
<1>4. CASE x \in T
  <2>1. B = A \cup {Len(s) + 1}
    BY <1>1, <1>2, <1>4
  <2>2. Cardinality(B) = Cardinality(A) + 1
    BY <1>3, <2>1, FS_AddElement
  <2> HIDE DEF A, B
  <2> QED
    BY <1>3b, <1>4, <2>2
<1>5. CASE x \notin T
  <2>1. B = A
    BY <1>1, <1>2, <1>5
  <2> HIDE DEF A, B
  <2> QED
    BY <1>3a, <1>3b, <1>5, <2>1
<1> QED
  BY <1>4, <1>5

LEMMA CountOneLess ==
    ASSUME NEW S, NEW s \in Seq(S), s # <<>>, NEW T
    PROVE  Count(s, T) = Count(Tail(s), T) + (IF Head(s) \in T THEN 1 ELSE 0)
<1> DEFINE A == {n \in DOMAIN s : s[n] \in T}
           B == {n \in DOMAIN Tail(s) : Tail(s)[n] \in T}
           f == [n \in B |-> n + 1]
<1>1. /\ Len(s) \in Nat \ {0} /\ DOMAIN s = 1..Len(s) /\ Head(s) = s[1]
      /\ Tail(s) \in Seq(S) /\ Len(Tail(s)) = Len(s) - 1
      /\ \A n \in 1..Len(Tail(s)) : Tail(s)[n] = s[n + 1]
  BY LenProperties, HeadTailProperties, EmptySeq
<1>2. DOMAIN Tail(s) = 1..(Len(s) - 1)
  BY <1>1, LenProperties
<1>3. IsFiniteSet(A) /\ IsFiniteSet(B) /\ Cardinality(A) \in Nat /\ Cardinality(B) \in Nat
  BY <1>1, CountNat DEF Count
<1>4. Cardinality(A \ {1}) = Cardinality(B)
  <2>1. \A n \in B : n + 1 \in A \ {1}
    BY <1>1, <1>2
  <2>2. \A m, n \in B : m # n => f[m] # f[n]
    BY <1>2
  <2>3. \A m \in A \ {1} : \E n \in B : f[n] = m
    <3>1. ASSUME NEW m \in A \ {1} PROVE m - 1 \in B /\ f[m - 1] = m
      BY <1>1, <1>2
    <3> QED
      BY <3>1
  <2>4. f \in [B -> A \ {1}]
    BY <2>1
  <2>5. f \in Bijection(B, A \ {1})
    BY <2>2, <2>3, <2>4 DEF Bijection, Injection, Surjection, IsInjective
  <2>6. ExistsBijection(B, A \ {1})
    BY <2>5 DEF ExistsBijection
  <2> QED
    BY <1>3, <2>6, FS_Bijection
<1>5. Cardinality(A \ {1}) = IF 1 \in A THEN Cardinality(A) - 1 ELSE Cardinality(A)
  BY <1>3, FS_RemoveElement
<1>6. 1 \in A <=> Head(s) \in T
  BY <1>1
<1>7. Count(s, T) = Cardinality(A) /\ Count(Tail(s), T) = Cardinality(B)
  BY DEF Count
<1> HIDE DEF A, B
<1> QED
  BY <1>3, <1>4, <1>5, <1>6, <1>7

AnsweredOn(c) ==
    \A k \in Msgs :
        awaited[c][k] = Count(up[c], Asking(k)) + AtWork(c, k) + Count(chan[c], Answers(k))

\* Until a connection is opened nothing is asked on it.
AnswerInv ==
    \A c \in Conns :
        /\ sock[c] = "new" => /\ up[c] = <<>> /\ chan[c] = <<>> /\ task[c] = Idle
                              /\ awaited[c] = [k \in Msgs |-> 0]
        /\ sock[c] = "open" => AnsweredOn(c)

\* What the frames queued on a connection add to the answers on it.
LEMMA ReplyNoAnswer ==
    ASSUME TypeOK, NEW c \in Conns, NEW fs \in Seq(Frame), Reply(c, fs), NEW k \in Msgs,
           \A n \in DOMAIN fs : fs[n] \notin Answers(k)
    PROVE  \A d \in Conns : Count(chan'[d], Answers(k)) = Count(chan[d], Answers(k))
<1>1. \A d \in Conns : chan[d] \in Seq(Frame)
  BY DEF TypeOK
<1>2. \A d \in Conns : chan'[d] = chan[d] \/ chan'[d] = chan[d] \o fs
  BY DEF Reply, TypeOK
<1>3. ASSUME NEW d \in Conns PROVE Count(chan[d] \o fs, Answers(k)) = Count(chan[d], Answers(k))
  <2>1. chan[d] \in Seq(Frame)
    BY <1>1
  <2> HIDE DEF Answers
  <2> QED
    BY <2>1, CountOthers
<1> QED
  BY <1>2, <1>3

LEMMA SendNoAnswer ==
    ASSUME TypeOK, NEW u \in {Sender, Recipient}, NEW f \in Frame, SendToUser(u, f),
           f.cmd \in {"private_push", "delivery_update"}, NEW k \in Msgs
    PROVE  \A d \in Conns : Count(chan'[d], Answers(k)) = Count(chan[d], Answers(k))
<1>1. CASE online[u] # NoConn /\ sock[online[u]] = "open"
  <2> DEFINE fs == <<f>>
  <2>1. online[u] \in Conns /\ fs \in Seq(Frame) /\ Reply(online[u], fs)
    BY <1>1 DEF SendToUser, TypeOK
  <2>2. \A n \in DOMAIN fs : fs[n] \notin Answers(k)
    BY DEF Answers
  <2> HIDE DEF fs
  <2> QED
    BY <2>1, <2>2, ReplyNoAnswer
<1>2. CASE ~(online[u] # NoConn /\ sock[online[u]] = "open")
  BY <1>2 DEF SendToUser
<1> QED
  BY <1>1, <1>2

\* An answer counts for its message, on the connection it is sent on.
LEMMA ReplyOneAnswer ==
    ASSUME TypeOK, NEW c \in Conns, NEW f \in Frame, Reply(c, <<f>>), NEW k \in Msgs
    PROVE  /\ \A d \in Conns \ {c} : chan'[d] = chan[d]
           /\ sock[c] = "open" =>
                Count(chan'[c], Answers(k)) =
                    Count(chan[c], Answers(k)) + (IF f \in Answers(k) THEN 1 ELSE 0)
<1>1. chan[c] \in Seq(Frame) /\ chan \in [Conns -> Seq(Frame)]
  BY DEF TypeOK
<1>2. sock[c] = "open" => chan'[c] = Append(chan[c], f)
  BY <1>1, AppendIsConcat DEF Reply
<1>3. Count(Append(chan[c], f), Answers(k)) =
          Count(chan[c], Answers(k)) + (IF f \in Answers(k) THEN 1 ELSE 0)
  BY <1>1, CountOneMore
<1> QED
  BY <1>1, <1>2, <1>3 DEF Reply

LEMMA AnswerFrames ==
    ASSUME TypeOK, NEW f \in Frame, NEW k \in Msgs
    PROVE  f \in Answers(k) <=> f.cmd \in {"error", "private_chat_ack"} /\ f.key = k
<1>1. Ids \subseteq Nat
  BY RowsTyped
<1> QED
  BY <1>1 DEF Frame, Answers

\* The main task takes a frame, goes on with it, and answers it at the end.
LEMMA TakeAnswers ==
    ASSUME TypeOK, AnswerInv, NEW c \in Conns, TakeFrame(c), sock[c] = "open"
    PROVE  AnsweredOn(c)'
<1> SUFFICES ASSUME NEW k \in Msgs
             PROVE  awaited'[c][k] = Count(up'[c], Asking(k)) + AtWork(c, k)'
                                     + Count(chan'[c], Answers(k))
  BY DEF AnsweredOn
<1>1. up[c] \in Seq(Request) /\ up[c] # <<>> /\ up'[c] = Tail(up[c])
  BY DEF TakeFrame, TypeOK
<1>2. Count(up[c], Asking(k)) =
          Count(Tail(up[c]), Asking(k)) + (IF Head(up[c]) \in Asking(k) THEN 1 ELSE 0)
  BY <1>1, CountOneLess
<1>3. Head(up[c]) \in Request /\ task'[c] = Head(up[c]) /\ task[c] = Idle
  BY <1>1, HeadTailProperties DEF TakeFrame, TypeOK
<1>4. /\ AtWork(c, k) = 0
      /\ AtWork(c, k)' = IF Head(up[c]) \in Asking(k) THEN 1 ELSE 0
  BY <1>3 DEF AtWork, Asking, Request, Idle
<1>5. /\ Count(Tail(up[c]), Asking(k)) \in Nat /\ Count(chan[c], Answers(k)) \in Nat
      /\ awaited'[c][k] = awaited[c][k] /\ chan'[c] = chan[c]
  BY <1>1, HeadTailProperties, CountNat DEF TakeFrame, TypeOK, page
<1>6. awaited[c][k] = Count(up[c], Asking(k)) + AtWork(c, k) + Count(chan[c], Answers(k))
  BY DEF AnswerInv, AnsweredOn
<1> QED
  BY <1>1, <1>2, <1>4, <1>5, <1>6

LEMMA ReplyAnswers ==
    ASSUME TypeOK, AnswerInv, NEW c \in Conns, PersistFails(c) \/ AckSender(c),
           NEW d \in Conns, sock[d] = "open"
    PROVE  AnsweredOn(d)'
<1> SUFFICES ASSUME NEW k \in Msgs
             PROVE  awaited'[d][k] = Count(up'[d], Asking(k)) + AtWork(d, k)'
                                     + Count(chan'[d], Answers(k))
  BY DEF AnsweredOn
<1>1. PICK f \in Frame : /\ Reply(c, <<f>>) /\ f.key = task[c].key
                         /\ f.cmd \in {"error", "private_chat_ack"}
  <2>1. CASE PersistFails(c)
    <3>1. [cmd |-> "error", key |-> task[c].key] \in Frame
      BY <2>1 DEF PersistFails, Frame, TypeOK, Working, Request
    <3> QED
      BY <2>1, <3>1 DEF PersistFails
  <2>2. CASE AckSender(c)
    <3>1. [cmd |-> "private_chat_ack", key |-> task[c].key, id |-> task[c].id] \in Frame
      BY <2>2 DEF AckSender, Frame, TypeOK, Working, Request
    <3> QED
      BY <2>2, <3>1 DEF AckSender
  <2> QED
    BY <2>1, <2>2
<1>2. /\ task[c].pc \in {"private_chat", "lookup", "ack"} /\ task' = [task EXCEPT ![c] = Idle]
      /\ UNCHANGED <<up, awaited>> /\ task \in [Conns -> Working]
  BY DEF PersistFails, AckSender, Goto, page, TypeOK
<1>3. awaited[d][k] = Count(up[d], Asking(k)) + AtWork(d, k) + Count(chan[d], Answers(k))
  BY DEF AnswerInv, AnsweredOn
<1>4. Count(up[d], Asking(k)) \in Nat /\ Count(chan[d], Answers(k)) \in Nat
  BY CountNat DEF TypeOK
<1>5. CASE d = c
  <2>1. Count(chan'[c], Answers(k)) =
            Count(chan[c], Answers(k)) + (IF f \in Answers(k) THEN 1 ELSE 0)
    BY <1>1, <1>5, ReplyOneAnswer
  <2>2. f \in Answers(k) <=> task[c].key = k
    BY <1>1, AnswerFrames
  <2>3. AtWork(c, k)' = 0 /\ AtWork(c, k) = IF task[c].key = k THEN 1 ELSE 0
    BY <1>2 DEF AtWork, Idle
  <2> QED
    BY <1>2, <1>3, <1>4, <1>5, <2>1, <2>2, <2>3
<1>6. CASE d # c
  <2>1. chan'[d] = chan[d]
    BY <1>1, <1>6, ReplyOneAnswer
  <2>2. AtWork(d, k)' = AtWork(d, k)
    BY <1>2, <1>6 DEF AtWork
  <2> QED
    BY <1>2, <1>3, <2>1, <2>2
<1> QED
  BY <1>5, <1>6

\* A step that neither asks, answers nor reads an answer.
LEMMA QuietAnswers ==
    ASSUME AnswerInv, NEW d \in Conns, sock[d] = "open",
           up'[d] = up[d], awaited'[d] = awaited[d],
           \A k \in Msgs : AtWork(d, k)' = AtWork(d, k),
           \A k \in Msgs : Count(chan'[d], Answers(k)) = Count(chan[d], Answers(k))
    PROVE  AnsweredOn(d)'
  BY DEF AnswerInv, AnsweredOn

LEMMA TaskAnswers ==
    ASSUME TypeOK, AnswerInv, NEW c \in Conns, TaskStep(c), NEW d \in Conns, sock[d] = "open"
    PROVE  AnsweredOn(d)'
<1>0. task \in [Conns -> Working] /\ task[c] \in Working
  BY DEF TypeOK
<1>1. CASE TakeFrame(c)
  <2>1. CASE d = c
    BY <1>1, <2>1, TakeAnswers
  <2>2. CASE d # c
    <3>1. up'[d] = up[d] /\ task'[d] = task[d] /\ chan' = chan /\ awaited' = awaited
      BY <1>0, <1>1, <2>2 DEF TakeFrame, TypeOK, page
    <3> QED
      BY <3>1, QuietAnswers DEF AtWork
  <2> QED
    BY <2>1, <2>2
<1>2. CASE PersistFails(c) \/ AckSender(c)
  BY <1>2, ReplyAnswers
<1>3. CASE \/ PersistInsert(c) \/ PersistLookup(c) \/ PushToRecipient(c)
           \/ MarkSeen(c) \/ MarkSeenFails(c) \/ ReportSeen(c)
  <2>1. up' = up /\ awaited' = awaited
    BY <1>3 DEF PersistInsert, PersistLookup, PushToRecipient, MarkSeen, MarkSeenFails,
                ReportSeen, page
  <2>2. \A k \in Msgs : AtWork(d, k)' = AtWork(d, k)
    <3>1. \/ task'[d] = task[d]
          \/ /\ {task[d].pc, task'[d].pc} \subseteq {"private_chat", "lookup", "push", "ack"}
             /\ task'[d].key = task[d].key
          \/ {task[d].pc, task'[d].pc} \subseteq {"mark_seen", "report", "idle"}
      BY <1>0, <1>3 DEF PersistInsert, PersistLookup, PushToRecipient, MarkSeen, MarkSeenFails,
                        ReportSeen, Goto, Idle, Working, Request
    <3> QED
      BY <3>1 DEF AtWork
  <2>3. ASSUME NEW k \in Msgs PROVE Count(chan'[d], Answers(k)) = Count(chan[d], Answers(k))
    <3>1. CASE PushToRecipient(c)
      <4> DEFINE f == [cmd |-> "private_push", key |-> task[c].key]
      <4>1. f \in Frame /\ SendToUser(Recipient, f) /\ f.cmd = "private_push"
        BY <3>1 DEF PushToRecipient, Frame, TypeOK, Working, Request
      <4> HIDE DEF f
      <4> QED
        BY <4>1, SendNoAnswer
    <3>2. CASE ReportSeen(c)
      <4> DEFINE f == [cmd |-> "delivery_update", ids |-> task[c].ids]
      <4>1. f \in Frame /\ SendToUser(Sender, f) /\ f.cmd = "delivery_update"
        BY <3>2 DEF ReportSeen, Frame, TypeOK, Working, Request
      <4> HIDE DEF f
      <4> QED
        BY <4>1, SendNoAnswer
    <3>3. CASE UNCHANGED chan
      BY <3>3
    <3> QED
      BY <1>3, <3>1, <3>2, <3>3 DEF PersistInsert, PersistLookup, MarkSeen, MarkSeenFails
  <2> QED
    BY <2>1, <2>2, <2>3, QuietAnswers
<1> QED
  BY <1>1, <1>2, <1>3 DEF TaskStep

LEMMA SyncAnswers ==
    ASSUME TypeOK, AnswerInv, NEW c \in Conns, SyncStep(c), NEW d \in Conns, sock[d] = "open"
    PROVE  AnsweredOn(d)'
<1>1. up' = up /\ awaited' = awaited /\ task' = task
  BY DEF SyncStep, SyncSelect, SyncFails, SyncPush, page
<1>2. ASSUME NEW k \in Msgs PROVE Count(chan'[d], Answers(k)) = Count(chan[d], Answers(k))
  <2>1. CASE SyncPush(c)
    <3> DEFINE pushes == [i \in DOMAIN sync[c].batch |->
                            [cmd |-> "private_push", key |-> sync[c].batch[i]]]
    <3>1. sync[c].batch \in Seq(Msgs)
      BY <2>1 DEF SyncPush, TypeOK, Syncing
    <3>2. pushes \in Seq(Frame) /\ Reply(c, pushes)
      BY <2>1, <3>1, PushesTyped DEF SyncPush
    <3>3. \A n \in DOMAIN pushes : pushes[n] \notin Answers(k)
      BY DEF Answers
    <3> HIDE DEF pushes
    <3> QED
      BY <3>2, <3>3, ReplyNoAnswer
  <2>2. CASE UNCHANGED chan
    BY <2>2
  <2> QED
    BY <2>1, <2>2 DEF SyncStep, SyncSelect, SyncFails
<1> QED
  BY <1>1, <1>2, QuietAnswers DEF AtWork

\* The page reads a frame; of an answer it takes note.
LEMMA ClientAnswers ==
    ASSUME TypeOK, AnswerInv, NEW c \in Conns, ClientRead(c), NEW d \in Conns, sock[d] = "open"
    PROVE  AnsweredOn(d)'
<1>0. /\ chan[c] \in Seq(Frame) /\ chan[c] # <<>> /\ chan' = [chan EXCEPT ![c] = Tail(@)]
      /\ chan \in [Conns -> Seq(Frame)] /\ up \in [Conns -> Seq(Request)]
      /\ awaited \in [Conns -> [Msgs -> Int]] /\ task' = task
  BY DEF TypeOK, ClientRead, HandlePush, HandleAck, HandleDeliveryUpdate, IgnoreError, Took
<1>1. CASE d # c
  <2>1. up'[d] = up[d] /\ awaited'[d] = awaited[d] /\ chan'[d] = chan[d]
    BY <1>0, <1>1 DEF ClientRead, HandlePush, HandleAck, HandleDeliveryUpdate, IgnoreError
  <2> QED
    BY <1>0, <2>1, QuietAnswers DEF AtWork
<1>2. CASE d = c
  <2> SUFFICES ASSUME NEW k \in Msgs
               PROVE  awaited'[c][k] = Count(up'[c], Asking(k)) + AtWork(c, k)'
                                       + Count(chan'[c], Answers(k))
    BY <1>2 DEF AnsweredOn
  <2>1. awaited[c][k] = Count(up[c], Asking(k)) + AtWork(c, k) + Count(chan[c], Answers(k))
    BY <1>2 DEF AnswerInv, AnsweredOn
  <2>2. /\ chan'[c] = Tail(chan[c])
        /\ Count(chan[c], Answers(k)) =
             Count(Tail(chan[c]), Answers(k)) + (IF Head(chan[c]) \in Answers(k) THEN 1 ELSE 0)
    BY <1>0, CountOneLess
  <2>3. Head(chan[c]) \in Frame /\ Tail(chan[c]) \in Seq(Frame)
    BY <1>0, HeadTailProperties
  <2>4. Head(chan[c]) \in Answers(k) <=>
          Head(chan[c]).cmd \in {"error", "private_chat_ack"} /\ Head(chan[c]).key = k
    BY <2>3, AnswerFrames
  <2>5. AtWork(c, k)' = AtWork(c, k) /\ AtWork(c, k) \in Nat
    BY <1>0 DEF AtWork
  <2>6. Count(up[c], Asking(k)) \in Nat /\ Count(Tail(chan[c]), Answers(k)) \in Nat
    BY <1>0, <2>3, CountNat
  <2>7. CASE HandlePush(c)
    <3>1. awaited' = awaited /\ Head(chan[c]) \notin Answers(k)
      BY <2>4, <2>7 DEF HandlePush, Took
    <3>2. [pc |-> "mark_seen"] \in Request /\ [pc |-> "mark_seen"] \notin Asking(k)
      BY DEF Request, Asking
    <3>3. Count(Append(up[c], [pc |-> "mark_seen"]), Asking(k)) = Count(up[c], Asking(k))
      BY <1>0, <2>6, <3>2, CountOneMore
    <3>4. up'[c] = up[c] \/ up'[c] = Append(up[c], [pc |-> "mark_seen"])
      BY <1>0, <2>7 DEF HandlePush
    <3>5. Count(up'[c], Asking(k)) = Count(up[c], Asking(k))
      BY <3>3, <3>4
    <3>6. Count(chan'[c], Answers(k)) = Count(chan[c], Answers(k))
      BY <2>2, <2>6, <3>1
    <3> QED
      BY <2>1, <2>5, <3>1, <3>5, <3>6
  <2>8. CASE HandleDeliveryUpdate(c)
    <3>1. awaited' = awaited /\ up' = up /\ Head(chan[c]) \notin Answers(k)
      BY <2>4, <2>8 DEF HandleDeliveryUpdate, Took
    <3> QED
      BY <2>1, <2>2, <2>5, <2>6, <3>1
  <2>9. CASE HandleAck(c) \/ IgnoreError(c)
    <3>1. /\ awaited' = [awaited EXCEPT ![c][Head(chan[c]).key] = @ - 1] /\ up' = up
          /\ Head(chan[c]).cmd \in {"error", "private_chat_ack"}
      BY <2>9 DEF HandleAck, IgnoreError, Took
    <3>2. awaited'[c][k] = awaited[c][k] - (IF Head(chan[c]).key = k THEN 1 ELSE 0)
      BY <1>0, <3>1
    <3> QED
      BY <2>1, <2>2, <2>4, <2>5, <2>6, <3>1, <3>2
  <2> QED
    BY <2>7, <2>8, <2>9 DEF ClientRead
<1> QED
  BY <1>1, <1>2

LEMMA SendAnswers ==
    ASSUME TypeOK, AnswerInv, NEW c \in Conns, NEW j \in Msgs, SendMessage(c, j),
           NEW d \in Conns, sock[d] = "open"
    PROVE  AnsweredOn(d)'
<1>0. /\ up \in [Conns -> Seq(Request)] /\ awaited \in [Conns -> [Msgs -> Int]]
      /\ chan \in [Conns -> Seq(Frame)]
  BY DEF TypeOK
<1>1. /\ up' = [up EXCEPT ![c] = Append(@, [pc |-> "private_chat", key |-> j])]
      /\ awaited' = [awaited EXCEPT ![c][j] = @ + 1] /\ chan' = chan /\ task' = task
  BY DEF SendMessage
<1>2. CASE d # c
  <2>1. up'[d] = up[d] /\ awaited'[d] = awaited[d]
    BY <1>0, <1>1, <1>2
  <2> QED
    BY <1>1, <2>1, QuietAnswers DEF AtWork
<1>3. CASE d = c
  <2> SUFFICES ASSUME NEW k \in Msgs
               PROVE  awaited'[c][k] = Count(up'[c], Asking(k)) + AtWork(c, k)'
                                       + Count(chan'[c], Answers(k))
    BY <1>3 DEF AnsweredOn
  <2>1. awaited[c][k] = Count(up[c], Asking(k)) + AtWork(c, k) + Count(chan[c], Answers(k))
    BY <1>3 DEF AnswerInv, AnsweredOn
  <2>2. [pc |-> "private_chat", key |-> j] \in Request
    BY DEF Request
  <2>3. Count(up'[c], Asking(k)) = Count(up[c], Asking(k)) +
            (IF [pc |-> "private_chat", key |-> j] \in Asking(k) THEN 1 ELSE 0)
    BY <1>0, <1>1, <2>2, CountOneMore
  <2>4. [pc |-> "private_chat", key |-> j] \in Asking(k) <=> j = k
    BY DEF Asking
  <2>5. /\ AtWork(c, k)' = AtWork(c, k) /\ AtWork(c, k) \in Nat
        /\ Count(up[c], Asking(k)) \in Nat /\ Count(chan[c], Answers(k)) \in Nat
    BY <1>0, <1>1, CountNat DEF AtWork
  <2>6. awaited'[c][k] = awaited[c][k] + (IF j = k THEN 1 ELSE 0)
    BY <1>0, <1>1
  <2> QED
    BY <1>1, <2>1, <2>3, <2>4, <2>5, <2>6
<1> QED
  BY <1>2, <1>3

\* A connection that has not been opened is not touched.
LEMMA NewStays ==
    ASSUME TypeOK, AnswerInv, [Next]_vars, NEW c \in Conns, sock'[c] = "new"
    PROVE  /\ up'[c] = <<>> /\ chan'[c] = <<>> /\ task'[c] = Idle
           /\ awaited'[c] = [k \in Msgs |-> 0]
<1>0. /\ sock \in [Conns -> {"new", "open", "closed"}] /\ up \in [Conns -> Seq(Request)]
      /\ chan \in [Conns -> Seq(Frame)] /\ task \in [Conns -> Working]
      /\ awaited \in [Conns -> [Msgs -> Int]]
  BY DEF TypeOK
<1>1. sock[c] = "new"
  BY <1>0 DEF Next, vars, Connect, Disconnect, Crash, TaskStep, TakeFrame, PersistInsert, PersistLookup,
         PersistFails, PushToRecipient, AckSender, MarkSeen, MarkSeenFails, ReportSeen,
         SyncStep, SyncSelect, SyncFails, SyncPush, OpenChat, CloseChat, HistStep, HistUpdate,
         HistSelect, HistAborts, HistRespond, SenderHistSelect, SenderHistStep,
         SenderHistAborts, SenderHistRespond, SendMessage, ClientRead, HandlePush, HandleAck,
         HandleDeliveryUpdate, IgnoreError, Took
<1>2. /\ up[c] = <<>> /\ chan[c] = <<>> /\ task[c] = Idle /\ awaited[c] = [k \in Msgs |-> 0]
  BY <1>1 DEF AnswerInv
<1>3. \A fs : \A d \in Conns : Reply(d, fs) => chan'[c] = chan[c]
  BY <1>0, <1>1 DEF Reply
<1>4. \A f : \A u \in {Sender, Recipient} : SendToUser(u, f) => chan'[c] = chan[c]
  BY <1>0, <1>1, <1>3 DEF SendToUser, TypeOK
<1>5. CASE UNCHANGED vars
  BY <1>2, <1>5 DEF vars, page
<1>6. ASSUME NEW d \in Conns, Connect(d) \/ Disconnect(d)
      PROVE  /\ up'[c] = <<>> /\ chan'[c] = <<>> /\ task'[c] = Idle
             /\ awaited'[c] = [k \in Msgs |-> 0]
  BY <1>0, <1>1, <1>2, <1>6 DEF Connect, Disconnect, page
<1>7. CASE Crash
  BY <1>7 DEF Crash
<1>8. ASSUME NEW d \in Conns, TaskStep(d)
      PROVE  up'[c] = up[c] /\ chan'[c] = chan[c] /\ task'[c] = task[c] /\ awaited' = awaited
  <2>1. d # c
    BY <1>2, <1>8 DEF TaskStep, TakeFrame, PersistInsert, PersistLookup, PersistFails,
                      PushToRecipient, AckSender, MarkSeen, MarkSeenFails, ReportSeen, Idle
  <2>2. up'[c] = up[c] /\ task'[c] = task[c] /\ awaited' = awaited
    BY <1>0, <1>8, <2>1
    DEF TaskStep, TakeFrame, PersistInsert, PersistLookup, PersistFails, PushToRecipient,
        AckSender, MarkSeen, MarkSeenFails, ReportSeen, Goto, page
  <2>3. chan'[c] = chan[c]
    BY <1>3, <1>4, <1>8
    DEF TaskStep, TakeFrame, PersistInsert, PersistLookup, PersistFails, PushToRecipient,
        AckSender, MarkSeen, MarkSeenFails, ReportSeen
  <2> QED
    BY <2>2, <2>3
<1>9. ASSUME NEW d \in Conns, SyncStep(d)
      PROVE  up' = up /\ chan'[c] = chan[c] /\ task' = task /\ awaited' = awaited
  BY <1>3, <1>9 DEF SyncStep, SyncSelect, SyncFails, SyncPush, page
<1>10. ASSUME NEW d \in Conns, ClientRead(d)
       PROVE  up'[c] = up[c] /\ chan'[c] = chan[c] /\ task' = task /\ awaited'[c] = awaited[c]
  <2>1. d # c
    BY <1>2, <1>10 DEF ClientRead, HandlePush, HandleAck, HandleDeliveryUpdate, IgnoreError, Took
  <2> QED
    BY <1>0, <1>10, <2>1
    DEF ClientRead, HandlePush, HandleAck, HandleDeliveryUpdate, IgnoreError, Took
<1>11. ASSUME NEW d \in Conns, NEW k \in Msgs, SendMessage(d, k)
       PROVE  up'[c] = up[c] /\ chan' = chan /\ task' = task /\ awaited'[c] = awaited[c]
  BY <1>0, <1>1, <1>11 DEF SendMessage
<1>12. ASSUME OpenChat \/ CloseChat \/ HistStep \/ SenderHistSelect \/ SenderHistStep
       PROVE  up' = up /\ chan'[c] = chan[c] /\ task' = task /\ awaited' = awaited
  BY <1>4, <1>12
  DEF OpenChat, CloseChat, HistStep, HistUpdate, HistSelect, HistAborts, HistRespond,
      SenderHistSelect, SenderHistStep, SenderHistAborts, SenderHistRespond, page
<1> QED
  BY <1>2, <1>5, <1>6, <1>7, <1>8, <1>9, <1>10, <1>11, <1>12 DEF Next

LEMMA AnswerStep == TypeOK /\ AnswerInv /\ [Next]_vars => AnswerInv'
<1> SUFFICES ASSUME TypeOK, AnswerInv, [Next]_vars, NEW c \in Conns, sock'[c] = "open"
             PROVE  AnsweredOn(c)'
  BY NewStays DEF AnswerInv
<1>1. CASE UNCHANGED vars
  BY <1>1 DEF vars, page, AnswerInv, AnsweredOn, AtWork
<1>2. ASSUME NEW d \in Conns, Connect(d) PROVE AnsweredOn(c)'
  <2>1. UNCHANGED <<up, chan, task, awaited>>
    BY <1>2 DEF Connect, page
  <2>2. CASE sock[c] = "open"
    BY <2>1, <2>2, QuietAnswers DEF AtWork
  <2>3. CASE sock[c] = "new"
    <3>1. up[c] = <<>> /\ chan[c] = <<>> /\ task[c] = Idle /\ awaited[c] = [k \in Msgs |-> 0]
      BY <2>3 DEF AnswerInv
    <3>2. \A k \in Msgs : AtWork(c, k) = 0
      BY <3>1 DEF AtWork, Idle
    <3>3. \A T : Count(<<>>, T) = 0
      BY CountNothing
    <3>4. \A k \in Msgs :
            0 = Count(up[c], Asking(k)) + AtWork(c, k) + Count(chan[c], Answers(k))
      BY <3>1, <3>2, <3>3
    <3> QED
      BY <2>1, <3>1, <3>4 DEF AnsweredOn, AtWork
  <2> QED
    BY <1>2, <2>2, <2>3 DEF Connect, TypeOK
<1>3. ASSUME NEW d \in Conns, Disconnect(d) PROVE AnsweredOn(c)'
  <2>1. /\ d # c /\ sock[c] = "open" /\ up'[c] = up[c] /\ chan'[c] = chan[c]
        /\ awaited'[c] = awaited[c] /\ task' = task
    BY <1>3 DEF Disconnect, TypeOK
  <2> QED
    BY <2>1, QuietAnswers DEF AtWork
<1>4. ~Crash
  BY DEF Crash
<1>5. CASE ~UNCHANGED vars /\ ~(\E d \in Conns : Connect(d) \/ Disconnect(d))
  <2>1. sock' = sock
    BY <1>4, <1>5
    DEF Next, vars, TaskStep, TakeFrame, PersistInsert, PersistLookup,
        PersistFails, PushToRecipient, AckSender, MarkSeen, MarkSeenFails, ReportSeen,
        SyncStep, SyncSelect, SyncFails, SyncPush, OpenChat, CloseChat, HistStep, HistUpdate,
        HistSelect, HistAborts, HistRespond, SenderHistSelect, SenderHistStep,
        SenderHistAborts, SenderHistRespond, SendMessage, ClientRead, HandlePush, HandleAck,
        HandleDeliveryUpdate, IgnoreError, Took
  <2>2. ASSUME OpenChat \/ CloseChat \/ HistStep \/ SenderHistSelect \/ SenderHistStep
        PROVE  AnsweredOn(c)'
    <3>1. up' = up /\ task' = task /\ awaited' = awaited
      BY <2>2
      DEF OpenChat, CloseChat, HistStep, HistUpdate, HistSelect, HistAborts, HistRespond,
          SenderHistSelect, SenderHistStep, SenderHistAborts, SenderHistRespond, page
    <3>2. ASSUME NEW k \in Msgs PROVE Count(chan'[c], Answers(k)) = Count(chan[c], Answers(k))
      <4>1. CASE UNCHANGED chan
        BY <4>1
      <4>2. CASE HistSelect /\ ~UNCHANGED chan
        <5> DEFINE f == [cmd |-> "delivery_update", ids |-> hist.ids]
        <5>1. f \in Frame /\ SendToUser(Sender, f) /\ f.cmd = "delivery_update"
          BY <4>2 DEF HistSelect, Frame, TypeOK, Loading
        <5> HIDE DEF f
        <5> QED
          BY <5>1, SendNoAnswer
      <4> QED
        BY <2>2, <4>1, <4>2
        DEF OpenChat, CloseChat, HistStep, HistUpdate, HistAborts, HistRespond,
            SenderHistSelect, SenderHistStep, SenderHistAborts, SenderHistRespond
    <3> QED
      BY <2>1, <3>1, <3>2, QuietAnswers DEF AtWork
  <2> QED
    BY <1>4, <1>5, <2>1, <2>2, TaskAnswers, SyncAnswers, ClientAnswers, SendAnswers DEF Next
<1> QED
  BY <1>1, <1>2, <1>3, <1>5

\* The server answers every private_chat frame once: on a connection that is up, as many
\* answers are still to be read as frames are on their way, being handled or answered, also
\* when a client_msg_id is sent again and when statements fail.
THEOREM FramesAreAnswered == Spec => []EveryFrameAnswered
<1>1. Init => AnswerInv
  BY DEF Init, AnswerInv
<1>2. AnswerInv => EveryFrameAnswered
  BY DEF AnswerInv, EveryFrameAnswered, AnsweredOn
<1> QED
  BY <1>1, <1>2, AnswerStep, TypeCorrect, PTL DEF Spec

-----------------------------------------------------------------------------
(* Delivery                                                                *)

\* The unseen messages fit into one backlog.
BacklogFits == Cardinality(Unseen) <= SyncLimit

\* i is among the messages K, or comes after SyncLimit unseen messages that are.
Before(i, K) == {j \in Unseen : j < i /\ rows[j].key \in K}
Reached(i, K) == rows[i].key \in K \/ Cardinality(Before(i, K)) >= SyncLimit

\* An open connection of the recipient is the one pushes go to; once it has selected
\* its backlog, every unseen message is in it, given otherwise, or beyond its limit.
DeliveryInv ==
    \A c \in RecipientConns : sock[c] = "open" =>
        /\ online[Recipient] = c
        /\ sync[c].pc = "idle" => \A i \in Unseen : Reached(i, Given(c))
        /\ sync[c].pc = "push" => \A i \in Unseen : Reached(i, Given(c) \cup Batch(c))

LEMMA OrderedInjective ==
    ASSUME NEW S \in SUBSET Nat, IsFiniteSet(S), NEW f \in Ordered(S),
           NEW m \in 1..Cardinality(S), NEW n \in 1..Cardinality(S), m # n
    PROVE  f[m] # f[n]
<1>1. Cardinality(S) \in Nat
  BY FS_CardinalityType
<1>2. f \in [1..Cardinality(S) -> S] /\ (m < n => f[m] < f[n]) /\ (n < m => f[n] < f[m])
  BY DEF Ordered
<1>3. m < n \/ n < m
  BY <1>1
<1>4. f[m] \in Nat /\ f[n] \in Nat
  BY <1>2
<1> QED
  BY <1>2, <1>3, <1>4

\* Sorting the unseen rows leaves none out.
LEMMA OrderedCovers ==
    ASSUME NEW S \in SUBSET Nat, IsFiniteSet(S), NEW f \in Ordered(S), NEW x \in S
    PROVE  \E n \in 1..Cardinality(S) : f[n] = x
<1>1. Cardinality(S) \in Nat
  BY FS_CardinalityType
<1>2. f \in Injection(1..Cardinality(S), S)
  BY OrderedInjective DEF Injection, IsInjective, Ordered
<1>3. IsFiniteSet(1..Cardinality(S)) /\ Cardinality(1..Cardinality(S)) = Cardinality(S)
  BY <1>1, UpTo
<1>4. f \in Surjection(1..Cardinality(S), S)
  BY <1>2, <1>3, FS_Injection
<1> QED
  BY <1>4 DEF Surjection

\* The first k of a sorted set are k.
LEMMA OrderedPrefix ==
    ASSUME NEW S \in SUBSET Nat, IsFiniteSet(S), NEW f \in Ordered(S),
           NEW k \in 0..Cardinality(S), NEW T, IsFiniteSet(T), \A m \in 1..k : f[m] \in T
    PROVE  Cardinality(T) >= k
<1>1. Cardinality(S) \in Nat /\ Cardinality(T) \in Nat /\ k \in Nat
  BY FS_CardinalityType
<1>2. [m \in 1..k |-> f[m]] \in Injection(1..k, T)
  BY <1>1, OrderedInjective DEF Injection, IsInjective
<1>3. IsFiniteSet(1..k) /\ Cardinality(1..k) = k
  BY <1>1, UpTo
<1> QED
  BY <1>1, <1>2, <1>3, FS_Injection

\* What is given to a recipient who stays connected stays given.
LEMMA GivenStays ==
    ASSUME TypeOK, [Next]_vars, NEW c \in RecipientConns, sock[c] = "open", sock'[c] = "open",
           online[Recipient] = c, NEW k \in Given(c)
    PROVE  k \in Given(c)'
<1>0. c \in Conns /\ c # NoConn /\ task \in [Conns -> Working]
  BY PrivateChatAssumption DEF Conns, TypeOK
<1>1. CASE k \in recv
  <2>1. recv \subseteq recv'
    BY DEF Next, vars, page, Connect, Disconnect, Crash, TaskStep, TakeFrame, PersistInsert,
           PersistLookup, PersistFails, PushToRecipient, AckSender, MarkSeen, MarkSeenFails,
           ReportSeen, SyncStep, SyncSelect, SyncFails, SyncPush, OpenChat, CloseChat,
           HistStep, HistUpdate, HistSelect, HistAborts, HistRespond, SenderHistSelect,
           SenderHistStep, SenderHistAborts, SenderHistRespond, SendMessage,
           ClientRead, HandlePush, HandleAck, HandleDeliveryUpdate, IgnoreError
  <2> QED
    BY <1>1, <2>1 DEF Given
<1>2. CASE k \in PushedTo(c)
  <2>1. PICK f \in Frames(c) : f.cmd = "private_push" /\ f.key = k
    BY <1>2 DEF PushedTo
  <2>2. CASE f \in Frames(c)'
    BY <2>1, <2>2 DEF Given, PushedTo
  <2>3. CASE ClientRead(c) /\ f = Head(chan[c])
    <3>1. HandlePush(c)
      BY <2>1, <2>3 DEF ClientRead, HandleAck, HandleDeliveryUpdate, IgnoreError, Took
    <3> QED
      BY <2>1, <2>3, <3>1 DEF HandlePush, Given
  <2> QED
    BY <1>0, <2>2, <2>3, FramesStay
<1>3. CASE k \in BeingPushed
  <2>1. PICK d \in Conns : task[d].pc = "push" /\ task[d].key = k
    BY <1>3 DEF BeingPushed
  <2>2. CASE PushToRecipient(d)
    <3>1. [cmd |-> "private_push", key |-> k] \in Frames(c)'
      BY <1>0, <2>1, <2>2, PushSends
    <3> QED
      BY <3>1 DEF Given, PushedTo
  <2>3. CASE ~PushToRecipient(d)
    <3>1. ASSUME NEW e \in Conns, TaskStep(e), e # d PROVE task'[d] = task[d]
      BY <1>0, <3>1
      DEF TaskStep, Goto, TakeFrame, PersistInsert, PersistLookup, PersistFails,
          PushToRecipient, AckSender, MarkSeen, MarkSeenFails, ReportSeen
    <3>2. ~TaskStep(d)
      BY <2>1, <2>3
      DEF TaskStep, TakeFrame, PersistInsert, PersistLookup, PersistFails, AckSender, MarkSeen,
          MarkSeenFails, ReportSeen, Idle
    <3>3. UNCHANGED task \/ \E e \in Conns : TaskStep(e)
      <4>1. ~Crash
        BY <1>0 DEF Crash
      <4> QED
        BY <4>1
        DEF Next, vars, Connect, Disconnect, SyncStep, SyncSelect, SyncFails, SyncPush,
             OpenChat, CloseChat, HistStep, HistUpdate, HistSelect, HistAborts, HistRespond,
             SenderHistSelect, SenderHistStep, SenderHistAborts, SenderHistRespond,
             SendMessage, ClientRead, HandlePush, HandleAck, HandleDeliveryUpdate,
             IgnoreError, Took
    <3>4. task'[d] = task[d]
      BY <3>1, <3>2, <3>3
    <3> QED
      BY <2>1, <3>4 DEF Given, BeingPushed
  <2> QED
    BY <2>2, <2>3
<1> QED
  BY <1>1, <1>2, <1>3 DEF Given

\* A row that is new is being pushed.
LEMMA NewRowPushed ==
    ASSUME TypeOK, [Next]_vars, NEW i \in Unseen'
    PROVE  \/ i \in Unseen /\ rows'[i].key = rows[i].key
           \/ rows'[i].key \in BeingPushed'
<1>1. CASE i \in Ids
  BY <1>1, RowsStep DEF Unseen
<1>2. CASE i \notin Ids
  <2>1. PICK c \in Conns : PersistInsert(c) /\ ~UNCHANGED rows
    BY <1>2, RowChanges, SeenAllType DEF Unseen, Ids
  <2>2. /\ rows' = Append(rows, [key |-> task[c].key, seen |-> FALSE])
        /\ task' = [task EXCEPT ![c] = [pc |-> "push", key |-> task[c].key, id |-> Len(rows) + 1]]
    BY <2>1 DEF PersistInsert, Goto
  <2>3. [key |-> task[c].key, seen |-> FALSE] \in [key : Msgs, seen : BOOLEAN]
    BY <2>1 DEF PersistInsert, TypeOK, Working, Request
  <2>4. /\ Ids' = 1..Len(rows) + 1 /\ Ids = 1..Len(rows) /\ Len(rows) \in Nat
        /\ rows'[Len(rows) + 1] = [key |-> task[c].key, seen |-> FALSE]
    BY <2>2, <2>3, AppendProperties, LenProperties DEF TypeOK, Ids
  <2>5. i = Len(rows) + 1
    BY <1>2, <2>4 DEF Unseen
  <2>6. task'[c].pc = "push" /\ task'[c].key = task[c].key
    BY <2>2 DEF TypeOK
  <2> QED
    BY <2>4, <2>5, <2>6 DEF BeingPushed
<1> QED
  BY <1>1, <1>2

\* Where the backlog of a connection changes.
LEMMA SyncChanges ==
    ASSUME TypeOK, [Next]_vars, NEW c \in Conns, sock'[c] = "open"
    PROVE  \/ sync'[c] = sync[c] /\ sock[c] = "open"
           \/ sock[c] = "open" /\ SyncStep(c)
           \/ Connect(c)
<1>1. ASSUME NEW d \in Conns, d # c, SyncStep(d) \/ Connect(d)
      PROVE  sync'[c] = sync[c] /\ sock'[c] = sock[c]
  BY <1>1 DEF SyncStep, SyncSelect, SyncFails, SyncPush, Connect, TypeOK
<1>2. ASSUME NEW d \in Conns, Disconnect(d) PROVE sync'[c] = sync[c] /\ sock[c] = "open"
  BY <1>2 DEF Disconnect, TypeOK
<1>3. ~Crash
  BY DEF Crash
<1>4. \/ UNCHANGED <<sync, sock>>
      \/ \E d \in Conns : SyncStep(d) \/ Connect(d) \/ Disconnect(d)
  BY <1>3
  DEF Next, vars, TaskStep, TakeFrame, PersistInsert, PersistLookup, PersistFails,
      PushToRecipient, AckSender, MarkSeen, MarkSeenFails, ReportSeen, OpenChat, CloseChat,
      HistStep, HistUpdate, HistSelect, HistAborts, HistRespond, SenderHistSelect,
      SenderHistStep, SenderHistAborts, SenderHistRespond, SendMessage, ClientRead,
      HandlePush, HandleAck, HandleDeliveryUpdate, IgnoreError, Took
<1>5. SyncStep(c) => UNCHANGED sock
  BY DEF SyncStep, SyncFails, SyncSelect, SyncPush
<1> QED
  BY <1>1, <1>2, <1>4, <1>5

\* The registered connection stays registered while it is open.
LEMMA RegisteredStays ==
    ASSUME TypeOK, [Next]_vars, NEW c \in RecipientConns, sock'[c] = "open",
           sock[c] = "open" => online[Recipient] = c
    PROVE  online'[Recipient] = c
<1>0. c \in Conns /\ c # NoConn /\ UserOf(c) = Recipient /\ Sender # Recipient
      /\ Recipient \in {Sender, Recipient}
  BY PrivateChatAssumption DEF Conns, UserOf
<1>1. ASSUME NEW d \in Conns, Connect(d) PROVE online'[Recipient] = c
  <2>1. CASE d = c
    BY <1>0, <1>1, <2>1 DEF Connect, TypeOK
  <2>2. CASE d # c
    <3>1. sock[c] = "open"
      BY <1>0, <1>1, <2>2 DEF Connect, TypeOK
    <3>2. UserOf(d) # Recipient
      BY <1>0, <1>1, <3>1 DEF Connect
    <3> QED
      BY <1>0, <1>1, <3>1, <3>2 DEF Connect, TypeOK
  <2> QED
    BY <2>1, <2>2
<1>2. ASSUME NEW d \in Conns, PushToRecipient(d) PROVE online'[Recipient] = c
  <2>1. sock[c] = "open"
    BY <1>2 DEF PushToRecipient
  <2> QED
    BY <1>0, <1>2, <2>1, PushSends
<1>3. ASSUME NEW ids \in SUBSET Ids, UNCHANGED sock,
             SendToUser(Sender, [cmd |-> "delivery_update", ids |-> ids])
      PROVE  online'[Recipient] = c
  BY <1>3, ReportSends
<1>4. ASSUME NEW d \in Conns, ReportSeen(d) PROVE online'[Recipient] = c
  <2>1. task[d].ids \in SUBSET Ids /\ UNCHANGED sock
        /\ SendToUser(Sender, [cmd |-> "delivery_update", ids |-> task[d].ids])
    BY <1>4 DEF ReportSeen, TypeOK, Working, Request
  <2> QED
    BY <1>3, <2>1
<1>5. CASE HistSelect
  <2>1. UNCHANGED sock /\ hist.ids \in SUBSET Ids
    BY <1>5 DEF HistSelect, TypeOK, Loading
  <2>2. \/ UNCHANGED online
        \/ SendToUser(Sender, [cmd |-> "delivery_update", ids |-> hist.ids])
    BY <1>5 DEF HistSelect
  <2> QED
    BY <1>3, <2>1, <2>2
<1>6. ~Crash
  BY <1>0 DEF Crash
<1>7. ASSUME UNCHANGED online, sock[c] = "open" PROVE online'[Recipient] = c
  BY <1>7
<1>8. \/ UNCHANGED online /\ sock[c] = "open"
      \/ \E d \in Conns : Connect(d) \/ PushToRecipient(d) \/ ReportSeen(d)
      \/ HistSelect
  BY <1>0, <1>6
  DEF Next, vars, Disconnect, TaskStep, TakeFrame, PersistInsert, PersistLookup, PersistFails,
      AckSender, MarkSeen, MarkSeenFails, SyncStep, SyncSelect, SyncFails, SyncPush, OpenChat,
      CloseChat, HistStep, HistUpdate, HistAborts, HistRespond, SenderHistSelect,
      SenderHistStep, SenderHistAborts, SenderHistRespond, SendMessage, ClientRead,
      HandlePush, HandleAck, HandleDeliveryUpdate, IgnoreError, Took, TypeOK
<1> QED
  BY <1>1, <1>2, <1>4, <1>5, <1>7, <1>8

\* What is reached stays reached as long as it is unseen: marking takes all of the
\* unseen rows or none, and what is given grows.
LEMMA ReachedStays ==
    ASSUME TypeOK, [Next]_vars, NEW i \in Unseen, i \in Unseen', NEW K, Reached(i, K),
           NEW L, K \subseteq L
    PROVE  \/ rows'[i].key \in L
           \/ Cardinality({j \in Unseen' : j < i /\ rows'[j].key \in L}) >= SyncLimit
<1> DEFINE B == Before(i, K)
           C == {j \in Unseen' : j < i /\ rows'[j].key \in L}
<1>1. \A j \in Unseen : j \in Unseen' /\ rows'[j].key = rows[j].key
  <2>1. CASE rows' = SeenAll(Unseen)
    <3>1. Ids' = Ids /\ i \in Ids /\ rows'[i] = [rows[i] EXCEPT !.seen = rows[i].seen \/ i \in Unseen]
      BY <2>1 DEF SeenAll, Ids, Unseen
    <3>2. rows \in [1..Len(rows) -> [key : Msgs, seen : BOOLEAN]] /\ Ids = 1..Len(rows)
      BY LenProperties DEF TypeOK, Ids
    <3>3. rows[i] \in [key : Msgs, seen : BOOLEAN]
      BY <3>1, <3>2
    <3>4. rows'[i].seen
      BY <3>1, <3>3
    <3> QED
      BY <3>4 DEF Unseen
  <2>2. CASE UNCHANGED rows
    BY <2>2 DEF Unseen, Ids
  <2>3. ASSUME NEW c \in Conns, PersistInsert(c), ~UNCHANGED rows
        PROVE  \A j \in Ids : j \in Ids' /\ rows'[j] = rows[j]
    <3>1. rows' = Append(rows, [key |-> task[c].key, seen |-> FALSE])
      BY <2>3 DEF PersistInsert
    <3>2. [key |-> task[c].key, seen |-> FALSE] \in [key : Msgs, seen : BOOLEAN]
      BY <2>3 DEF PersistInsert, TypeOK, Working, Request
    <3> QED
      BY <3>1, <3>2, AppendProperties, LenProperties DEF TypeOK, Ids
  <2> QED
    BY <2>1, <2>2, <2>3, RowChanges DEF Unseen
<1>2. B \subseteq C
  BY <1>1 DEF Before
<1>3. IsFiniteSet(C)
  <2>1. i \in Nat /\ Unseen' \subseteq Nat
    <3>1. TypeOK'
      BY TypeStep
    <3>2. Ids' = 1..Len(rows')
      BY <3>1, LenProperties DEF TypeOK, Ids
    <3>3. Len(rows') \in Nat
      BY <3>1, LenProperties DEF TypeOK
    <3> QED
      BY <3>2, <3>3 DEF Unseen
  <2> QED
    BY <2>1, FS_BoundedSetOfNaturals
<1>4. Cardinality(B) \in Nat /\ Cardinality(C) \in Nat /\ Cardinality(B) <= Cardinality(C)
  BY <1>2, <1>3, FS_Subset, FS_CardinalityType
<1>5. rows[i].key \in K \/ Cardinality(B) >= SyncLimit
  BY DEF Reached
<1> QED
  BY <1>1, <1>4, <1>5, PrivateChatAssumption

\* The backlog a connection selects reaches every unseen message.
LEMMA BacklogReaches ==
    ASSUME TypeOK, NEW c \in Conns, SyncSelect(c), NEW i \in Unseen,
           NEW L, Batch(c)' \subseteq L
    PROVE  rows[i].key \in L \/ Cardinality(Before(i, L)) >= SyncLimit
<1>1. PICK ids \in Ordered(Unseen), room \in Room(Unseen) :
          sync' = [sync EXCEPT ![c] = [pc |-> "push",
            batch |-> [n \in {m \in DOMAIN ids : m <= room} |-> rows[ids[n]].key]]]
  BY DEF SyncSelect
<1>2. sync'[c].batch = [n \in {m \in DOMAIN ids : m <= room} |-> rows[ids[n]].key]
  BY <1>1 DEF TypeOK
<1>3. /\ Unseen \in SUBSET Nat /\ IsFiniteSet(Unseen) /\ Cardinality(Unseen) \in Nat
      /\ SyncLimit \in Nat /\ room \in Nat /\ room >= SyncLimit
  BY RowsTyped, PrivateChatAssumption DEF Unseen, Room
<1>4. ids \in [1..Cardinality(Unseen) -> Unseen]
  BY DEF Ordered
<1>5. \A m \in 1..Cardinality(Unseen) : m <= room => rows[ids[m]].key \in L
  BY <1>2, <1>4 DEF Batch
<1>6. PICK n \in 1..Cardinality(Unseen) : ids[n] = i
  BY <1>3, OrderedCovers
<1>7. CASE n <= room
  BY <1>5, <1>6, <1>7
<1>8. CASE room < n
  <2>1. \A m \in 1..SyncLimit : m \in 1..Cardinality(Unseen) /\ m <= room /\ m < n
    BY <1>3, <1>8
  <2>2. \A m \in 1..SyncLimit : ids[m] \in Before(i, L)
    BY <1>4, <1>5, <1>6, <2>1 DEF Before, Ordered
  <2>3. IsFiniteSet(Before(i, L))
    BY <1>3, FS_Subset DEF Before
  <2>4. SyncLimit \in 0..Cardinality(Unseen)
    BY <1>3, <1>8
  <2> QED
    BY <1>3, <2>2, <2>3, <2>4, OrderedPrefix
<1> QED
  BY <1>3, <1>7, <1>8

LEMMA DeliveryStep == TypeOK /\ DeliveryInv /\ [Next]_vars => DeliveryInv'
<1> SUFFICES ASSUME TypeOK, DeliveryInv, [Next]_vars,
                    NEW c \in RecipientConns, sock'[c] = "open"
             PROVE  /\ online'[Recipient] = c
                    /\ sync'[c].pc = "idle" => \A i \in Unseen' : Reached(i, Given(c))'
                    /\ sync'[c].pc = "push" =>
                         \A i \in Unseen' : Reached(i, Given(c) \cup Batch(c))'
  BY DEF DeliveryInv
<1>0. c \in Conns /\ UserOf(c) = Recipient
  BY PrivateChatAssumption DEF Conns, UserOf
<1>1. online'[Recipient] = c
  BY RegisteredStays DEF DeliveryInv
<1>2. CASE Connect(c)
  <2>1. sync'[c].pc = "select"
    BY <1>0, <1>2 DEF Connect, TypeOK
  <2> QED
    BY <1>1, <2>1
<1>3. ASSUME sock[c] = "open" PROVE Given(c) \subseteq Given(c)'
  BY <1>0, <1>3, GivenStays DEF DeliveryInv
<1>4. ASSUME NEW i \in Unseen', NEW K, i \in Unseen => Reached(i, K), NEW L,
             K \cup BeingPushed' \subseteq L
      PROVE  \/ rows'[i].key \in L
             \/ Cardinality({j \in Unseen' : j < i /\ rows'[j].key \in L}) >= SyncLimit
  BY <1>4, NewRowPushed, ReachedStays
<1>5. BeingPushed' \subseteq Given(c)'
  BY DEF Given
<1>6. CASE sync'[c] = sync[c] /\ sock[c] = "open"
  <2>1. Batch(c)' = Batch(c)
    BY <1>6 DEF Batch
  <2>2. CASE sync[c].pc = "idle"
    <3>1. ASSUME NEW i \in Unseen' PROVE Reached(i, Given(c))'
      BY <1>3, <1>4, <1>5, <1>6, <2>2 DEF DeliveryInv, Reached, Before
    <3> QED
      BY <1>1, <1>6, <2>2, <3>1
  <2>3. CASE sync[c].pc = "push"
    <3>1. Given(c) \cup Batch(c) \cup BeingPushed' \subseteq Given(c)' \cup Batch(c)'
      BY <1>3, <1>5, <1>6, <2>1
    <3>2. \A i \in Unseen : Reached(i, Given(c) \cup Batch(c))
      BY <1>6, <2>3 DEF DeliveryInv
    <3>3. ASSUME NEW i \in Unseen' PROVE Reached(i, Given(c) \cup Batch(c))'
      BY <1>4, <3>1, <3>2 DEF Reached, Before
    <3> QED
      BY <1>1, <1>6, <2>3, <3>3
  <2> QED
    BY <1>1, <1>6, <2>2, <2>3
<1>7. CASE sock[c] = "open" /\ SyncSelect(c)
  <2>1. UNCHANGED rows /\ Unseen' = Unseen /\ sync'[c].pc = "push"
    BY <1>0, <1>7 DEF SyncSelect, Unseen, Ids, TypeOK
  <2>2. ASSUME NEW i \in Unseen' PROVE Reached(i, Given(c) \cup Batch(c))'
    BY <1>0, <1>7, <2>1, BacklogReaches DEF Reached, Before
  <2> QED
    BY <1>1, <2>1, <2>2
<1>8. CASE sock[c] = "open" /\ SyncFails(c)
  BY <1>0, <1>1, <1>8 DEF SyncFails, TypeOK
<1>9. CASE sock[c] = "open" /\ SyncPush(c)
  <2>1. sync'[c].pc = "idle" /\ sync[c].pc = "push"
    BY <1>0, <1>9 DEF SyncPush, Idle, TypeOK
  <2>2. Batch(c) \subseteq Given(c)'
    BY <1>0, <1>9, SyncSends DEF Batch, Given
  <2>3. Given(c) \cup Batch(c) \cup BeingPushed' \subseteq Given(c)'
    BY <1>3, <1>5, <1>9, <2>2
  <2>4. \A i \in Unseen : Reached(i, Given(c) \cup Batch(c))
    BY <1>9, <2>1 DEF DeliveryInv
  <2>5. ASSUME NEW i \in Unseen' PROVE Reached(i, Given(c))'
    BY <1>4, <2>3, <2>4 DEF Reached, Before
  <2> QED
    BY <1>1, <2>1, <2>5
<1> QED
  BY <1>0, <1>2, <1>6, <1>7, <1>8, <1>9, SyncChanges DEF SyncStep

LEMMA DeliveryAlways == Spec => [](TypeOK /\ DeliveryInv)
<1>1. Init => DeliveryInv
  BY DEF Init, DeliveryInv, Conns
<1> QED
  BY <1>1, DeliveryStep, TypeCorrect, PTL DEF Spec

\* What a synced recipient was not given comes after SyncLimit unseen messages they
\* were given, however the backlog is cut and whatever fails (BacklogGivesOldest).
THEOREM OldestFirst == Spec => []BacklogGivesOldest
<1>1. DeliveryInv => BacklogGivesOldest
  BY DEF DeliveryInv, BacklogGivesOldest, Reached, Before, Idle
<1> QED
  BY <1>1, DeliveryAlways, PTL

\* Whenever the unseen messages fit into one backlog, a recipient who is connected
\* and synced has, or is being sent, all of them.
THEOREM NothingIsLost == Spec => [](BacklogFits => NoLostMessage)
<1>1. ASSUME TypeOK, DeliveryInv, BacklogFits PROVE NoLostMessage
  <2> SUFFICES ASSUME NEW c \in RecipientConns, sock[c] = "open", sync[c] = Idle,
                      NEW i \in Unseen, rows[i].key \notin Given(c)
               PROVE  FALSE
    BY DEF NoLostMessage
  <2> DEFINE B == Before(i, Given(c))
  <2>1. Cardinality(B) >= SyncLimit
    <3>1. sync[c].pc = "idle"
      BY DEF Idle
    <3>2. Reached(i, Given(c))
      BY <1>1, <3>1 DEF DeliveryInv
    <3> QED
      BY <3>2 DEF Reached
  <2>2. /\ IsFiniteSet(Unseen) /\ B \in SUBSET Unseen /\ i \notin B
    BY <1>1, RowsTyped DEF Before
  <2>3. /\ Cardinality(B) \in Nat /\ Cardinality(Unseen) \in Nat
        /\ Cardinality(B) <= Cardinality(Unseen)
        /\ Cardinality(B) = Cardinality(Unseen) => B = Unseen
    BY <2>2, FS_Subset, FS_CardinalityType
  <2> QED
    BY <1>1, <2>1, <2>2, <2>3, PrivateChatAssumption DEF BacklogFits
<1> QED
  BY <1>1, DeliveryAlways, PTL

-----------------------------------------------------------------------------
(* The conversation the two pages may rely on                              *)

Stored == {rows[i].key : i \in Ids}

\* What the recipient is given, or is about to be, is stored ...
GivenInv ==
    /\ recv \subseteq Stored
    /\ \A c \in Conns : PushedTo(c) \subseteq Stored
    /\ \A c \in Conns : sync[c].pc = "push" => Batch(c) \subseteq Stored
    /\ hist.pc = "respond" => hist.keys \subseteq Stored

\* ... and what the sender's page shows or keeps as read, it knows.
KnownInv ==
    /\ saved \subseteq known
    /\ shist.pc = "respond" => shist.seen \subseteq shist.ids

LEMMA StoredGrows ==
    ASSUME TypeOK, [Next]_vars
    PROVE  Stored \subseteq Stored'
  BY RowsStep DEF Stored

LEMMA GivenStep == TypeOK /\ KeysInv /\ GivenInv /\ [Next]_vars => GivenInv'
<1> SUFFICES ASSUME TypeOK, KeysInv, GivenInv, [Next]_vars PROVE GivenInv'
  OBVIOUS
<1> USE DEF page, hists, reload
<1>1. Stored \subseteq Stored'
  BY StoredGrows
<1>2. recv' \subseteq Stored'
  <2>1. ASSUME NEW c \in Conns, HandlePush(c) PROVE recv' \subseteq Stored
    <3>1. Head(chan[c]) = chan[c][1] /\ 1 \in DOMAIN chan[c] /\ chan[c][1].cmd = "private_push"
      BY <2>1, TookFrames DEF HandlePush
    <3>2. Head(chan[c]).key \in PushedTo(c)
      BY <3>1 DEF PushedTo, Frames
    <3> QED
      BY <2>1, <3>2 DEF HandlePush, GivenInv
  <2>2. CASE HistRespond
    BY <1>1, <2>2 DEF HistRespond, GivenInv
  <2>3. UNCHANGED recv \/ HistRespond \/ \E c \in Conns : HandlePush(c)
    BY DEF Next, vars, Connect, Disconnect, Crash, TaskStep, TakeFrame, PersistInsert,
           PersistLookup, PersistFails, PushToRecipient, AckSender, MarkSeen, MarkSeenFails,
           ReportSeen, SyncStep, SyncSelect, SyncFails, SyncPush, OpenChat, CloseChat, HistStep,
           HistUpdate, HistSelect, HistAborts, SenderHistSelect, SenderHistStep,
           SenderHistAborts, SenderHistRespond, SendMessage, ClientRead, HandleAck,
           HandleDeliveryUpdate, IgnoreError
  <2> QED
    BY <1>1, <2>1, <2>2, <2>3 DEF GivenInv
<1>3. ASSUME NEW d \in Conns, NEW k \in PushedTo(d)' PROVE k \in Stored'
  <2>1. PICK n \in DOMAIN chan'[d] : chan'[d][n].cmd = "private_push" /\ chan'[d][n].key = k
    BY <1>3 DEF PushedTo, Frames
  <2>2. CASE \E m \in DOMAIN chan[d] : chan'[d][n] = chan[d][m]
    <3>1. k \in PushedTo(d)
      BY <2>1, <2>2 DEF PushedTo, Frames
    <3> QED
      BY <1>1, <3>1 DEF GivenInv
  <2>3. ASSUME NEW c \in Conns, PushToRecipient(c), k = task[c].key PROVE k \in Stored
    <3>1. task[c].id \in Ids /\ rows[task[c].id].key = task[c].key
      BY <2>3 DEF PushToRecipient, TypeOK, Working, Request, KeysInv, AckNamesTheMessage
    <3> QED
      BY <2>3, <3>1 DEF Stored
  <2>4. ASSUME NEW c \in Conns, SyncPush(c), k \in Batch(c) PROVE k \in Stored
    BY <2>4 DEF SyncPush, GivenInv
  <2>5. PushSource(k) => k \in Stored
    BY <2>3, <2>4 DEF PushSource
  <2>6. (\E m \in DOMAIN chan[d] : chan'[d][n] = chan[d][m]) \/ PushSource(k)
    <3>1. \/ \E m \in DOMAIN chan[d] : chan'[d][n] = chan[d][m]
          \/ chan'[d][n].cmd \in {"error", "delivery_update"}
          \/ chan'[d][n].cmd = "private_push" /\ PushSource(chan'[d][n].key)
          \/ /\ AckSender(d)
             /\ chan'[d][n] = [cmd |-> "private_chat_ack", key |-> task[d].key, id |-> task[d].id]
      BY <2>1, NewFrames
    <3> QED
      BY <2>1, <3>1
  <2> QED
    BY <1>1, <2>1, <2>2, <2>5, <2>6
<1>4. ASSUME NEW d \in Conns, sync'[d].pc = "push" PROVE Batch(d)' \subseteq Stored'
  <2>1. CASE sync'[d] = sync[d]
    <3>1. Batch(d)' = Batch(d)
      BY <2>1 DEF Batch
    <3> QED
      BY <1>1, <1>4, <2>1, <3>1 DEF GivenInv
  <2>2. CASE SyncSelect(d)
    <3>1. PICK ids \in Ordered(Unseen), room \in Room(Unseen) :
             sync' = [sync EXCEPT ![d] = [pc |-> "push",
                        batch |-> [n \in {m \in DOMAIN ids : m <= room} |-> rows[ids[n]].key]]]
      BY <2>2 DEF SyncSelect
    <3>2. sync'[d].batch = [n \in {m \in DOMAIN ids : m <= room} |-> rows[ids[n]].key]
      BY <3>1 DEF TypeOK
    <3>3. \A n \in DOMAIN ids : ids[n] \in Ids
      BY DEF Ordered, Unseen
    <3>4. ASSUME NEW k \in Batch(d)' PROVE k \in Stored
      <4>1. PICK n \in {m \in DOMAIN ids : m <= room} : k = rows[ids[n]].key
        BY <3>2, <3>4 DEF Batch
      <4> QED
        BY <3>3, <4>1 DEF Stored
    <3> QED
      BY <1>1, <3>4
  <2>3. sync'[d] = sync[d] \/ SyncSelect(d) \/ sync'[d].pc # "push"
    <3>1. ASSUME NEW c \in Conns, SyncStep(c) \/ Connect(c) PROVE c = d \/ sync'[d] = sync[d]
      BY <3>1 DEF SyncStep, SyncSelect, SyncFails, SyncPush, Connect, TypeOK
    <3>2. Connect(d) \/ SyncFails(d) \/ SyncPush(d) \/ Crash => sync'[d].pc # "push"
      BY DEF Connect, SyncFails, SyncPush, Crash, Idle, TypeOK
    <3>3. UNCHANGED sync \/ Crash \/ \E c \in Conns : SyncStep(c) \/ Connect(c)
      BY DEF Next, vars, Disconnect, TaskStep, TakeFrame, PersistInsert, PersistLookup,
             PersistFails, PushToRecipient, AckSender, MarkSeen, MarkSeenFails, ReportSeen,
             OpenChat, CloseChat, HistStep, HistUpdate, HistSelect, HistAborts, HistRespond,
             SenderHistSelect, SenderHistStep, SenderHistAborts, SenderHistRespond,
             SendMessage, ClientRead, HandlePush, HandleAck, HandleDeliveryUpdate,
             IgnoreError, Took
    <3> QED
      BY <3>1, <3>2, <3>3 DEF SyncStep
  <2> QED
    BY <1>4, <2>1, <2>2, <2>3
<1>5. hist'.pc = "respond" => hist'.keys \subseteq Stored'
  <2>1. CASE HistSelect
    BY <1>1, <2>1 DEF HistSelect, Stored
  <2>2. Crash \/ OpenChat \/ HistUpdate \/ HistAborts \/ HistRespond => hist'.pc # "respond"
    BY DEF Crash, OpenChat, HistUpdate, HistAborts, HistRespond, Idle
  <2>3. UNCHANGED hist \/ HistSelect \/ hist'.pc # "respond"
    BY <2>2
    DEF Next, vars, Connect, Disconnect, TaskStep, TakeFrame, PersistInsert,
        PersistLookup, PersistFails, PushToRecipient, AckSender, MarkSeen, MarkSeenFails,
        ReportSeen, SyncStep, SyncSelect, SyncFails, SyncPush, CloseChat, HistStep,
        SenderHistSelect, SenderHistStep, SenderHistAborts, SenderHistRespond,
        SendMessage, ClientRead, HandlePush, HandleAck, HandleDeliveryUpdate,
        IgnoreError, Took
  <2> QED
    BY <1>1, <2>1, <2>3 DEF GivenInv
<1> QED
  BY <1>2, <1>3, <1>4, <1>5 DEF GivenInv

LEMMA KnownStep == TypeOK /\ KnownInv /\ [Next]_vars => KnownInv'
<1> SUFFICES ASSUME TypeOK, KnownInv, [Next]_vars PROVE KnownInv'
  OBVIOUS
<1> USE DEF page, hists, reload
<1>1. CASE UNCHANGED <<saved, known, shist>>
  BY <1>1 DEF KnownInv
<1>2. CASE SenderHistSelect \/ SenderHistRespond \/ SenderHistAborts \/ Crash
  BY <1>2 DEF SenderHistSelect, SenderHistRespond, SenderHistAborts, Crash, Idle, KnownInv
<1>3. ASSUME NEW c \in Conns, HandleAck(c) \/ HandleDeliveryUpdate(c) PROVE KnownInv'
  BY <1>3 DEF HandleAck, HandleDeliveryUpdate, Took, KnownInv
<1>4. \/ UNCHANGED <<saved, known, shist>>
      \/ SenderHistSelect \/ SenderHistRespond \/ SenderHistAborts \/ Crash
      \/ \E c \in Conns : HandleAck(c) \/ HandleDeliveryUpdate(c)
  BY DEF Next, vars, Connect, Disconnect, TaskStep, TakeFrame, PersistInsert,
         PersistLookup, PersistFails, PushToRecipient, AckSender, MarkSeen, MarkSeenFails,
         ReportSeen, SyncStep, SyncSelect, SyncFails, SyncPush, OpenChat, CloseChat, HistStep,
         HistUpdate, HistSelect, HistAborts, HistRespond, SenderHistStep, SendMessage,
         ClientRead, HandlePush, IgnoreError, Took
<1> QED
  BY <1>1, <1>2, <1>3, <1>4

\* The steps that show: all the others stutter.
LEMMA ConversationStep ==
    ASSUME TypeOK, ReportInv, ReloadInv, GivenInv, KnownInv, [Next]_vars
    PROVE  [Chat!Next]_(Chat!cvars)
<1> USE DEF page, hists, reload
<1>0. Chat!Ids = Ids /\ Chat!Stored = Stored /\ Chat!Seen = {i \in Ids : rows[i].seen}
  BY DEF Chat!Ids, Chat!Stored, Chat!Seen, Ids, Stored
<1>a. Ids \subseteq Nat
  BY RowsTyped
<1>1. ASSUME NEW c \in Conns, PersistInsert(c) PROVE [Chat!Next]_(Chat!cvars)
  <2>1. CASE UNCHANGED rows
    BY <1>1, <2>1 DEF PersistInsert, Chat!cvars
  <2>2. CASE ~UNCHANGED rows
    <3>1. task[c].key \in Msgs
      BY <1>1 DEF PersistInsert, TypeOK, Working, Request
    <3>2. Chat!Store(task[c].key)
      BY <1>0, <1>1, <2>2 DEF PersistInsert, RowsOf, Stored, Chat!Store
    <3> QED
      BY <3>1, <3>2 DEF Chat!Next
  <2> QED
    BY <2>1, <2>2
<1>2. ASSUME rows' = SeenAll(Unseen), UNCHANGED <<recv, known, told, read>>
      PROVE  Chat!SeeAll
  <2>1. \A i \in Ids : rows[i] \in [key : Msgs, seen : BOOLEAN]
    <3>1. rows \in [1..Len(rows) -> [key : Msgs, seen : BOOLEAN]] /\ Ids = 1..Len(rows)
      BY LenProperties DEF TypeOK, Ids
    <3> QED
      BY <3>1
  <2>2. \A i \in Ids : (rows[i].seen \/ i \in Unseen) = TRUE
    BY <2>1 DEF Unseen
  <2>3. \A i \in Ids : [rows[i] EXCEPT !.seen = rows[i].seen \/ i \in Unseen]
                         = [rows[i] EXCEPT !.seen = TRUE]
    BY <2>2
  <2> QED
    BY <1>0, <1>2, <2>3 DEF SeenAll, Chat!SeeAll
<1>3. ASSUME (\E c \in Conns : MarkSeen(c)) \/ HistUpdate PROVE [Chat!Next]_(Chat!cvars)
  BY <1>2, <1>3 DEF MarkSeen, HistUpdate, Chat!Next, Chat!cvars
<1>4. ASSUME NEW K \in SUBSET Stored, recv' = recv \cup K, UNCHANGED <<rows, known, told, read>>
      PROVE  [Chat!Next]_(Chat!cvars)
  BY <1>0, <1>4 DEF Chat!Receive, Chat!Next
<1>5. ASSUME NEW c \in Conns, HandlePush(c) PROVE [Chat!Next]_(Chat!cvars)
  <2>1. Head(chan[c]) = chan[c][1] /\ 1 \in DOMAIN chan[c] /\ chan[c][1].cmd = "private_push"
    BY <1>5, TookFrames DEF HandlePush
  <2>2. {Head(chan[c]).key} \in SUBSET Stored
    BY <2>1 DEF PushedTo, Frames, GivenInv
  <2> QED
    BY <1>4, <1>5, <2>2 DEF HandlePush, Took
<1>6. CASE HistRespond
  BY <1>4, <1>6 DEF HistRespond, GivenInv
<1>7. ASSUME NEW c \in Conns, HandleAck(c) PROVE [Chat!Next]_(Chat!cvars)
  <2>1. Head(chan[c]) \in Frame /\ Head(chan[c]).cmd = "private_chat_ack"
    BY <1>7, TookFrames DEF HandleAck
  <2>2. Head(chan[c]).id \in Ids
    BY <2>1 DEF Frame
  <2>3. Chat!Learn({Head(chan[c]).id}, {})
    BY <1>7 DEF HandleAck, Took, Chat!Learn
  <2> QED
    BY <1>0, <2>2, <2>3 DEF Chat!Next
<1>8. CASE SenderHistRespond
  <2> DEFINE T == (saved \cap shist.ids) \cup shist.seen
  <2>1. Chat!Learn(shist.ids, T)
    BY <1>8 DEF SenderHistRespond, ReloadInv, Chat!Learn
  <2>2. shist.ids \subseteq Ids /\ saved \subseteq told
    BY <1>8 DEF SenderHistRespond, TypeOK, Reloading
  <2>3. \A i \in T : i \in Ids /\ rows[i].seen
    BY <1>a, <1>8, <2>2 DEF SenderHistRespond, KnownInv, ReportInv, Honest, Marked
  <2>4. T \subseteq Chat!Seen \cap (known \cup shist.ids)
    BY <1>0, <1>8, <2>3 DEF SenderHistRespond, KnownInv
  <2> QED
    BY <1>0, <2>1, <2>2, <2>4 DEF Chat!Next
<1>9. ASSUME NEW c \in Conns, HandleDeliveryUpdate(c) PROVE [Chat!Next]_(Chat!cvars)
  <2> DEFINE S == Head(chan[c]).ids
  <2>1. /\ Head(chan[c]) = chan[c][1] /\ 1 \in DOMAIN chan[c] /\ Head(chan[c]) \in Frame
        /\ Head(chan[c]).cmd = "delivery_update"
    BY <1>9, TookFrames DEF HandleDeliveryUpdate
  <2>2. S \subseteq Ids
    BY <2>1 DEF Frame
  <2>3. \A i \in S : InFrame(c, 1, i)
    BY <2>1 DEF InFrame
  <2>4. \A i \in S : rows[i].seen /\ i \notin told
    BY <1>a, <2>2, <2>3 DEF ReportInv, Honest, Once, Marked
  <2>5. Chat!Tell(S)
    BY <1>9 DEF HandleDeliveryUpdate, Took, Chat!Tell
  <2> QED
    BY <1>0, <2>2, <2>4, <2>5 DEF Chat!Next
<1>10. \/ UNCHANGED <<rows, recv, known, told, read>>
       \/ \E c \in Conns : \/ PersistInsert(c) \/ MarkSeen(c) \/ HandlePush(c) \/ HandleAck(c)
                           \/ HandleDeliveryUpdate(c)
       \/ HistUpdate \/ HistRespond \/ SenderHistRespond
  BY DEF Next, vars, Connect, Disconnect, Crash, TaskStep, TakeFrame, PersistLookup,
         PersistFails, PushToRecipient, AckSender, MarkSeenFails, ReportSeen, SyncStep,
         SyncSelect, SyncFails, SyncPush, OpenChat, CloseChat, HistStep, HistSelect, HistAborts,
         SenderHistSelect, SenderHistStep, SenderHistAborts, SendMessage, ClientRead,
         IgnoreError, Took
<1> QED
  BY <1>1, <1>3, <1>5, <1>6, <1>7, <1>8, <1>9, <1>10 DEF Chat!cvars

\* The tasks, connections and requests of the server implement the one-step operations
\* of Conversation (ImplementsConversation), for any number of messages, connections,
\* resends, restarts and failures.
THEOREM ConversationImplemented == Spec => ImplementsConversation
<1>1. Init => Chat!Init /\ ReloadInv /\ GivenInv /\ KnownInv
  BY DEF Init, Chat!Init, Idle, ReloadInv, GivenInv, KnownInv, PushedTo, Frames
<1>2. TypeOK /\ ReportInv /\ ReloadInv /\ GivenInv /\ KnownInv /\ [Next]_vars
         => [Chat!Next]_(Chat!cvars)
  BY ConversationStep
<1> QED
  BY <1>1, <1>2, ReloadStep, GivenStep, KnownStep, KeysAlways, ReportsAlways, PTL
     DEF Spec, ImplementsConversation, Chat!Spec
=============================================================================
