------------------------- MODULE GroupReadRefinement -------------------------
(* While a viewer has one call at a time, rows commit in the order of their *)
(* ids and statements succeed, mark_group_read_and_get_delta implements the *)
(* atomic step of ReadReceipts, for any number of users and messages.       *)
EXTENDS GroupReadProofs

\* The case the refinement is about.
Serial(slot) == Slots = {slot} /\ OutOfOrder = FALSE /\ Faults = FALSE

\* At most the last id drawn awaits its commit.
InOrder == posted = 1..drawn \/ (drawn > 0 /\ posted = 1..(drawn - 1))

\* What a viewer's call knows: the old cursor is still the viewer's cursor when
\* it is upserted, and the new cursor is the greater of old and latest.
CallKnows(slot) ==
    \A v \in Users :
        LET c == call[v][slot]
        IN  /\ c.pc = "upsert" => c.old = cursor[v]
            /\ c.pc = "increment" =>
                 cursor[v] = IF c.old < c.latest THEN c.latest ELSE c.old

SerialInv(slot) == InOrder /\ CallKnows(slot)

LEMMA SerialInit == ASSUME NEW slot, Serial(slot), Init PROVE SerialInv(slot)
BY DEF Serial, Init, SerialInv, InOrder, CallKnows, Idle

\* Ids are drawn one at a time.
LEMMA OrderStep ==
    ASSUME NEW slot, Serial(slot), TypeOK, InOrder, [Next]_vars
    PROVE  InOrder'
<1>1. drawn \in Nat
  BY GroupReadAssumption DEF TypeOK
<1>2. ASSUME NEW u \in Users, DrawId(u) PROVE InOrder'
  <2>1. posted = 1..drawn /\ posted' = posted /\ drawn' = drawn + 1
    BY <1>2 DEF DrawId, Serial
  <2>2. drawn' > 0 /\ drawn' - 1 = drawn
    BY <1>1, <2>1
  <2> QED
    BY <2>1, <2>2 DEF InOrder
<1>3. ASSUME NEW i \in Ids, CommitInsert(i) PROVE InOrder'
  <2>1. i \in 1..drawn /\ i \notin posted /\ posted' = posted \cup {i} /\ drawn' = drawn
    BY <1>3 DEF CommitInsert
  <2>2. posted = 1..(drawn - 1) /\ i = drawn
    BY <1>1, <2>1 DEF InOrder
  <2>3. posted' = 1..drawn
    BY <1>1, <2>1, <2>2
  <2> QED
    BY <2>1, <2>3 DEF InOrder
<1>4. CASE UNCHANGED <<drawn, posted>>
  BY <1>4 DEF InOrder
<1>5. ASSUME NEW u \in Users, CheckMember(u) \/ LeaveGroup(u) \/ JoinGroup(u)
      PROVE  UNCHANGED <<drawn, posted>>
  BY <1>5 DEF CheckMember, LeaveGroup, JoinGroup, rows
<1>6. ASSUME NEW v \in Users, NEW s \in Slots, CallStep(v, s)
      PROVE  UNCHANGED <<drawn, posted>>
  BY <1>6 DEF CallStep, SelectLatest, SelectCursor, UpsertCursor, IncrementDelta, Increment,
         SelectDelta, PushDelta, CallFails, rows
<1>7. UNCHANGED vars => UNCHANGED <<drawn, posted>>
  BY DEF vars, rows
<1> QED
  BY <1>2, <1>3, <1>4, <1>5, <1>6, <1>7 DEF Next

\* A viewer has one call, so that nobody moves the cursor between its statements.
LEMMA KnowsStep ==
    ASSUME NEW slot, Serial(slot), TypeOK, CallKnows(slot), [Next]_vars
    PROVE  CallKnows(slot)'
<1>1. CASE UNCHANGED <<cursor, call>>
  BY <1>1 DEF CallKnows
<1>2. ASSUME NEW v \in Users, NEW s \in Slots, CallStep(v, s) PROVE CallKnows(slot)'
  <2> DEFINE c == call[v][slot]
  <2>1. s = slot
    BY DEF Serial
  <2>2. PICK d : Goto(v, slot, d)
    BY <1>2, <2>1 DEF CallStep, SelectLatest, SelectCursor, UpsertCursor, IncrementDelta,
           Increment, SelectDelta, PushDelta, CallFails
  <2>3. \A w \in Users : call'[w][slot] = IF w = v THEN d ELSE call[w][slot]
    BY <2>1, <2>2 DEF Goto, TypeOK
  <2>4. \A w \in Users : w # v => cursor'[w] = cursor[w]
    BY <1>2 DEF CallStep, SelectLatest, SelectCursor, UpsertCursor, IncrementDelta,
           Increment, SelectDelta, PushDelta, CallFails, TypeOK
  <2>5. SUFFICES /\ d.pc = "upsert" => d.old = cursor'[v]
                 /\ d.pc = "increment" =>
                      cursor'[v] = IF d.old < d.latest THEN d.latest ELSE d.old
    BY <2>3, <2>4, <2>5 DEF CallKnows
  <2>6. call'[v][slot] = d
    BY <2>3
  <2>7. CASE SelectCursor(v, s)
    <3>1. d = [pc |-> "upsert", latest |-> c.latest, old |-> cursor[v]]
      BY <2>1, <2>6, <2>7 DEF SelectCursor, Goto, TypeOK
    <3> QED
      BY <2>7, <3>1 DEF SelectCursor
  <2>8. CASE UpsertCursor(v, s)
    <3>1. c \in [pc : {"upsert", "increment", "delta"}, latest : posted, old : {0} \cup posted]
      BY <2>1, <2>8, CallShape DEF UpsertCursor
    <3>2. d = [c EXCEPT !.pc = "increment"]
      BY <2>1, <2>6, <2>8 DEF UpsertCursor, Goto, TypeOK
    <3>3. d.pc = "increment" /\ d.old = c.old /\ d.latest = c.latest
      BY <3>1, <3>2
    <3>4. c.old = cursor[v]
      BY <2>1, <2>8 DEF UpsertCursor, CallKnows
    <3>5. cursor'[v] = IF cursor[v] < c.latest THEN c.latest ELSE cursor[v]
      BY <2>1, <2>8 DEF UpsertCursor, TypeOK
    <3> QED
      BY <3>3, <3>4, <3>5
  <2>9. CASE d.pc \notin {"upsert", "increment"}
    BY <2>9
  <2>10. CASE SelectLatest(v, s)
    <3>1. d = [pc |-> "cursor", latest |-> Latest]
      BY <2>1, <2>6, <2>10 DEF SelectLatest, Goto, TypeOK
    <3> QED
      BY <2>9, <3>1
  <2>11. CASE IncrementDelta(v, s)
    <3>1. c \in [pc : {"upsert", "increment", "delta"}, latest : posted, old : {0} \cup posted]
      BY <2>1, <2>11, CallShape DEF IncrementDelta
    <3>2. d = Idle \/ d = [c EXCEPT !.pc = "delta"]
      BY <2>1, <2>6, <2>11 DEF IncrementDelta, Increment, Goto, TypeOK
    <3> QED
      BY <2>9, <3>1, <3>2 DEF Idle
  <2>12. CASE SelectDelta(v, s)
    <3>1. d.pc = "push"
      BY <2>1, <2>6, <2>12 DEF SelectDelta, Goto, TypeOK
    <3> QED
      BY <2>9, <3>1
  <2>13. CASE PushDelta(v, s) \/ CallFails(v, s)
    <3>1. d = Idle
      BY <2>1, <2>6, <2>13 DEF PushDelta, CallFails, Goto, TypeOK
    <3> QED
      BY <2>9, <3>1 DEF Idle
  <2> QED
    BY <1>2, <2>7, <2>8, <2>10, <2>11, <2>12, <2>13 DEF CallStep
<1>3. ASSUME NEW u \in Users, CheckMember(u) \/ DrawId(u) \/ LeaveGroup(u) \/ JoinGroup(u)
      PROVE  UNCHANGED <<cursor, call>>
  BY <1>3 DEF CheckMember, DrawId, LeaveGroup, JoinGroup
<1>4. ASSUME NEW i \in Ids, CommitInsert(i) PROVE UNCHANGED <<cursor, call>>
  BY <1>4 DEF CommitInsert
<1>5. UNCHANGED vars => UNCHANGED <<cursor, call>>
  BY DEF vars
<1> QED
  BY <1>1, <1>2, <1>3, <1>4, <1>5 DEF Next

-----------------------------------------------------------------------------
\* The abstract author and position, as functions.
Author == [i \in Ids |-> IF i \in posted THEN author[i] ELSE NoUser]
UpTo == [v \in Users |-> Counted(v)]

LEMMA CountedIs ==
    ASSUME NEW slot, Serial(slot), NEW v \in Users
    PROVE  Counted(v) = IF call[v][slot].pc = "increment" THEN call[v][slot].old ELSE cursor[v]
BY DEF Serial, Counted

LEMMA InitMaps == ASSUME NEW slot, Serial(slot), Init PROVE Receipts!Init
<1>1. Author = [i \in Ids |-> NoUser]
  BY DEF Init, Author
<1>2. UpTo = [v \in Users |-> 0]
  <2>1. \A v \in Users : Counted(v) = 0
    BY CountedIs DEF Init, Serial, Idle
  <2> QED
    BY <2>1 DEF UpTo
<1> QED
  BY <1>1, <1>2 DEF Init, Receipts!Init, Receipts!Ids, Ids, Author, UpTo

\* A committed row is the message posted.
LEMMA CommitMaps ==
    ASSUME NEW slot, Serial(slot), TypeOK, InOrder, NEW i \in Ids, CommitInsert(i)
    PROVE  Receipts!Next
<1>1. drawn \in Nat /\ i \in 1..drawn /\ i \notin posted
  BY GroupReadAssumption DEF TypeOK, CommitInsert
<1>2. \A j \in posted : j < i
  BY <1>1 DEF InOrder
<1>3. author[i] \in Users
  BY <1>1 DEF TypeOK
<1>4. Author' = [Author EXCEPT ![i] = author[i]]
  BY DEF Author, CommitInsert
<1>5. UpTo' = UpTo
  BY DEF UpTo, Counted, CommitInsert
<1>6. Receipts!Post(author[i], i)
  BY <1>2, <1>4, <1>5 DEF Receipts!Post, CommitInsert, Author, UpTo
<1> QED
  BY <1>3, <1>6 DEF Receipts!Next, Receipts!Ids, Ids

\* The increment is where the reader moves.
LEMMA IncrementMaps ==
    ASSUME NEW slot, Serial(slot), TypeOK, CallKnows(slot), NEW v \in Users,
           IncrementDelta(v, slot)
    PROVE  Receipts!Next \/ UNCHANGED Receipts!rvars
<1> DEFINE c == call[v][slot]
           ids == Others(v, c.old, c.latest)
<1>1. c \in [pc : {"upsert", "increment", "delta"}, latest : posted, old : {0} \cup posted]
  BY CallShape DEF IncrementDelta, Serial
<1>2. posted \subseteq Ids /\ Ids \subseteq Nat
  BY GroupReadAssumption DEF TypeOK, Ids
<1>3. c.latest \in posted /\ c.latest \in Nat /\ c.old \in Nat
  <2>1. c.latest \in posted /\ c.old \in {0} \cup posted
    BY <1>1
  <2>2. {0} \cup posted \subseteq Nat
    BY <1>2
  <2> QED
    BY <2>1, <2>2
<1>4. /\ c.pc = "increment"
      /\ cursor[v] = IF c.old < c.latest THEN c.latest ELSE c.old
  BY DEF IncrementDelta, CallKnows
<1>5. UNCHANGED <<posted, author, cursor>>
  BY DEF IncrementDelta, Increment
<1>6. \A w \in Users : UpTo[w] = Counted(w) /\ UpTo'[w] = Counted(w)'
  BY DEF UpTo
<1>7. UpTo[v] = c.old
  BY <1>4, <1>6, CountedIs
<1>8. call'[v][slot].pc # "increment"
  <2>1. call'[v][slot] = IF ids = {} THEN Idle ELSE [c EXCEPT !.pc = "delta"]
    BY DEF IncrementDelta, Increment, Goto, TypeOK, Serial
  <2>2. [c EXCEPT !.pc = "delta"].pc = "delta"
    BY <1>1
  <2> QED
    BY <2>1, <2>2 DEF Idle
<1>9. UpTo'[v] = cursor[v]
  <2>1. Counted(v)' = IF call'[v][slot].pc = "increment" THEN call'[v][slot].old ELSE cursor'[v]
    BY DEF Serial, Counted
  <2> QED
    BY <1>5, <1>6, <1>8, <2>1
<1>10. \A w \in Users : w # v => UpTo'[w] = UpTo[w]
  <2>1. ASSUME NEW w \in Users, w # v PROVE Counted(w)' = Counted(w)
    <3>1. call'[w] = call[w]
      BY <2>1 DEF IncrementDelta, Increment, Goto, TypeOK
    <3> QED
      BY <3>1, <1>5 DEF Counted
  <2> QED
    BY <1>6, <2>1
<1>11. Author' = Author
  BY <1>5 DEF Author
<1>12. read_count' = [i \in Ids |-> IF i \in ids THEN read_count[i] + 1 ELSE read_count[i]]
  BY DEF IncrementDelta, Increment
<1>13. CASE c.old < c.latest
  <2>1. UpTo' = [UpTo EXCEPT ![v] = c.latest]
    BY <1>4, <1>9, <1>10, <1>13 DEF UpTo
  <2>2. ids = {i \in posted : UpTo[v] < i /\ i <= c.latest /\ Author[i] # v}
    BY <1>2, <1>7 DEF Others, Author
  <2>3. Receipts!Passed(v, c.latest) = ids
    BY <2>2 DEF Receipts!Passed, Author, UpTo
  <2>4. Receipts!ReadTo(v, c.latest)
    BY <1>3, <1>5, <1>7, <1>11, <1>12, <1>13, <2>1, <2>3
       DEF Receipts!ReadTo, Receipts!Ids, Ids, Author, UpTo
  <2> QED
    BY <1>2, <1>3, <2>4 DEF Receipts!Next, Receipts!Ids, Ids
<1>14. CASE ~(c.old < c.latest)
  <2>1. ids = {}
    <3>1. ASSUME NEW i \in posted PROVE ~(c.old < i /\ i <= c.latest)
      <4>1. i \in Nat
        BY <1>2
      <4> QED
        BY <1>3, <1>14, <4>1
    <3> QED
      BY <3>1 DEF Others
  <2>2. read_count' = read_count
    BY <1>12, <2>1 DEF TypeOK
  <2>3. UpTo' = UpTo
    BY <1>4, <1>7, <1>9, <1>10, <1>14 DEF UpTo
  <2> QED
    BY <1>5, <1>11, <2>2, <2>3 DEF Receipts!rvars, Author, UpTo
<1> QED
  BY <1>13, <1>14

\* Every other step of a call changes nothing a reader of the counts can see.
LEMMA OtherStepsStutter ==
    ASSUME NEW slot, Serial(slot), TypeOK, CallKnows(slot), NEW v \in Users,
           CallStep(v, slot), ~IncrementDelta(v, slot)
    PROVE  UNCHANGED Receipts!rvars
<1> DEFINE c == call[v][slot]
           Pos(w) == IF call[w][slot].pc = "increment" THEN call[w][slot].old ELSE cursor[w]
<1>1. UNCHANGED <<posted, author, read_count>>
  BY DEF CallStep, SelectLatest, SelectCursor, UpsertCursor, SelectDelta, PushDelta,
         CallFails, rows
<1>2. PICK d : Goto(v, slot, d)
  BY DEF CallStep, SelectLatest, SelectCursor, UpsertCursor, SelectDelta, PushDelta, CallFails
<1>3. \A w \in Users : call'[w][slot] = IF w = v THEN d ELSE call[w][slot]
  BY <1>2 DEF Goto, TypeOK, Serial
<1>9. call'[v][slot] = d
  BY <1>3
<1>4. \A w \in Users : w # v => cursor'[w] = cursor[w]
  BY DEF CallStep, SelectLatest, SelectCursor, UpsertCursor, SelectDelta, PushDelta,
         CallFails, TypeOK
<1>5. (IF d.pc = "increment" THEN d.old ELSE cursor'[v]) = Pos(v)
  <2>1. CASE UpsertCursor(v, slot)
    <3>1. c \in [pc : {"upsert", "increment", "delta"}, latest : posted, old : {0} \cup posted]
      BY <2>1, CallShape DEF UpsertCursor, Serial
    <3>2. d = [c EXCEPT !.pc = "increment"]
      BY <1>9, <2>1 DEF UpsertCursor, Goto, TypeOK, Serial
    <3>3. d.pc = "increment" /\ d.old = c.old
      BY <3>1, <3>2
    <3> QED
      BY <2>1, <3>3 DEF UpsertCursor, CallKnows
  <2>2. CASE SelectLatest(v, slot)
    <3>1. d.pc = "cursor"
      BY <1>9, <2>2 DEF SelectLatest, Goto, TypeOK, Serial
    <3> QED
      BY <2>2, <3>1 DEF SelectLatest, Idle
  <2>3. CASE SelectCursor(v, slot)
    <3>1. d.pc = "upsert"
      BY <1>9, <2>3 DEF SelectCursor, Goto, TypeOK, Serial
    <3> QED
      BY <2>3, <3>1 DEF SelectCursor
  <2>4. CASE SelectDelta(v, slot)
    <3>1. d.pc = "push"
      BY <1>9, <2>4 DEF SelectDelta, Goto, TypeOK, Serial
    <3> QED
      BY <2>4, <3>1 DEF SelectDelta
  <2>5. CASE PushDelta(v, slot)
    <3>1. d = Idle
      BY <1>9, <2>5 DEF PushDelta, Goto, TypeOK, Serial
    <3> QED
      BY <2>5, <3>1 DEF PushDelta, Idle
  <2> QED
    BY <2>1, <2>2, <2>3, <2>4, <2>5 DEF CallStep, CallFails, Serial
<1>6. \A w \in Users : Counted(w) = Pos(w) /\ Counted(w)' = Pos(w)'
  BY DEF Serial, Counted
<1>7. \A w \in Users : Counted(w)' = Counted(w)
  BY <1>3, <1>4, <1>5, <1>6
<1>8. UpTo' = UpTo /\ Author' = Author
  BY <1>1, <1>7 DEF UpTo, Author
<1> QED
  BY <1>1, <1>8 DEF Receipts!rvars, UpTo, Author

LEMMA StepMaps ==
    ASSUME NEW slot, Serial(slot), TypeOK, SerialInv(slot), [Next]_vars
    PROVE  [Receipts!Next]_(Receipts!rvars)
<1> USE DEF SerialInv
<1>1. CASE UNCHANGED <<posted, author, read_count, cursor, call>>
  BY <1>1 DEF Receipts!rvars, Counted
<1>2. ASSUME NEW u \in Users, DrawId(u) PROVE UNCHANGED Receipts!rvars
  <2>1. drawn + 1 \notin posted /\ author' = [author EXCEPT ![drawn + 1] = u]
    BY <1>2, GroupReadAssumption DEF DrawId, TypeOK
  <2>2. UNCHANGED <<posted, read_count, cursor, call>>
    BY <1>2 DEF DrawId
  <2>3. Author' = Author
    BY <2>1, <2>2 DEF Author, TypeOK
  <2>4. UpTo' = UpTo
    BY <2>2 DEF UpTo, Counted
  <2> QED
    BY <2>2, <2>3, <2>4 DEF Receipts!rvars, Author, UpTo
<1>3. ASSUME NEW i \in Ids, CommitInsert(i) PROVE Receipts!Next
  BY <1>3, CommitMaps
<1>4. ASSUME NEW v \in Users, NEW s \in Slots, CallStep(v, s)
      PROVE  Receipts!Next \/ UNCHANGED Receipts!rvars
  <2>1. s = slot
    BY DEF Serial
  <2> QED
    BY <1>4, <2>1, IncrementMaps, OtherStepsStutter
<1>5. ASSUME NEW u \in Users, CheckMember(u) \/ LeaveGroup(u) \/ JoinGroup(u)
      PROVE  UNCHANGED <<posted, author, read_count, cursor, call>>
  BY <1>5 DEF CheckMember, LeaveGroup, JoinGroup, rows
<1>6. UNCHANGED vars => UNCHANGED <<posted, author, read_count, cursor, call>>
  BY DEF vars, rows
<1> QED
  BY <1>1, <1>2, <1>3, <1>4, <1>5, <1>6 DEF Next

\* The five statements of mark_group_read_and_get_delta implement one atomic
\* step of ReadReceipts, while the calls of a viewer do not overlap.
THEOREM SerialCallsImplementReceipts ==
    ASSUME NEW slot, Serial(slot)
    PROVE  Spec => ImplementsReceipts
<1>1. Init => SerialInv(slot) /\ Receipts!Init
  BY SerialInit, InitMaps
<1>2. TypeOK /\ SerialInv(slot) /\ [Next]_vars => SerialInv(slot)'
  BY OrderStep, KnowsStep DEF SerialInv
<1>3. TypeOK /\ SerialInv(slot) /\ [Next]_vars => [Receipts!Next]_(Receipts!rvars)
  BY StepMaps
<1> QED
  BY <1>1, <1>2, <1>3, TypeCorrect, PTL DEF Spec, ImplementsReceipts, Receipts!Spec

\* Receipts again, with the theorem about it.
Abstract == INSTANCE ReadReceiptsProofs WITH
    author <- [i \in Ids |-> IF i \in posted THEN author[i] ELSE NoUser],
    upTo <- [v \in Users |-> Counted(v)]

\* ... and so the counts are exact.
THEOREM SerialCountsAreExact ==
    ASSUME NEW slot, Serial(slot)
    PROVE  Spec => []CountExact
<1>1. Abstract!Parameters
  BY GroupReadAssumption DEF Abstract!Parameters, Abstract!IsFiniteSet, IsFiniteSet
<1>2. Abstract!Spec => []Abstract!CountIsReaders
  BY <1>1, Abstract!CountsAreExact
<1>3. Receipts!Init => Abstract!Init
  BY DEF Receipts!Init, Abstract!Init, Receipts!Ids, Abstract!Ids
<1>4. [Receipts!Next]_(Receipts!rvars) => [Abstract!Next]_(Abstract!rvars)
  <2>1. ASSUME NEW u \in Users, NEW i \in Ids, Receipts!Post(u, i) PROVE Abstract!Post(u, i)
    BY <2>1 DEF Receipts!Post, Abstract!Post
  <2>2. ASSUME NEW v \in Users, NEW n \in Ids, Receipts!ReadTo(v, n) PROVE Abstract!ReadTo(v, n)
    BY <2>2 DEF Receipts!ReadTo, Abstract!ReadTo, Receipts!Passed, Abstract!Passed,
                Receipts!Ids, Abstract!Ids
  <2>3. UNCHANGED Receipts!rvars => UNCHANGED Abstract!rvars
    BY DEF Receipts!rvars, Abstract!rvars
  <2> QED
    BY <2>1, <2>2, <2>3 DEF Receipts!Next, Abstract!Next, Receipts!Ids, Abstract!Ids, Ids
<1>5. Abstract!CountIsReaders => CountExact
  BY DEF CountExact, Receipts!CountIsReaders, Abstract!CountIsReaders,
         Receipts!Readers, Abstract!Readers, Receipts!Cardinality, Abstract!Cardinality
<1> QED
  BY <1>2, <1>3, <1>4, <1>5, SerialCallsImplementReceipts, PTL
     DEF ImplementsReceipts, Receipts!Spec, Abstract!Spec

-----------------------------------------------------------------------------
(* What the authors' pages show                                            *)

\* Counts that were selected, and not yet pushed, and those shown.
ShownInv ==
    /\ \A i \in Ids \ posted : shown[i].read = 0
    /\ \A i \in posted : shown[i].read <= Cardinality(Readers(i))
    /\ \A v \in Users, s \in Slots : call[v][s].pc = "push" =>
         \A i \in DOMAIN call[v][s].counts :
            i \in posted /\ call[v][s].counts[i].read <= Cardinality(Readers(i))

\* Who has read a message has read it.
LEMMA ReadersGrow ==
    ASSUME TypeOK, PastInv, [Next]_vars, NEW i \in posted
    PROVE  /\ i \in posted' /\ Cardinality(Readers(i)) <= Cardinality(Readers(i)')
           /\ Cardinality(Readers(i)) \in Nat /\ Cardinality(Readers(i)') \in Nat
<1>1. posted \subseteq posted' /\ author'[i] = author[i]
      /\ \A v \in Users : cursor[v] <= cursor'[v] \/ cursor'[v] = cursor[v]
  <2>1. ASSUME NEW u \in Users, DrawId(u) PROVE UNCHANGED <<posted, cursor>> /\ author'[i] = author[i]
    <3>1. author' = [author EXCEPT ![drawn + 1] = u] /\ UNCHANGED <<posted, cursor>>
      BY <2>1 DEF DrawId
    <3>2. i # drawn + 1
      BY GroupReadAssumption DEF TypeOK
    <3> QED
      BY <3>1, <3>2 DEF TypeOK
  <2>2. ASSUME NEW j \in Ids, CommitInsert(j)
        PROVE  posted \subseteq posted' /\ UNCHANGED <<author, cursor>>
    BY <2>2 DEF CommitInsert
  <2>3. ASSUME NEW v \in Users, NEW s \in Slots, IncrementDelta(v, s)
        PROVE  UNCHANGED <<posted, author, cursor>>
    BY <2>3 DEF IncrementDelta, Increment
  <2> QED
    BY <2>1, <2>2, <2>3, Steps, QuietStep DEF rows
<1>2. \A v \in Users : cursor[v] \in Nat /\ cursor'[v] \in Nat /\ i \in Nat
  <2>1. TypeOK'
    BY TypeStep
  <2>2. posted' \subseteq Nat
    <3>1. drawn' \in Nat /\ posted' \subseteq 1..drawn'
      BY <2>1, GroupReadAssumption DEF TypeOK
    <3> QED
      BY <3>1
  <2> QED
    BY <2>1, <2>2, Numbers DEF TypeOK
<1>3. Readers(i) \subseteq Readers(i)'
  BY <1>1, <1>2 DEF Readers
<1>4. IsFiniteSet(Readers(i)')
  <2>1. Readers(i)' \in SUBSET Users
    BY DEF Readers
  <2> QED
    BY <2>1, GroupReadAssumption, FS_Subset
<1> QED
  BY <1>1, <1>3, <1>4, FS_Subset, FS_CardinalityType

\* What is selected is at most the number of readers there are.
LEMMA SelectedIsHonest ==
    ASSUME NEW slot, Serial(slot), TypeOK, PastInv, CountExact, NEW i \in posted
    PROVE  read_count[i] <= Cardinality(Readers(i))
<1> DEFINE R == {v \in Users : v # Author[i] /\ i <= UpTo[v]}
<1>1. read_count[i] = Cardinality(R)
  BY DEF CountExact, Receipts!CountIsReaders, Receipts!Readers, Receipts!Cardinality,
         Author, UpTo, Cardinality
<1>2. R \in SUBSET Readers(i)
  <2> SUFFICES ASSUME NEW v \in Users, v # Author[i], i <= UpTo[v]
               PROVE  v # author[i] /\ i <= cursor[v]
    BY DEF Readers
  <2>1. i \in Nat /\ i \in Ids /\ cursor[v] \in Nat
    BY Numbers
  <2>2. i <= IF call[v][slot].pc = "increment" THEN call[v][slot].old ELSE cursor[v]
    BY CountedIs DEF UpTo
  <2>3. call[v][slot].pc = "increment" =>
            call[v][slot].old <= cursor[v] /\ call[v][slot].old \in Nat
    BY Numbers DEF PastInv, Serial
  <2> QED
    BY <2>1, <2>2, <2>3 DEF Author
<1> QED
  BY <1>1, <1>2, SetsFinite, FS_Subset

LEMMA ShownStep ==
    ASSUME NEW slot, Serial(slot)
    PROVE  TypeOK /\ PastInv /\ CountExact /\ ShownInv /\ [Next]_vars => ShownInv'
<1> SUFFICES ASSUME TypeOK, PastInv, CountExact, ShownInv, [Next]_vars PROVE ShownInv'
  OBVIOUS
<1>0. \A i \in posted : /\ i \in posted' /\ Cardinality(Readers(i)) <= Cardinality(Readers(i)')
                       /\ Cardinality(Readers(i)) \in Nat /\ Cardinality(Readers(i)') \in Nat
  BY ReadersGrow
<1>1. \A i \in Ids : shown[i].read \in Nat
  BY DEF TypeOK, Counts
<1>2. \A i \in posted' : Cardinality(Readers(i)') \in Nat
  <2> TAKE i \in posted'
  <2>1. Readers(i)' \in SUBSET Users
    BY DEF Readers
  <2> QED
    BY <2>1, GroupReadAssumption, FS_Subset, FS_CardinalityType
<1>3. ASSUME NEW v \in Users, NEW s \in Slots, call[v][s].pc = "push",
             NEW i \in DOMAIN call[v][s].counts
      PROVE  /\ i \in posted' /\ call[v][s].counts[i].read \in Nat
             /\ call[v][s].counts[i].read <= Cardinality(Readers(i)')
  <2>1. i \in posted /\ call[v][s].counts[i].read <= Cardinality(Readers(i))
    BY <1>3 DEF ShownInv
  <2>2. call[v][s].counts[i].read \in Nat
    <3>1. CallOK(call[v][s])
      BY DEF TypeOK
    <3>2. PICK ids \in SUBSET posted : call[v][s].counts \in [ids -> Counts]
      BY <1>3, <3>1 DEF CallOK, Idle
    <3> QED
      BY <3>2 DEF Counts
  <2> QED
    BY <1>0, <2>1, <2>2
\* The counts that calls carry.
<1>4. ASSUME NEW w \in Users, NEW t \in Slots, call'[w][t].pc = "push",
             NEW i \in DOMAIN call'[w][t].counts
      PROVE  i \in posted' /\ call'[w][t].counts[i].read <= Cardinality(Readers(i)')
  <2>1. CASE call'[w][t] = call[w][t]
    BY <1>3, <1>4, <2>1
  <2>2. CASE SelectDelta(w, t)
    <3> DEFINE c == call[w][t]
               f == [j \in Others(w, c.old, c.latest) |->
                       [read |-> read_count[j], total |-> Cardinality(members) - 1]]
    <3>1. call'[w][t] = [pc |-> "push", counts |-> f]
      BY <2>2, GotoIs DEF SelectDelta
    <3>2. i \in posted /\ call'[w][t].counts[i].read = read_count[i]
      BY <1>4, <3>1 DEF Others
    <3>3. read_count[i] <= Cardinality(Readers(i)) /\ read_count[i] \in Nat
      BY <3>2, SelectedIsHonest, Numbers DEF TypeOK
    <3> QED
      BY <1>0, <3>2, <3>3
  <2>3. call'[w][t] = call[w][t] \/ SelectDelta(w, t)
    <3>1. CASE UNCHANGED call
      BY <3>1
    <3>2. ASSUME NEW v \in Users, NEW s \in Slots, IncrementDelta(v, s)
          PROVE  call'[w][t] = call[w][t]
      <4>1. PICK c : Goto(v, s, c) /\ c.pc # "push"
        <5> DEFINE c == call[v][s]
                   ids == Others(v, c.old, c.latest)
                   c2 == IF ids = {} THEN Idle ELSE [c EXCEPT !.pc = "delta"]
        <5>1. Goto(v, s, c2) /\ c.pc = "increment"
          BY <3>2 DEF IncrementDelta, Increment
        <5>2. c2.pc # "push"
          BY <5>1, CallShape DEF Idle
        <5> QED
          BY <5>1, <5>2
      <4> QED
        BY <1>4, <4>1, GotoIs
    <3>3. ASSUME NEW v \in Users, NEW s \in Slots, Quiet(v, s)
          PROVE  call'[w][t] = call[w][t] \/ SelectDelta(w, t)
      <4>1. CASE SelectLatest(v, s) \/ SelectCursor(v, s) \/ PushDelta(v, s) \/ CallFails(v, s)
        BY <1>4, <4>1, GotoIs DEF SelectLatest, SelectCursor, PushDelta, CallFails, Idle
      <4>2. CASE UpsertCursor(v, s)
        <5>1. call'[v][s].pc = "increment"
          BY <4>2, CallShape, GotoIs DEF UpsertCursor
        <5> QED
          BY <1>4, <3>3, <5>1, QuietStep
      <4>3. CASE SelectDelta(v, s)
        BY <3>3, <4>3, QuietStep
      <4> QED
        BY <3>3, <4>1, <4>2, <4>3 DEF Quiet
    <3> QED
      BY <3>1, <3>2, <3>3, Steps DEF DrawId, CommitInsert
  <2> QED
    BY <2>1, <2>2, <2>3
\* The counts that pages show.
<1>5. ASSUME NEW v \in Users, NEW s \in Slots, PushDelta(v, s), NEW i \in Ids
      PROVE  /\ i \notin posted' => shown'[i].read = 0
             /\ i \in posted' => shown'[i].read <= Cardinality(Readers(i)')
  <2>1. call[v][s].pc = "push" /\ UNCHANGED posted
        /\ (shown'[i] = shown[i] \/ (i \in DOMAIN call[v][s].counts /\ shown'[i] = call[v][s].counts[i]))
    BY <1>5 DEF PushDelta, rows
  <2> QED
    BY <1>0, <1>1, <1>3, <2>1 DEF ShownInv
<1>6. ASSUME UNCHANGED shown, NEW i \in Ids
      PROVE  /\ i \notin posted' => shown'[i].read = 0
             /\ i \in posted' => shown'[i].read <= Cardinality(Readers(i)')
  BY <1>0, <1>1, <1>2, <1>6 DEF ShownInv
<1>7. UNCHANGED shown \/ \E v \in Users, s \in Slots : PushDelta(v, s)
  BY DEF Next, vars, CheckMember, DrawId, CommitInsert, LeaveGroup, JoinGroup, CallStep,
         SelectLatest, SelectCursor, UpsertCursor, IncrementDelta, Increment, SelectDelta,
         CallFails
<1>8. posted' \subseteq Ids
  BY TypeStep, GroupReadAssumption DEF TypeOK, Ids
<1> QED
  BY <1>4, <1>5, <1>6, <1>7, <1>8 DEF ShownInv

\* ... and no author's page claims a reader who has not read.
THEOREM SerialShownIsHonest ==
    ASSUME NEW slot, Serial(slot)
    PROVE  Spec => []ShownIsHonest
<1>1. Init => ShownInv
  BY DEF Init, ShownInv, Idle
<1>2. ASSUME TypeOK, ShownInv PROVE ShownIsHonest
  <2> SUFFICES ASSUME NEW i \in Ids PROVE shown[i].read <= Cardinality(Readers(i))
    BY DEF ShownIsHonest, Readers
  <2>1. Cardinality(Readers(i)) \in Nat
    BY SetsFinite
  <2> QED
    BY <1>2, <2>1 DEF ShownInv
<1>3. TypeOK /\ PastInv /\ CountExact /\ ShownInv /\ [Next]_vars => ShownInv'
  BY ShownStep
<1> QED
  BY <1>1, <1>2, <1>3, CountsAlways, SerialCountsAreExact, PTL DEF Spec

\* What init.sql says of read_count, the number of the other members who have read
\* past the message (CountsReaders), is true of every moment at which no call is
\* under way: it takes overlapping calls, a failed statement or rows that commit out
\* of order to break it.
THEOREM SerialCountsReaders ==
    ASSUME NEW slot, Serial(slot)
    PROVE  Spec => []CountsReaders
<1>1. ASSUME TypeOK, CountExact PROVE CountsReaders
  <2> SUFFICES ASSUME \A v \in Users, s \in Slots : call[v][s] = Idle, NEW i \in posted
               PROVE  read_count[i] = Cardinality({v \in Users : v # author[i] /\ i <= cursor[v]})
    BY DEF CountsReaders
  <2> DEFINE R == {v \in Users : v # Author[i] /\ i <= UpTo[v]}
  <2>1. read_count[i] = Cardinality(R)
    BY <1>1 DEF CountExact, Receipts!CountIsReaders, Receipts!Readers, Receipts!Cardinality,
                Author, UpTo, Cardinality
  <2>2. Author[i] = author[i]
    BY <1>1, GroupReadAssumption DEF TypeOK, Ids, Author
  <2>3. ASSUME NEW v \in Users PROVE UpTo[v] = cursor[v]
    <3>1. call[v][slot].pc = "idle"
      BY DEF Serial, Idle
    <3>2. UpTo[v] = IF call[v][slot].pc = "increment" THEN call[v][slot].old ELSE cursor[v]
      BY CountedIs DEF UpTo
    <3> QED
      BY <3>1, <3>2
  <2>4. R = {v \in Users : v # author[i] /\ i <= cursor[v]}
    BY <2>2, <2>3
  <2> QED
    BY <2>1, <2>4
<1> QED
  BY <1>1, SerialCountsAreExact, TypeCorrect, PTL
=============================================================================
