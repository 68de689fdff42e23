--------------------------- MODULE GroupReadProofs ---------------------------
(* The types of GroupRead hold whatever calls overlap, rows commit out of   *)
(* order or statements fail.                                                *)
EXTENDS GroupRead, FiniteSetTheorems, WellFoundedInduction, TLAPS

\* A bounded, nonempty set of numbers has a maximum.
LEMMA MaxExists ==
    ASSUME NEW n \in Nat, NEW S \in SUBSET (0..n), S # {}
    PROVE  Max(S) \in S /\ \A y \in S : Max(S) >= y
<1> DEFINE T == {n - x : x \in S}
           Less == {p \in Nat \X Nat : p[1] < p[2]}
<1>1. T \subseteq Nat /\ T # {}
  <2>1. \A x \in S : n - x \in Nat
    OBVIOUS
  <2> QED
    BY <2>1
<1>2. IsWellFoundedOn(Less, Nat)
  BY NatLessThanWellFounded DEF OpToRel
<1>3. PICK m \in T : \A k \in T : ~ (<<k, m>> \in Less)
  <2> HIDE DEF T, Less
  <2> QED
    BY <1>1, <1>2, WFMin
<1>4. \A k \in T : ~(k < m)
  BY <1>1, <1>3
<1>5. PICK x \in S : m = n - x
  BY <1>3
<1>6. \A y \in S : x >= y
  BY <1>4, <1>5
<1> QED
  BY <1>6 DEF Max

LEMMA LatestPosted == ASSUME TypeOK, posted # {} PROVE Latest \in posted
<1>1. drawn \in Nat /\ posted \in SUBSET (0..drawn)
  BY GroupReadAssumption DEF TypeOK
<1> QED
  BY <1>1, MaxExists DEF Latest

\* A new row leaves what calls and cursors say about rows true.
LEMMA CallsGoOn ==
    ASSUME posted \subseteq posted', NEW c, CallOK(c)
    PROVE  CallOK(c)'
<1>1. CASE c = Idle
  BY <1>1 DEF CallOK, Idle
<1>2. CASE c \in [pc : {"cursor"}, latest : posted]
  BY <1>2 DEF CallOK
<1>3. CASE c \in [pc : {"upsert", "increment", "delta"}, latest : posted,
                  old : {0} \cup posted]
  BY <1>3 DEF CallOK
<1>4. CASE /\ c = [pc |-> "push", counts |-> c.counts]
           /\ \E ids \in SUBSET posted : c.counts \in [ids -> Counts]
  BY <1>4 DEF CallOK
<1> QED
  BY <1>1, <1>2, <1>3, <1>4 DEF CallOK

LEMMA TypeInit == Init => TypeOK
<1> SUFFICES ASSUME Init PROVE TypeOK
  OBVIOUS
<1>1. shown \in [Ids -> Counts] /\ read_count \in [Ids -> Nat]
  BY DEF Init, Counts
<1> QED
  BY <1>1, GroupReadAssumption DEF Init, TypeOK, CallOK

\* A step of v's call that leaves drawn and posted alone.
LEMMA CallMoves ==
    ASSUME TypeOK, NEW v \in Users, NEW s \in Slots, NEW c, CallOK(c),
           Goto(v, s, c), UNCHANGED posted
    PROVE  /\ call' = [w \in Users |-> [t \in Slots |-> call'[w][t]]]
           /\ \A w \in Users, t \in Slots : CallOK(call[w][t])'
<1>1. call' = [w \in Users |-> [t \in Slots |-> call'[w][t]]]
  BY DEF Goto, TypeOK
<1>2. ASSUME NEW w \in Users, NEW t \in Slots PROVE CallOK(call[w][t])'
  <2>1. call'[w][t] = IF w = v /\ t = s THEN c ELSE call[w][t]
    BY DEF Goto, TypeOK
  <2>2. CallOK(call'[w][t])
    BY <2>1 DEF TypeOK
  <2> QED
    BY <2>2 DEF CallOK
<1> QED
  BY <1>1, <1>2

LEMMA MessageTypes ==
    ASSUME TypeOK, NEW i \in Ids, NEW u \in Users, DrawId(u) \/ CommitInsert(i)
    PROVE  TypeOK'
<1>0. MaxMsgs \in Nat /\ drawn \in Nat /\ posted \subseteq 1..drawn
  BY GroupReadAssumption DEF TypeOK
<1>1. posted \subseteq posted' /\ UNCHANGED <<call, members, leaves, shown, read_count>>
  BY DEF DrawId, CommitInsert
<1>2. \A w \in Users, t \in Slots : CallOK(call[w][t])'
  <2> SUFFICES ASSUME NEW w \in Users, NEW t \in Slots PROVE CallOK(call[w][t])'
    OBVIOUS
  <2>1. CallOK(call[w][t])
    BY DEF TypeOK
  <2> QED
    BY <1>1, <2>1, CallsGoOn DEF CallOK
<1>3. drawn' \in 0..MaxMsgs /\ posted' \subseteq 1..drawn'
  BY <1>0 DEF DrawId, CommitInsert, TypeOK
<1>4. author' \in [Ids -> Users \cup {NoUser}] /\ \A j \in 1..drawn' : author'[j] \in Users
  <2>1. CASE DrawId(u)
    <3>1. author' = [author EXCEPT ![drawn + 1] = u] /\ drawn' = drawn + 1
      BY <2>1 DEF DrawId
    <3>2. \A j \in Ids : author'[j] = IF j = drawn + 1 THEN u ELSE author[j]
      BY <3>1 DEF TypeOK
    <3>3. \A j \in 1..drawn' : j \in Ids /\ (j = drawn + 1 \/ j \in 1..drawn)
      BY <1>0, <1>3, <3>1, GroupReadAssumption DEF Ids
    <3> QED
      BY <3>1, <3>2, <3>3 DEF TypeOK
  <2>2. CASE CommitInsert(i)
    BY <2>2 DEF CommitInsert, TypeOK
  <2> QED
    BY <2>1, <2>2
<1>5. cursor' \in [Users -> {0} \cup posted']
  BY <1>1 DEF DrawId, CommitInsert, TypeOK
<1>6. admitted' \subseteq Users
  BY DEF DrawId, CommitInsert, TypeOK
<1>7. missed' \subseteq Users \X posted'
  <2>1. CASE DrawId(u)
    BY <2>1 DEF DrawId, TypeOK
  <2>2. CASE CommitInsert(i)
    BY <2>2 DEF CommitInsert, TypeOK
  <2> QED
    BY <2>1, <2>2
<1> QED
  BY <1>1, <1>2, <1>3, <1>4, <1>5, <1>6, <1>7 DEF TypeOK

LEMMA MemberTypes ==
    ASSUME TypeOK, NEW u \in Users, CheckMember(u) \/ LeaveGroup(u) \/ JoinGroup(u)
    PROVE  TypeOK'
<1>1. leaves' \in 0..MaxLeaves
  BY GroupReadAssumption DEF CheckMember, LeaveGroup, JoinGroup, TypeOK
<1>2. members' \subseteq Users /\ admitted' \subseteq Users
  BY DEF CheckMember, LeaveGroup, JoinGroup, TypeOK
<1>3. UNCHANGED <<drawn, posted, author, read_count, cursor, call, shown, missed>>
  BY DEF CheckMember, LeaveGroup, JoinGroup, rows
<1> QED
  BY <1>1, <1>2, <1>3 DEF TypeOK, CallOK

LEMMA CallTypes ==
    ASSUME TypeOK, NEW v \in Users, NEW s \in Slots, CallStep(v, s)
    PROVE  TypeOK'
<1> DEFINE c == call[v][s]
<1>1. CallOK(c)
  BY DEF TypeOK
<1>2. UNCHANGED <<members, leaves, admitted, drawn, posted, author>>
  BY DEF CallStep, SelectLatest, SelectCursor, UpsertCursor, IncrementDelta, Increment,
         SelectDelta, PushDelta, CallFails, rows
<1>11. missed' \subseteq Users \X posted
  <2>1. CASE CallFails(v, s)
    BY <2>1 DEF CallFails, Others, TypeOK
  <2>2. CASE ~CallFails(v, s)
    BY <2>2 DEF CallStep, SelectLatest, SelectCursor, UpsertCursor, IncrementDelta,
                Increment, SelectDelta, PushDelta, TypeOK
  <2> QED
    BY <2>1, <2>2
<1>3. SUFFICES /\ \E d : CallOK(d) /\ Goto(v, s, d)
               /\ read_count' \in [Ids -> Nat]
               /\ cursor' \in [Users -> {0} \cup posted]
               /\ shown' \in [Ids -> Counts]
  <2>1. PICK d : CallOK(d) /\ Goto(v, s, d)
    BY <1>3
  <2>2. /\ call' = [w \in Users |-> [t \in Slots |-> call'[w][t]]]
        /\ \A w \in Users, t \in Slots : CallOK(call[w][t])'
    BY <2>1, <1>2, CallMoves
  <2> QED
    BY <1>2, <1>3, <1>11, <2>2 DEF TypeOK
<1>4. CASE SelectLatest(v, s)
  <2>1. Latest \in posted
    BY <1>4, LatestPosted DEF SelectLatest
  <2>2. CallOK([pc |-> "cursor", latest |-> Latest])
    BY <2>1 DEF CallOK
  <2> QED
    BY <1>4, <2>2 DEF SelectLatest, rows, TypeOK
<1>5. CASE SelectCursor(v, s)
  <2>1. c.latest \in posted
    BY <1>1, <1>5 DEF SelectCursor, CallOK, Idle
  <2>2. CallOK([pc |-> "upsert", latest |-> c.latest, old |-> cursor[v]])
    BY <2>1 DEF CallOK, TypeOK
  <2> QED
    BY <1>5, <2>2 DEF SelectCursor, rows, TypeOK
<1>6. CASE UpsertCursor(v, s)
  <2>1. c \in [pc : {"upsert", "increment", "delta"}, latest : posted, old : {0} \cup posted]
    BY <1>1, <1>6 DEF UpsertCursor, CallOK, Idle
  <2>2. CallOK([c EXCEPT !.pc = "increment"])
    BY <2>1 DEF CallOK
  <2> QED
    BY <1>6, <2>1, <2>2 DEF UpsertCursor, rows, TypeOK
<1>7. CASE IncrementDelta(v, s)
  <2>1. c \in [pc : {"upsert", "increment", "delta"}, latest : posted, old : {0} \cup posted]
    BY <1>1, <1>7 DEF IncrementDelta, CallOK, Idle
  <2>2. CallOK([c EXCEPT !.pc = "delta"]) /\ CallOK(Idle)
    BY <2>1 DEF CallOK
  <2>3. read_count' \in [Ids -> Nat]
    BY <1>7 DEF IncrementDelta, Increment, TypeOK
  <2> QED
    BY <1>7, <2>2, <2>3 DEF IncrementDelta, Increment, TypeOK
<1>8. CASE SelectDelta(v, s)
  <2> DEFINE ids == Others(v, c.old, c.latest)
             counts == [i \in ids |-> [read |-> read_count[i], total |-> Cardinality(members) - 1]]
  <2>1. ids \in SUBSET posted /\ posted \subseteq Ids
    BY GroupReadAssumption DEF Others, TypeOK, Ids
  <2>2. Cardinality(members) \in Nat
    BY GroupReadAssumption, FS_Subset, FS_CardinalityType DEF TypeOK
  <2>3. counts \in [ids -> Counts]
    BY <2>1, <2>2 DEF Counts, TypeOK
  <2>4. CallOK([pc |-> "push", counts |-> counts])
    BY <2>1, <2>3 DEF CallOK
  <2> QED
    BY <1>8, <2>4 DEF SelectDelta, rows, TypeOK
<1>9. CASE PushDelta(v, s)
  <2>1. PICK ids \in SUBSET posted : c.counts \in [ids -> Counts]
    BY <1>1, <1>9 DEF PushDelta, CallOK, Idle
  <2>2. shown' \in [Ids -> Counts]
    BY <1>9, <2>1 DEF PushDelta, TypeOK
  <2> QED
    BY <1>9, <2>2 DEF PushDelta, rows, TypeOK, CallOK
<1>10. CASE CallFails(v, s)
  BY <1>10 DEF CallFails, rows, TypeOK, CallOK
<1> QED
  BY <1>4, <1>5, <1>6, <1>7, <1>8, <1>9, <1>10 DEF CallStep

LEMMA TypeStep == TypeOK /\ [Next]_vars => TypeOK'
<1> SUFFICES ASSUME TypeOK, [Next]_vars PROVE TypeOK'
  OBVIOUS
<1>1. ASSUME NEW u \in Users, CheckMember(u) \/ LeaveGroup(u) \/ JoinGroup(u) PROVE TypeOK'
  BY <1>1, MemberTypes
<1>2. ASSUME NEW u \in Users, DrawId(u) PROVE TypeOK'
  <2>1. drawn + 1 \in Ids
    BY <1>2, GroupReadAssumption DEF DrawId, TypeOK, Ids
  <2> QED
    BY <1>2, <2>1, MessageTypes
<1>3. ASSUME NEW i \in Ids, CommitInsert(i) PROVE TypeOK'
  <2>1. author[i] \in Users
    BY <1>3 DEF CommitInsert, TypeOK
  <2> QED
    BY <1>3, <2>1, MessageTypes
<1>4. ASSUME NEW v \in Users, NEW s \in Slots, CallStep(v, s) PROVE TypeOK'
  BY <1>4, CallTypes
<1>5. CASE UNCHANGED vars
  BY <1>5 DEF vars, rows, TypeOK, CallOK
<1> QED
  BY <1>1, <1>2, <1>3, <1>4, <1>5 DEF Next

\* Every call and every cursor names rows that exist, and types hold.
THEOREM TypeCorrect == Spec => []TypeOK
BY TypeInit, TypeStep, PTL DEF Spec
-----------------------------------------------------------------------------
(* How far the counts can be off                                           *)

\* The record a call is, by its pc.
LEMMA CallShape ==
    ASSUME TypeOK, NEW v \in Users, NEW s \in Slots,
           call[v][s].pc \in {"upsert", "increment"}
    PROVE  call[v][s] \in [pc : {"upsert", "increment", "delta"}, latest : posted,
                           old : {0} \cup posted]
<1>1. CallOK(call[v][s])
  BY DEF TypeOK
<1> QED
  BY <1>1 DEF CallOK, Idle

LEMMA GotoIs ==
    ASSUME TypeOK, NEW v \in Users, NEW s \in Slots, NEW c, Goto(v, s, c)
    PROVE  \A w \in Users, t \in Slots :
             call'[w][t] = IF w = v /\ t = s THEN c ELSE call[w][t]
  BY DEF Goto, TypeOK

LEMMA Numbers ==
    ASSUME TypeOK
    PROVE  /\ posted \subseteq Nat \ {0} /\ posted \subseteq Ids
           /\ \A v \in Users : cursor[v] \in Nat
           /\ \A v \in Users, s \in Slots : call[v][s].pc \in {"upsert", "increment"} =>
                call[v][s].old \in Nat /\ call[v][s].latest \in Nat
<1>1. drawn \in Nat /\ posted \subseteq 1..drawn /\ drawn <= MaxMsgs /\ MaxMsgs \in Nat
  BY GroupReadAssumption DEF TypeOK
<1>2. posted \subseteq Nat \ {0} /\ posted \subseteq Ids
  BY <1>1 DEF Ids
<1> QED
  BY <1>2, CallShape DEF TypeOK

\* A call knows of the past only, and what no row holds is not counted.
PastInv ==
    /\ \A i \in Ids \ posted : read_count[i] = 0
    /\ \A v \in Users, s \in Slots :
         /\ call[v][s].pc \in {"upsert", "increment"} => call[v][s].old <= cursor[v]
         /\ call[v][s].pc = "increment" => call[v][s].latest <= cursor[v]

\* The steps that move neither rows nor counts, by what they do to a call.
Quiet(v, s) == \/ SelectLatest(v, s) \/ SelectCursor(v, s) \/ UpsertCursor(v, s)
               \/ SelectDelta(v, s) \/ PushDelta(v, s) \/ CallFails(v, s)

LEMMA Steps ==
    ASSUME TypeOK, [Next]_vars
    PROVE  \/ UNCHANGED <<rows, cursor, call, missed>>
           \/ \E u \in Users : DrawId(u)
           \/ \E i \in Ids : CommitInsert(i)
           \/ \E v \in Users, s \in Slots : Quiet(v, s) \/ IncrementDelta(v, s)
  BY DEF Next, vars, CheckMember, LeaveGroup, JoinGroup, CallStep, Quiet

LEMMA QuietStep ==
    ASSUME TypeOK, PastInv, NEW v \in Users, NEW s \in Slots, Quiet(v, s)
    PROVE  /\ UNCHANGED rows
           /\ \A w \in Users : cursor[w] <= cursor'[w]
           /\ \A w \in Users, t \in Slots : (w = v /\ t = s) \/ call'[w][t] = call[w][t]
           /\ \A w \in Users : w = v \/ cursor'[w] = cursor[w]
           /\ missed \subseteq missed'
<1>1. PICK c : Goto(v, s, c)
  BY DEF Quiet, SelectLatest, SelectCursor, UpsertCursor, SelectDelta, PushDelta, CallFails
<1>2. \A w \in Users : cursor[w] <= cursor'[w] /\ (w = v \/ cursor'[w] = cursor[w])
  <2>1. CASE UpsertCursor(v, s)
    <3>1. call[v][s].latest \in Nat
      BY <2>1, Numbers DEF UpsertCursor
    <3> QED
      BY <2>1, <3>1, Numbers DEF UpsertCursor, TypeOK
  <2>2. CASE ~UpsertCursor(v, s)
    <3>1. UNCHANGED cursor
      BY <2>2 DEF Quiet, SelectLatest, SelectCursor, SelectDelta, PushDelta, CallFails
    <3> QED
      BY <3>1, Numbers
  <2> QED
    BY <2>1, <2>2
<1>3. UNCHANGED rows /\ missed \subseteq missed'
  BY DEF Quiet, SelectLatest, SelectCursor, UpsertCursor, SelectDelta, PushDelta, CallFails, rows
<1> QED
  BY <1>1, <1>2, <1>3, GotoIs

LEMMA PastStep == TypeOK /\ PastInv /\ [Next]_vars => PastInv'
<1> SUFFICES ASSUME TypeOK, PastInv, [Next]_vars PROVE PastInv'
  OBVIOUS
<1>1. CASE UNCHANGED <<rows, cursor, call, missed>>
  BY <1>1 DEF rows, PastInv
<1>2. ASSUME NEW u \in Users, DrawId(u) PROVE PastInv'
  BY <1>2 DEF DrawId, PastInv
<1>3. ASSUME NEW i \in Ids, CommitInsert(i) PROVE PastInv'
  BY <1>3 DEF CommitInsert, PastInv
<1>4. ASSUME NEW v \in Users, NEW s \in Slots, IncrementDelta(v, s) PROVE PastInv'
  <2> DEFINE c == call[v][s]
             ids == Others(v, c.old, c.latest)
             c2 == IF ids = {} THEN Idle ELSE [c EXCEPT !.pc = "delta"]
  <2>1. Goto(v, s, c2) /\ c.pc = "increment"
    BY <1>4 DEF IncrementDelta, Increment
  <2>2. c2.pc \in {"idle", "delta"}
    BY <2>1, CallShape DEF Idle
  <2>3. \A w \in Users, t \in Slots : call'[w][t] = IF w = v /\ t = s THEN c2 ELSE call[w][t]
    <3> HIDE DEF c2
    <3> QED
      BY <2>1, GotoIs
  <2>4. /\ UNCHANGED <<posted, cursor>> /\ ids \subseteq posted
        /\ read_count' = [i \in Ids |-> IF i \in ids THEN read_count[i] + 1 ELSE read_count[i]]
    BY <1>4 DEF IncrementDelta, Increment, Others
  <2> HIDE DEF c2, ids
  <2> QED
    BY <2>2, <2>3, <2>4 DEF PastInv
<1>5. ASSUME NEW v \in Users, NEW s \in Slots, Quiet(v, s) PROVE PastInv'
  <2>1. /\ UNCHANGED rows
        /\ \A w \in Users : cursor[w] <= cursor'[w] /\ (w = v \/ cursor'[w] = cursor[w])
        /\ \A w \in Users, t \in Slots : (w = v /\ t = s) \/ call'[w][t] = call[w][t]
    BY <1>5, QuietStep
  <2>2. \A w \in Users : cursor[w] \in Nat /\ cursor'[w] \in Nat
    <3>1. cursor' \in [Users -> {0} \cup posted]
      BY <2>1, TypeStep DEF TypeOK, rows
    <3> QED
      BY <3>1, Numbers
  <2>3. /\ call'[v][s].pc \in {"upsert", "increment"} => call'[v][s].old <= cursor'[v]
        /\ call'[v][s].pc = "increment" => call'[v][s].latest <= cursor'[v]
    <3>1. CASE UpsertCursor(v, s)
      <4>1. /\ call[v][s].old <= cursor[v] /\ call[v][s].old \in Nat /\ call[v][s].latest \in Nat
            /\ cursor[v] <= cursor'[v]
        BY <2>1, <3>1, Numbers DEF UpsertCursor, PastInv
      <4>2. call'[v][s].old = call[v][s].old /\ call'[v][s].latest = call[v][s].latest
        BY <3>1, CallShape, GotoIs DEF UpsertCursor
      <4>3. call[v][s].latest <= cursor'[v]
        BY <3>1, <4>1, Numbers DEF UpsertCursor, TypeOK
      <4>4. call[v][s].old <= cursor'[v]
        BY <2>2, <4>1
      <4> QED
        BY <4>2, <4>3, <4>4
    <3>2. CASE SelectCursor(v, s)
      <4>1. call'[v][s] = [pc |-> "upsert", latest |-> call[v][s].latest, old |-> cursor[v]]
        BY <3>2, GotoIs DEF SelectCursor
      <4> QED
        BY <2>1, <4>1
    <3>3. CASE SelectLatest(v, s) \/ SelectDelta(v, s) \/ PushDelta(v, s) \/ CallFails(v, s)
      <4>1. call'[v][s].pc \in {"cursor", "push", "idle"}
        BY <3>3, GotoIs DEF SelectLatest, SelectDelta, PushDelta, CallFails, Idle
      <4> QED
        BY <4>1
    <3> QED
      BY <1>5, <3>1, <3>2, <3>3 DEF Quiet
  <2>4. ASSUME NEW w \in Users, NEW t \in Slots
        PROVE  /\ call'[w][t].pc \in {"upsert", "increment"} => call'[w][t].old <= cursor'[w]
               /\ call'[w][t].pc = "increment" => call'[w][t].latest <= cursor'[w]
    <3>1. CASE w = v /\ t = s
      BY <2>3, <3>1
    <3>2. CASE call'[w][t] = call[w][t]
      <4>1. call[w][t].pc \in {"upsert", "increment"} =>
                call[w][t].old \in Nat /\ call[w][t].latest \in Nat
        BY Numbers
      <4> QED
        BY <2>1, <2>2, <3>2, <4>1 DEF PastInv
    <3> QED
      BY <2>1, <3>1, <3>2
  <2> QED
    BY <2>1, <2>4 DEF PastInv, rows
<1> QED
  BY <1>1, <1>2, <1>3, <1>4, <1>5, Steps

-----------------------------------------------------------------------------
(* Who is counted for a message, and by which calls                        *)

Readers(i) == {v \in Users : v # author[i] /\ i <= cursor[v]}

\* The readers NoUndercount speaks of.
Told(i) == {v \in Users : /\ v # author[i] /\ i <= cursor[v]
                          /\ ~Uncounted(v, i) /\ <<v, i>> \notin missed}

\* The call in slot s of v will count message i.
Pending(v, s, i) ==
    /\ call[v][s].pc \in {"upsert", "increment"}
    /\ call[v][s].old < i /\ i <= call[v][s].latest

\* The slots that may have counted message i: v is past it, and a call that starts
\* now, or is under way, does not count it any more.
CountedIn(i) ==
    {p \in Users \X Slots : /\ p[1] # author[i] /\ i <= cursor[p[1]]
                            /\ ~Pending(p[1], p[2], i)}

CountInv ==
    \A i \in posted : /\ Cardinality(Told(i)) <= read_count[i]
                      /\ read_count[i] <= Cardinality(CountedIn(i))

LEMMA SetsFinite ==
    ASSUME NEW i
    PROVE  /\ IsFiniteSet(Told(i)) /\ IsFiniteSet(CountedIn(i)) /\ IsFiniteSet(Readers(i))
           /\ Cardinality(Told(i)) \in Nat /\ Cardinality(CountedIn(i)) \in Nat
           /\ Cardinality(Readers(i)) \in Nat
<1>1. IsFiniteSet(Users) /\ IsFiniteSet(Users \X Slots)
  BY GroupReadAssumption, FS_Product
<1>2. Told(i) \in SUBSET Users /\ Readers(i) \in SUBSET Users /\ CountedIn(i) \in SUBSET (Users \X Slots)
  BY DEF Told, Readers, CountedIn
<1>3. IsFiniteSet(Told(i)) /\ IsFiniteSet(CountedIn(i)) /\ IsFiniteSet(Readers(i))
  BY <1>1, <1>2, FS_Subset
<1> QED
  BY <1>3, FS_CardinalityType

\* A step that adds nobody to the readers and takes no slot away keeps the bounds.
LEMMA BoundsKeep ==
    ASSUME TypeOK, NEW i \in posted, CountInv, read_count'[i] = read_count[i],
           Told(i)' \subseteq Told(i), CountedIn(i) \subseteq CountedIn(i)'
    PROVE  /\ Cardinality(Told(i)') <= read_count'[i]
           /\ read_count'[i] <= Cardinality(CountedIn(i)')
<1>1. IsFiniteSet(CountedIn(i)') /\ Cardinality(CountedIn(i)') \in Nat
  <2>1. IsFiniteSet(Users \X Slots)
    BY GroupReadAssumption, FS_Product
  <2>2. CountedIn(i)' \in SUBSET (Users \X Slots)
    BY DEF CountedIn
  <2>3. IsFiniteSet(CountedIn(i)')
    BY <2>1, <2>2, FS_Subset
  <2> QED
    BY <2>3, FS_CardinalityType
<1>2. Cardinality(Told(i)') <= Cardinality(Told(i)) /\ Cardinality(Told(i)') \in Nat
  <2>1. Told(i)' \in SUBSET Told(i)
    OBVIOUS
  <2>2. IsFiniteSet(Told(i)') /\ Cardinality(Told(i)') <= Cardinality(Told(i))
    BY <2>1, SetsFinite, FS_Subset
  <2> QED
    BY <2>2, FS_CardinalityType
<1>3. Cardinality(CountedIn(i)) <= Cardinality(CountedIn(i)')
  BY <1>1, FS_Subset
<1>4. read_count[i] \in Nat
  BY Numbers DEF TypeOK
<1> QED
  BY <1>1, <1>2, <1>3, <1>4, SetsFinite DEF CountInv
\* A call that moves the cursor will count what it passes; one that ends before has
\* been counted out.
LEMMA QuietTold ==
    ASSUME TypeOK, PastInv, NEW v \in Users, NEW s \in Slots, Quiet(v, s), NEW i \in posted
    PROVE  Told(i)' \subseteq Told(i)
<1> SUFFICES ASSUME NEW w \in Users, w # author[i], i <= cursor'[w],
                    ~Uncounted(w, i)', <<w, i>> \notin missed'
             PROVE  i <= cursor[w] /\ ~Uncounted(w, i) /\ <<w, i>> \notin missed
  BY QuietStep DEF Told, rows
<1>1. /\ \A x \in Users, t \in Slots : (x = v /\ t = s) \/ call'[x][t] = call[x][t]
      /\ \A x \in Users : x = v \/ cursor'[x] = cursor[x]
      /\ <<w, i>> \notin missed
      /\ cursor[w] \in Nat /\ i \in Nat
  BY QuietStep, Numbers
<1>2. ASSUME call'[v][s].pc # "increment", call[v][s].pc # "increment", UNCHANGED cursor
      PROVE  i <= cursor[w] /\ ~Uncounted(w, i)
  BY <1>1, <1>2 DEF Uncounted
<1>3. CASE SelectLatest(v, s) \/ SelectCursor(v, s) \/ SelectDelta(v, s) \/ PushDelta(v, s)
  <2>1. call'[v][s].pc \in {"cursor", "upsert", "push", "idle"}
    BY <1>3, GotoIs DEF SelectLatest, SelectCursor, SelectDelta, PushDelta, Idle
  <2>2. call[v][s].pc # "increment" /\ UNCHANGED cursor
    BY <1>3 DEF SelectLatest, SelectCursor, SelectDelta, PushDelta, Idle
  <2> QED
    BY <1>1, <1>2, <2>1, <2>2
<1>4. CASE UpsertCursor(v, s)
  <2>1. /\ call'[v][s].pc = "increment" /\ call[v][s].pc = "upsert"
        /\ call'[v][s].old = call[v][s].old /\ call'[v][s].latest = call[v][s].latest
    BY <1>4, CallShape, GotoIs DEF UpsertCursor
  <2>2. call[v][s].old \in Nat /\ call[v][s].latest \in Nat /\ call[v][s].old <= cursor[v]
    BY <2>1, Numbers DEF PastInv
  <2>3. cursor'[v] = IF cursor[v] < call[v][s].latest THEN call[v][s].latest ELSE cursor[v]
    BY <1>4 DEF UpsertCursor, TypeOK
  <2>4. i <= cursor[w]
    <3>1. CASE w # v
      BY <1>1, <3>1
    <3>2. CASE w = v
      <4>1. ~(call[v][s].old < i /\ i <= call[v][s].latest)
        BY <2>1, <3>2 DEF Uncounted
      <4> QED
        BY <1>1, <2>2, <2>3, <3>2, <4>1
    <3> QED
      BY <3>1, <3>2
  <2>5. ~Uncounted(w, i)
    BY <1>1, <2>1 DEF Uncounted
  <2> QED
    BY <1>1, <2>4, <2>5
<1>5. CASE CallFails(v, s)
  <2>1. UNCHANGED cursor /\ call'[v][s] = Idle
    BY <1>5, GotoIs DEF CallFails
  <2>2. ~Uncounted(w, i)
    <3>1. CASE w # v \/ call[v][s].pc # "increment"
      BY <1>1, <3>1 DEF Uncounted
    <3>2. CASE w = v /\ call[v][s].pc = "increment"
      <4>1. i \notin Others(v, call[v][s].old, call[v][s].latest)
        BY <1>5, <3>2 DEF CallFails
      <4>2. ~(call[v][s].old < i /\ i <= call[v][s].latest)
        BY <3>2, <4>1 DEF Others
      <4> QED
        BY <1>1, <3>2, <4>2 DEF Uncounted
    <3> QED
      BY <3>1, <3>2
  <2> QED
    BY <1>1, <2>1, <2>2
<1> QED
  BY <1>3, <1>4, <1>5 DEF Quiet

\* A call that reads the cursor now counts nothing behind it.
LEMMA QuietCounted ==
    ASSUME TypeOK, PastInv, NEW v \in Users, NEW s \in Slots, Quiet(v, s), NEW i \in posted
    PROVE  CountedIn(i) \subseteq CountedIn(i)'
<1> SUFFICES ASSUME NEW w \in Users, NEW t \in Slots, i <= cursor[w], ~Pending(w, t, i)
             PROVE  i <= cursor'[w] /\ ~Pending(w, t, i)'
  BY QuietStep DEF CountedIn, rows
<1>1. /\ (w = v /\ t = s) \/ call'[w][t] = call[w][t]
      /\ cursor[w] <= cursor'[w] /\ cursor[w] \in Nat /\ i \in Nat
  BY QuietStep, Numbers
<1>2. cursor'[w] \in Nat
  <2>1. cursor' \in [Users -> {0} \cup posted]
    <3>1. CASE UpsertCursor(v, s)
      BY <3>1, CallShape DEF UpsertCursor, TypeOK
    <3>2. CASE ~UpsertCursor(v, s)
      BY <3>2 DEF Quiet, SelectLatest, SelectCursor, SelectDelta, PushDelta, CallFails, TypeOK
    <3> QED
      BY <3>1, <3>2
  <2> QED
    BY <2>1, Numbers
<1>3. i <= cursor'[w]
  BY <1>1, <1>2
<1>4. CASE w = v /\ t = s
  <2>1. CASE SelectCursor(v, s)
    <3>1. call'[v][s] = [pc |-> "upsert", latest |-> call[v][s].latest, old |-> cursor[v]]
      BY <2>1, GotoIs DEF SelectCursor
    <3>2. ~(call'[v][s].old < i)
      BY <1>1, <1>4, <3>1
    <3> QED
      BY <1>3, <1>4, <3>2 DEF Pending
  <2>2. CASE UpsertCursor(v, s)
    <3>1. /\ call[v][s].pc = "upsert"
          /\ call'[v][s].old = call[v][s].old /\ call'[v][s].latest = call[v][s].latest
      BY <2>2, CallShape, GotoIs DEF UpsertCursor
    <3> QED
      BY <1>3, <1>4, <3>1 DEF Pending
  <2>3. CASE SelectLatest(v, s) \/ SelectDelta(v, s) \/ PushDelta(v, s) \/ CallFails(v, s)
    <3>1. call'[v][s].pc \in {"cursor", "push", "idle"}
      BY <2>3, GotoIs DEF SelectLatest, SelectDelta, PushDelta, CallFails, Idle
    <3> QED
      BY <1>3, <1>4, <3>1 DEF Pending
  <2> QED
    BY <2>1, <2>2, <2>3 DEF Quiet
<1>5. CASE call'[w][t] = call[w][t]
  BY <1>3, <1>5 DEF Pending
<1> QED
  BY <1>1, <1>4, <1>5

\* The increment adds the viewer to the readers told and this slot to those that have
\* counted, exactly where it adds one to the count.
LEMMA IncrementBounds ==
    ASSUME TypeOK, PastInv, CountInv, NEW v \in Users, NEW s \in Slots, IncrementDelta(v, s),
           NEW i \in posted
    PROVE  /\ Cardinality(Told(i)') <= read_count'[i]
           /\ read_count'[i] <= Cardinality(CountedIn(i)')
<1> DEFINE c == call[v][s]
           ids == Others(v, c.old, c.latest)
           c2 == IF ids = {} THEN Idle ELSE [c EXCEPT !.pc = "delta"]
<1>1. /\ c.pc = "increment" /\ Goto(v, s, c2)
      /\ UNCHANGED <<posted, author, cursor, missed>>
      /\ read_count' = [j \in Ids |-> IF j \in ids THEN read_count[j] + 1 ELSE read_count[j]]
  BY DEF IncrementDelta, Increment
<1>2. c2.pc \in {"idle", "delta"}
  BY <1>1, CallShape DEF Idle
<1>3. \A w \in Users, t \in Slots : call'[w][t] = IF w = v /\ t = s THEN c2 ELSE call[w][t]
  <2> HIDE DEF c2
  <2> QED
    BY <1>1, GotoIs
<1>4. /\ c.old \in Nat /\ c.latest \in Nat /\ c.latest <= cursor[v] /\ cursor[v] \in Nat
      /\ i \in Nat /\ i \in Ids /\ read_count[i] \in Nat
  BY <1>1, Numbers DEF PastInv, TypeOK
<1>5. i \in ids <=> c.old < i /\ i <= c.latest /\ author[i] # v
  BY DEF Others
<1> HIDE DEF ids, c2
<1>6. \A w \in Users : Uncounted(w, i) => Uncounted(w, i)' \/ (w = v /\ c.old < i /\ i <= c.latest)
  BY <1>3 DEF Uncounted
<1>7. \A p \in Users \X Slots : Pending(p[1], p[2], i)' => Pending(p[1], p[2], i)
  BY <1>2, <1>3 DEF Pending
<1>8. CASE i \in ids
  <2>1. Told(i)' \in SUBSET (Told(i) \cup {v})
    BY <1>1, <1>6 DEF Told
  <2>2. <<v, s>> \notin CountedIn(i)
    BY <1>1, <1>5, <1>8 DEF CountedIn, Pending
  <2>3. CountedIn(i) \cup {<<v, s>>} \in SUBSET (CountedIn(i)')
    <3>1. CountedIn(i) \subseteq CountedIn(i)'
      BY <1>1, <1>7 DEF CountedIn
    <3>2. i <= cursor[v] /\ v # author[i]
      BY <1>4, <1>5, <1>8
    <3>3. ~Pending(v, s, i)'
      BY <1>2, <1>3 DEF Pending
    <3>4. <<v, s>> \in CountedIn(i)'
      BY <1>1, <3>2, <3>3 DEF CountedIn
    <3> QED
      BY <3>1, <3>4
  <2>4. read_count'[i] = read_count[i] + 1
    BY <1>1, <1>4, <1>8
  <2>5. /\ IsFiniteSet(Told(i) \cup {v}) /\ Cardinality(Told(i) \cup {v}) <= Cardinality(Told(i)) + 1
        /\ Cardinality(Told(i) \cup {v}) \in Nat
    <3>1. IsFiniteSet(Told(i)) /\ Cardinality(Told(i)) \in Nat
      BY SetsFinite
    <3>2. /\ IsFiniteSet(Told(i) \cup {v})
          /\ Cardinality(Told(i) \cup {v}) =
               IF v \in Told(i) THEN Cardinality(Told(i)) ELSE Cardinality(Told(i)) + 1
      BY <3>1, FS_AddElement
    <3> QED
      BY <3>1, <3>2
  <2>6. Cardinality(Told(i)') <= Cardinality(Told(i) \cup {v}) /\ Cardinality(Told(i)') \in Nat
    <3>1. IsFiniteSet(Told(i)') /\ Cardinality(Told(i)') <= Cardinality(Told(i) \cup {v})
      BY <2>1, <2>5, FS_Subset
    <3> QED
      BY <3>1, FS_CardinalityType
  <2>7. /\ IsFiniteSet(CountedIn(i) \cup {<<v, s>>})
        /\ Cardinality(CountedIn(i) \cup {<<v, s>>}) = Cardinality(CountedIn(i)) + 1
    BY <2>2, SetsFinite, FS_AddElement
  <2>8. Cardinality(CountedIn(i)) + 1 <= Cardinality(CountedIn(i)') /\ Cardinality(CountedIn(i)') \in Nat
    <3>1. IsFiniteSet(CountedIn(i)')
      <4>1. IsFiniteSet(Users \X Slots)
        BY GroupReadAssumption, FS_Product
      <4>2. CountedIn(i)' \in SUBSET (Users \X Slots)
        BY DEF CountedIn
      <4> QED
        BY <4>1, <4>2, FS_Subset
    <3> QED
      BY <2>3, <2>7, <3>1, FS_Subset, FS_CardinalityType
  <2> QED
    BY <1>4, <2>4, <2>5, <2>6, <2>8, SetsFinite DEF CountInv
<1>9. CASE i \notin ids
  <2>1. Told(i)' \subseteq Told(i)
    BY <1>1, <1>5, <1>6, <1>9 DEF Told
  <2>2. CountedIn(i) \subseteq CountedIn(i)'
    BY <1>1, <1>7 DEF CountedIn
  <2>3. read_count'[i] = read_count[i]
    BY <1>1, <1>4, <1>9
  <2> QED
    BY <2>1, <2>2, <2>3, BoundsKeep
<1> QED
  BY <1>8, <1>9

LEMMA CountStep == TypeOK /\ PastInv /\ CountInv /\ [Next]_vars => CountInv'
<1> SUFFICES ASSUME TypeOK, PastInv, CountInv, [Next]_vars, NEW i \in posted'
             PROVE  /\ Cardinality(Told(i)') <= read_count'[i]
                    /\ read_count'[i] <= Cardinality(CountedIn(i)')
  BY DEF CountInv
<1>1. CASE UNCHANGED <<rows, cursor, call, missed>>
  BY <1>1 DEF CountInv, Told, CountedIn, Uncounted, Pending, rows
<1>2. ASSUME NEW u \in Users, DrawId(u)
      PROVE  /\ Cardinality(Told(i)') <= read_count'[i]
             /\ read_count'[i] <= Cardinality(CountedIn(i)')
  <2>1. i \in posted /\ UNCHANGED <<posted, read_count, cursor, call, missed>>
        /\ author' = [author EXCEPT ![drawn + 1] = u]
    BY <1>2 DEF DrawId
  <2>2. i # drawn + 1
    BY <2>1, GroupReadAssumption DEF TypeOK
  <2>3. author'[i] = author[i]
    BY <2>1, <2>2 DEF TypeOK
  <2> QED
    BY <2>1, <2>3 DEF CountInv, Told, CountedIn, Uncounted, Pending
<1>3. ASSUME NEW j \in Ids, CommitInsert(j)
      PROVE  /\ Cardinality(Told(i)') <= read_count'[i]
             /\ read_count'[i] <= Cardinality(CountedIn(i)')
  <2>1. /\ UNCHANGED <<author, read_count, cursor, call>> /\ posted' = posted \cup {j}
        /\ j \notin posted
        /\ missed' = missed \cup ({w \in Users : j <= cursor[w] /\ ~Uncounted(w, j)} \X {j})
    BY <1>3 DEF CommitInsert
  <2>2. CASE i \in posted
    <3>1. Told(i)' \subseteq Told(i) /\ CountedIn(i) \subseteq CountedIn(i)'
      BY <2>1 DEF Told, CountedIn, Uncounted, Pending
    <3> QED
      BY <2>1, <2>2, <3>1, BoundsKeep
  <2>3. CASE i = j
    <3>1. Told(i)' = {}
      BY <2>1, <2>3 DEF Told, Uncounted
    <3>2. read_count'[i] = 0
      BY <2>1, <2>3 DEF PastInv
    <3>3. Cardinality(CountedIn(i)') \in Nat
      BY <2>1, <2>3, SetsFinite DEF CountedIn, Pending
    <3> QED
      BY <3>1, <3>2, <3>3, FS_EmptySet
  <2> QED
    BY <2>1, <2>2, <2>3
<1>4. ASSUME NEW v \in Users, NEW s \in Slots, IncrementDelta(v, s)
      PROVE  /\ Cardinality(Told(i)') <= read_count'[i]
             /\ read_count'[i] <= Cardinality(CountedIn(i)')
  BY <1>4, IncrementBounds DEF IncrementDelta, Increment
<1>5. ASSUME NEW v \in Users, NEW s \in Slots, Quiet(v, s)
      PROVE  /\ Cardinality(Told(i)') <= read_count'[i]
             /\ read_count'[i] <= Cardinality(CountedIn(i)')
  <2>1. i \in posted /\ read_count'[i] = read_count[i]
    BY <1>5, QuietStep DEF rows
  <2> QED
    BY <1>5, <2>1, QuietTold, QuietCounted, BoundsKeep
<1> QED
  BY <1>1, <1>2, <1>3, <1>4, <1>5, Steps

LEMMA CountsAlways == Spec => [](TypeOK /\ PastInv /\ CountInv)
<1>1. Init => PastInv /\ CountInv
  BY DEF Init, PastInv, CountInv, Idle
<1> QED
  BY <1>1, TypeInit, TypeStep, PastStep, CountStep, PTL DEF Spec

\* Nobody who has read past a message goes uncounted, unless the call that moved the
\* cursor is about to count them, was cut short, or the row committed later.
THEOREM NobodyIsLeftOut == Spec => []NoUndercount
<1>1. CountInv => NoUndercount
  BY DEF CountInv, NoUndercount, Told
<1> QED
  BY <1>1, CountsAlways, PTL

\* A reader is counted at most once by each of the calls it may have under way.
THEOREM CountedOncePerCall == Spec => []NoOvercount
<1>1. ASSUME TypeOK, CountInv PROVE NoOvercount
  <2> SUFFICES ASSUME NEW i \in posted
               PROVE  read_count[i] <= Cardinality(Slots) * Cardinality(Readers(i))
    BY DEF NoOvercount, Readers
  <2>1. /\ IsFiniteSet(Readers(i) \X Slots)
        /\ Cardinality(Readers(i) \X Slots) = Cardinality(Readers(i)) * Cardinality(Slots)
    BY SetsFinite, GroupReadAssumption, FS_Product
  <2>2. CountedIn(i) \in SUBSET (Readers(i) \X Slots)
    BY DEF CountedIn, Readers
  <2>3. Cardinality(CountedIn(i)) <= Cardinality(Readers(i) \X Slots)
    BY <2>1, <2>2, FS_Subset
  <2>4. Cardinality(Readers(i)) \in Nat /\ Cardinality(Slots) \in Nat
    BY SetsFinite, GroupReadAssumption, FS_CardinalityType
  <2>5. Cardinality(Readers(i)) * Cardinality(Slots) = Cardinality(Slots) * Cardinality(Readers(i))
    BY <2>4
  <2>6. read_count[i] <= Cardinality(CountedIn(i)) /\ read_count[i] \in Nat
    BY <1>1, Numbers DEF CountInv, TypeOK
  <2>7. Cardinality(CountedIn(i)) <= Cardinality(Slots) * Cardinality(Readers(i))
    BY <2>1, <2>3, <2>5
  <2>8. Cardinality(Slots) * Cardinality(Readers(i)) \in Nat /\ Cardinality(CountedIn(i)) \in Nat
    BY <2>4, SetsFinite
  <2> QED
    BY <2>6, <2>7, <2>8
<1> QED
  BY <1>1, CountsAlways, PTL
=============================================================================
