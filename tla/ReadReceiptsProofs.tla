-------------------------- MODULE ReadReceiptsProofs --------------------------
(* The abstract read counts are exact for any number of users and messages.  *)
EXTENDS ReadReceipts, FiniteSetTheorems, TLAPS

\* Ids that are not posted have not been counted yet.
FreshUncounted == \A i \in Ids \ posted : read_count[i] = 0

IInv == TypeOK /\ FreshUncounted /\ CountIsReaders

LEMMA InitInv == Init => IInv
<1> SUFFICES ASSUME Init PROVE IInv
  OBVIOUS
<1>1. TypeOK
  BY DEF Init, TypeOK
<1> QED
  BY <1>1 DEF Init, IInv, FreshUncounted, CountIsReaders

LEMMA TypeStep == TypeOK /\ [Next]_rvars => TypeOK'
<1> SUFFICES ASSUME TypeOK, [Next]_rvars PROVE TypeOK'
  OBVIOUS
<1>1. ASSUME NEW u \in Users, NEW i \in Ids, Post(u, i) PROVE TypeOK'
  BY <1>1 DEF Post, TypeOK
<1>2. ASSUME NEW v \in Users, NEW n \in Ids, ReadTo(v, n) PROVE TypeOK'
  <2>1. read_count' \in [Ids -> Nat]
    BY <1>2 DEF ReadTo, TypeOK
  <2>2. upTo' \in [Users -> {0} \cup posted]
    BY <1>2 DEF ReadTo, TypeOK
  <2> QED
    BY <1>2, <2>1, <2>2 DEF ReadTo, TypeOK
<1>3. CASE UNCHANGED rvars
  BY <1>3 DEF rvars, TypeOK
<1> QED
  BY <1>1, <1>2, <1>3 DEF Next

LEMMA PositionIsNat == ASSUME Parameters, TypeOK, NEW v \in Users PROVE upTo[v] \in Nat
<1>1. upTo[v] \in {0} \cup posted
  BY DEF TypeOK
<1>2. {0} \cup posted \subseteq Nat
  BY DEF Parameters, TypeOK, Ids
<1> QED
  BY <1>1, <1>2

\* A new message has no readers: every position is before it.
LEMMA PostCounts ==
    ASSUME Parameters, IInv, TypeOK', NEW u \in Users, NEW i \in Ids, Post(u, i)
    PROVE  FreshUncounted' /\ CountIsReaders'
<1> USE DEF IInv
<1>1. i \notin posted /\ Ids \subseteq Nat
  BY DEF Parameters, Post, Ids
<1>2. FreshUncounted'
  BY DEF Post, FreshUncounted
<1>3. ASSUME NEW j \in posted' PROVE read_count'[j] = Cardinality(Readers(j)')
  <2>1. CASE j = i
    <3>1. Readers(j)' = {}
      <4>1. 0 < i /\ i \in Nat /\ \A k \in posted : k < i
        BY <1>1 DEF Parameters, Post, Ids
      <4>2. ASSUME NEW v \in Users PROVE ~(i <= upTo[v])
        <5>1. upTo[v] \in {0} \cup posted
          BY DEF TypeOK
        <5>2. upTo[v] < i
          BY <4>1, <5>1
        <5>3. upTo[v] \in Nat
          BY PositionIsNat
        <5> QED
          BY <4>1, <5>2, <5>3
      <4> QED
        BY <2>1, <4>2 DEF Readers, Post
    <3>2. read_count'[j] = 0
      BY <2>1, <1>1 DEF Post, FreshUncounted
    <3> QED
      BY <3>1, <3>2, FS_EmptySet
  <2>2. CASE j # i
    <3>1. j \in posted /\ author'[j] = author[j]
      BY <2>2 DEF Post, TypeOK
    <3>2. Readers(j)' = Readers(j)
      BY <3>1 DEF Readers, Post
    <3> QED
      BY <3>1, <3>2 DEF Post, CountIsReaders
  <2> QED
    BY <2>1, <2>2
<1> QED
  BY <1>2, <1>3 DEF CountIsReaders

\* A reader is added to the readers of exactly the messages it is counted for.
LEMMA ReadCounts ==
    ASSUME Parameters, IInv, TypeOK', NEW v \in Users, NEW n \in Ids, ReadTo(v, n)
    PROVE  FreshUncounted' /\ CountIsReaders'
<1> USE DEF IInv
<1>1. Ids \subseteq Nat /\ n \in Nat /\ posted \subseteq Nat
  BY DEF Parameters, Ids, TypeOK
<1>2. \A w \in Users : upTo[w] \in Nat /\ upTo'[w] = IF w = v THEN n ELSE upTo[w]
  <2>1. \A w \in Users : upTo[w] \in Nat
    BY <1>1, PositionIsNat
  <2>2. \A w \in Users : upTo'[w] = IF w = v THEN n ELSE upTo[w]
    BY DEF ReadTo, TypeOK
  <2> QED
    BY <2>1, <2>2
<1>3. FreshUncounted'
  BY DEF ReadTo, Passed, FreshUncounted
<1>4. ASSUME NEW j \in posted' PROVE read_count'[j] = Cardinality(Readers(j)')
  <2>1. j \in posted /\ j \in Ids /\ j \in Nat /\ author' = author
    BY <1>1 DEF ReadTo, TypeOK
  <2>2. read_count[j] = Cardinality(Readers(j))
    BY <2>1 DEF CountIsReaders
  <2>3. CASE j \in Passed(v, n)
    <3>1. v \notin Readers(j) /\ Readers(j)' = Readers(j) \cup {v}
      BY <2>1, <2>3, <1>1, <1>2 DEF Passed, Readers
    <3>2. IsFiniteSet(Readers(j))
      BY FS_Subset DEF Parameters, Readers
    <3>3. Cardinality(Readers(j)') = Cardinality(Readers(j)) + 1
      BY <3>1, <3>2, FS_AddElement
    <3>4. read_count'[j] = read_count[j] + 1
      BY <2>1, <2>3 DEF ReadTo
    <3> QED
      BY <3>3, <3>4, <2>2
  <2>4. CASE j \notin Passed(v, n)
    <3>1. upTo[v] < n
      BY DEF ReadTo
    <3>2. v # author[j] => (j <= n <=> j <= upTo[v])
      BY <2>1, <2>4, <1>1, <1>2, <3>1 DEF Passed
    <3>3. Readers(j)' = Readers(j)
      BY <2>1, <1>2, <3>2 DEF Readers
    <3>4. read_count'[j] = read_count[j]
      BY <2>1, <2>4 DEF ReadTo
    <3> QED
      BY <3>3, <3>4, <2>2
  <2> QED
    BY <2>3, <2>4
<1> QED
  BY <1>3, <1>4 DEF CountIsReaders

LEMMA StepInv == ASSUME Parameters PROVE IInv /\ [Next]_rvars => IInv'
<1> SUFFICES ASSUME IInv, [Next]_rvars PROVE FreshUncounted' /\ CountIsReaders'
  BY TypeStep DEF IInv
<1>1. TypeOK'
  BY TypeStep DEF IInv
<1>2. CASE UNCHANGED rvars
  <2>1. \A i \in posted : Readers(i)' = Readers(i)
    BY <1>2 DEF rvars, Readers
  <2> QED
    BY <1>2, <2>1 DEF rvars, IInv, FreshUncounted, CountIsReaders
<1> QED
  BY <1>1, <1>2, PostCounts, ReadCounts DEF Next

\* read_count is the number of the other users who have read past a message.
THEOREM CountsAreExact == ASSUME Parameters PROVE Spec => []CountIsReaders
<1>1. IInv => CountIsReaders
  BY DEF IInv
<1> QED
  BY <1>1, InitInv, StepInv, PTL DEF Spec
=============================================================================
