---------------------------- MODULE ReadReceipts ----------------------------
(* What the read counts of a group promise: a reader's position moves over  *)
(* posted messages in one step, which counts the reader once for every      *)
(* message of somebody else it passes.                                      *)
EXTENDS Naturals, FiniteSets

CONSTANTS Users,    \* the users who may read or write
          NoUser,   \* author of an id that is not posted
          MaxMsgs   \* bound: messages of the group

Ids == 1..MaxMsgs

\* What the constants are; GroupRead, which instantiates them, assumes it.
Parameters ==
    IsFiniteSet(Users) /\ NoUser \notin Users /\ MaxMsgs \in Nat

VARIABLES posted,      \* ids of the group's messages
          author,      \* id -> from_uid
          upTo,        \* reader -> id read up to, 0 if none
          read_count   \* id -> read_count

rvars == <<posted, author, upTo, read_count>>

Init ==
    /\ posted = {}
    /\ author = [i \in Ids |-> NoUser]
    /\ upTo = [v \in Users |-> 0]
    /\ read_count = [i \in Ids |-> 0]

\* A message is posted after all the others: ids grow.
Post(u, i) ==
    /\ \A j \in posted : j < i
    /\ posted' = posted \cup {i}
    /\ author' = [author EXCEPT ![i] = u]
    /\ UNCHANGED <<upTo, read_count>>

\* The rows the UPDATE of read_count selects.
Passed(v, n) == {i \in posted : upTo[v] < i /\ i <= n /\ author[i] # v}

\* v reads the group up to message n.
ReadTo(v, n) ==
    /\ n \in posted
    /\ upTo[v] < n
    /\ upTo' = [upTo EXCEPT ![v] = n]
    /\ read_count' = [i \in Ids |-> IF i \in Passed(v, n) THEN read_count[i] + 1
                                    ELSE read_count[i]]
    /\ UNCHANGED <<posted, author>>

Next ==
    \/ \E u \in Users, i \in Ids : Post(u, i)
    \/ \E v \in Users, n \in Ids : ReadTo(v, n)

Spec == Init /\ [][Next]_rvars

-----------------------------------------------------------------------------
TypeOK ==
    /\ posted \subseteq Ids
    /\ author \in [Ids -> Users \cup {NoUser}]
    /\ \A i \in posted : author[i] \in Users
    /\ upTo \in [Users -> {0} \cup posted]
    /\ read_count \in [Ids -> Nat]

Readers(i) == {v \in Users : v # author[i] /\ i <= upTo[v]}

\* init.sql: read_count is the "number of OTHER members who have read past this
\* message".
CountIsReaders == \A i \in posted : read_count[i] = Cardinality(Readers(i))
=============================================================================
