---------------------------- MODULE Conversation ----------------------------
(* What the two pages of one direction of a private conversation may rely   *)
(* on, with no connection, task or frame in sight: a client_msg_id is       *)
(* stored once, the recipient is given stored messages only, seen is never  *)
(* taken back, and the sender's page is told of a row at most once, after   *)
(* it was marked, and shows as read what it knows and was told or has       *)
(* loaded.  Nothing says that what is marked was given: it need not be.     *)
EXTENDS Naturals, Sequences

CONSTANTS Msgs, Keyed

VARIABLES rows,   \* the stored messages: row id -> message and seen column
          recv,   \* messages the recipient's page was given
          known,  \* rows the sender's page knows the id of
          told,   \* rows it was told to be read
          read    \* rows it shows as read

cvars == <<rows, recv, known, told, read>>

Ids == DOMAIN rows
Seen == {i \in Ids : rows[i].seen}
Stored == {rows[i].key : i \in Ids}

Init ==
    /\ rows = <<>>
    /\ recv = {} /\ known = {} /\ told = {} /\ read = {}

Store(k) ==
    /\ k \in Keyed => k \notin Stored
    /\ rows' = Append(rows, [key |-> k, seen |-> FALSE])
    /\ UNCHANGED <<recv, known, told, read>>

\* Everything stored so far is marked in one step.
SeeAll ==
    /\ rows' = [i \in Ids |-> [rows[i] EXCEPT !.seen = TRUE]]
    /\ UNCHANGED <<recv, known, told, read>>

Receive(K) ==
    /\ recv' = recv \cup K
    /\ UNCHANGED <<rows, known, told, read>>

\* By an ack, or by a history, which shows some of the rows it marks as read.
Learn(S, T) ==
    /\ known' = known \cup S
    /\ read' = read \cup T
    /\ UNCHANGED <<rows, recv, told>>

\* A delivery update: the page passes over the rows it does not know.
Tell(S) ==
    /\ told' = told \cup S
    /\ read' = read \cup (S \cap known)
    /\ UNCHANGED <<rows, recv, known>>

Next ==
    \/ \E k \in Msgs : Store(k)
    \/ SeeAll
    \/ \E K \in SUBSET Stored : Receive(K)
    \/ \E S \in SUBSET Ids : \E T \in SUBSET (Seen \cap (known \cup S)) : Learn(S, T)
    \/ \E S \in SUBSET (Seen \ told) : Tell(S)

Spec == Init /\ [][Next]_cvars
=============================================================================
