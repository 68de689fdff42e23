------------------------------ MODULE GroupRead ------------------------------
(***************************************************************************)
(* Read counts of one group: the messages of im_group_messages with their  *)
(* read_count, the cursors of im_group_read_cursors, and                   *)
(* mark_group_read_and_get_delta (src/dao.rs), whose five statements run    *)
(* without a transaction.  It is called by the mark_group_read frame, in   *)
(* the main task of the viewer's connection, and by the group history      *)
(* request, so that calls of one viewer may overlap; both push the counts  *)
(* to the authors' pages afterwards.  Neither asks whether the viewer is a *)
(* member.                                                                 *)
(***************************************************************************)
EXTENDS Naturals, Integers, FiniteSets, FiniteSetsExt

CONSTANTS Users, NoUser,
          Slots,       \* calls a viewer may have under way at the same time
          MaxMsgs,     \* bound: messages sent to the group
          MaxLeaves,   \* bound: members who leave
          OutOfOrder,  \* inserts may commit in another order than they drew ids
          Faults       \* statements may fail, requests be abandoned

Ids == 1..MaxMsgs

ASSUME GroupReadAssumption ==
    /\ IsFiniteSet(Users) /\ IsFiniteSet(Slots) /\ NoUser \notin Users
    /\ MaxMsgs \in Nat /\ MaxLeaves \in Nat
    /\ OutOfOrder \in BOOLEAN /\ Faults \in BOOLEAN

VARIABLES
    members,     \* im_group_members
    leaves,      \* departures so far
    admitted,    \* senders is_group_member found, whose insert is to come
    drawn,       \* ids drawn from the sequence: 1..drawn
    posted,      \* ids whose row is committed
    author,      \* id -> from_uid
    read_count,  \* id -> read_count
    cursor,      \* user -> last_read_msg_id, 0 without a row
    call,        \* viewer -> slot -> where mark_group_read_and_get_delta stands
    shown,       \* id -> the counts its author's page shows
    missed       \* history: <<viewer, id>> passed uncounted, by a call cut short or
                 \* before the row committed

rows == <<posted, author, read_count>>
vars == <<members, leaves, admitted, drawn, rows, cursor, call, shown, missed>>

Idle == [pc |-> "idle"]
Goto(v, s, t) == call' = [call EXCEPT ![v][s] = t]
Latest == IF posted = {} THEN 0 ELSE Max(posted)
Others(v, old, latest) == {i \in posted : old < i /\ i <= latest /\ author[i] # v}

Init ==
    /\ members = Users
    /\ leaves = 0
    /\ admitted = {}
    /\ drawn = 0
    /\ posted = {}
    /\ author = [i \in Ids |-> NoUser]
    /\ read_count = [i \in Ids |-> 0]
    /\ cursor = [v \in Users |-> 0]
    /\ call = [v \in Users |-> [s \in Slots |-> Idle]]
    /\ shown = [i \in Ids |-> [read |-> 0, total |-> 0]]
    /\ missed = {}

-----------------------------------------------------------------------------
(* Messages and members                                                    *)

\* group_chat asks whether the sender is a member ...
CheckMember(u) ==
    /\ u \in members
    /\ drawn < MaxMsgs
    /\ admitted' = admitted \cup {u}
    /\ UNCHANGED <<members, leaves, drawn, rows, cursor, call, shown, missed>>

\* ... and the insert of persist_group_message draws an id, whether or not the
\* sender is still a member ...
DrawId(u) ==
    /\ u \in admitted
    /\ drawn < MaxMsgs
    /\ OutOfOrder \/ posted = 1..drawn
    /\ admitted' = admitted \ {u}
    /\ drawn' = drawn + 1
    /\ author' = [author EXCEPT ![drawn + 1] = u]
    /\ UNCHANGED <<members, leaves, posted, read_count, cursor, call, shown, missed>>

\* v has passed message i but a call of v has yet to count it.
Uncounted(v, i) ==
    \E s \in Slots : /\ call[v][s].pc = "increment"
                     /\ call[v][s].old < i /\ i <= call[v][s].latest

\* ... and commits the row, which may now be behind a cursor for good.
CommitInsert(i) ==
    /\ i \in 1..drawn
    /\ i \notin posted
    /\ posted' = posted \cup {i}
    /\ missed' = missed \cup ({v \in Users : i <= cursor[v] /\ ~Uncounted(v, i)} \X {i})
    /\ UNCHANGED <<members, leaves, admitted, drawn, author, read_count, cursor, call, shown>>

\* leave_group keeps the cursor and the counts.
LeaveGroup(u) ==
    /\ u \in members
    /\ leaves < MaxLeaves
    /\ leaves' = leaves + 1
    /\ members' = members \ {u}
    /\ UNCHANGED <<admitted, drawn, rows, cursor, call, shown, missed>>

JoinGroup(u) ==
    /\ u \notin members
    /\ members' = members \cup {u}
    /\ UNCHANGED <<leaves, admitted, drawn, rows, cursor, call, shown, missed>>

-----------------------------------------------------------------------------
(* mark_group_read_and_get_delta                                           *)

\* Mutant: the last id drawn, which need not be a row yet.
SelectDrawn(v, s) ==
    /\ call[v][s] = Idle
    /\ drawn > 0
    /\ Goto(v, s, [pc |-> "cursor", latest |-> drawn])
    /\ UNCHANGED <<members, leaves, admitted, drawn, rows, cursor, shown, missed>>

\* 1. MAX(id); an empty group ends the call.
SelectLatest(v, s) ==
    /\ call[v][s] = Idle
    /\ posted # {}
    /\ Goto(v, s, [pc |-> "cursor", latest |-> Latest])
    /\ UNCHANGED <<members, leaves, admitted, drawn, rows, cursor, shown, missed>>

\* Mutant: the cursor is upserted first and read back.
SelectCursorLate(v, s) ==
    /\ call[v][s].pc = "cursor"
    /\ LET latest == call[v][s].latest
           moved == IF cursor[v] < latest THEN latest ELSE cursor[v]
       IN  /\ Goto(v, s, [pc |-> "upsert", latest |-> latest, old |-> moved])
           /\ cursor' = [cursor EXCEPT ![v] = moved]
    /\ UNCHANGED <<members, leaves, admitted, drawn, rows, shown, missed>>

\* 2. The old cursor.
SelectCursor(v, s) ==
    /\ call[v][s].pc = "cursor"
    /\ Goto(v, s, [pc |-> "upsert", latest |-> call[v][s].latest, old |-> cursor[v]])
    /\ UNCHANGED <<members, leaves, admitted, drawn, rows, cursor, shown, missed>>

\* 3. upsert_group_read_cursor keeps the greater position.
UpsertCursor(v, s) ==
    LET c == call[v][s]
    IN  /\ c.pc = "upsert"
        /\ cursor' = [cursor EXCEPT ![v] = IF @ < c.latest THEN c.latest ELSE @]
        /\ Goto(v, s, [c EXCEPT !.pc = "increment"])
        /\ UNCHANGED <<members, leaves, admitted, drawn, rows, shown, missed>>

Increment(v, s, ids) ==
    LET c == call[v][s]
    IN  /\ c.pc = "increment"
        /\ read_count' = [i \in Ids |-> IF i \in ids THEN read_count[i] + 1
                                        ELSE read_count[i]]
        /\ Goto(v, s, IF ids = {} THEN Idle ELSE [c EXCEPT !.pc = "delta"])
        /\ UNCHANGED <<members, leaves, admitted, drawn, posted, author, cursor, shown, missed>>

\* Mutants: the range includes the old cursor ...
IncrementFromCursor(v, s) ==
    /\ call[v][s].pc = "increment"
    /\ Increment(v, s, Others(v, call[v][s].old - 1, call[v][s].latest))

\* ... or the viewer's own messages ...
IncrementWithOwn(v, s) ==
    /\ call[v][s].pc = "increment"
    /\ Increment(v, s, {i \in posted : call[v][s].old < i /\ i <= call[v][s].latest})

\* ... or ends before the latest row.
IncrementBelowLatest(v, s) ==
    /\ call[v][s].pc = "increment"
    /\ Increment(v, s, Others(v, call[v][s].old, call[v][s].latest - 1))

\* 4. read_count + 1 for old < id <= latest of other authors; if there is no
\* such row the call ends.
IncrementDelta(v, s) ==
    /\ call[v][s].pc = "increment"
    /\ Increment(v, s, Others(v, call[v][s].old, call[v][s].latest))

\* 5. The delta with its counts, and the number of the other members.
SelectDelta(v, s) ==
    LET c == call[v][s]
    IN  /\ c.pc = "delta"
        /\ Goto(v, s, [pc |-> "push",
                       counts |-> [i \in Others(v, c.old, c.latest) |->
                                     [read |-> read_count[i],
                                      total |-> Cardinality(members) - 1]]])
        /\ UNCHANGED <<members, leaves, admitted, drawn, rows, cursor, shown, missed>>

\* A failing statement, or an abandoned history request, ends the call: once the
\* cursor is upserted, nobody will count the messages it passed.
CallFails(v, s) ==
    LET c == call[v][s]
    IN  /\ Faults
        /\ c.pc \notin {"idle", "push"}
        /\ Goto(v, s, Idle)
        /\ missed' = missed \cup IF c.pc = "increment"
                                 THEN {v} \X Others(v, c.old, c.latest) ELSE {}
        /\ UNCHANGED <<members, leaves, admitted, drawn, rows, cursor, shown>>

\* The callers push group_delivery_update to each author, who shows the counts
\* of the update, or is offline.
PushDelta(v, s) ==
    LET c == call[v][s]
    IN  /\ c.pc = "push"
        /\ \E online \in SUBSET {author[i] : i \in DOMAIN c.counts} :
              shown' = [i \in Ids |-> IF i \in DOMAIN c.counts /\ author[i] \in online
                                      THEN c.counts[i] ELSE shown[i]]
        /\ Goto(v, s, Idle)
        /\ UNCHANGED <<members, leaves, admitted, drawn, rows, cursor, missed>>

-----------------------------------------------------------------------------
CallStep(v, s) ==
    \/ SelectLatest(v, s) \/ SelectCursor(v, s) \/ UpsertCursor(v, s)
    \/ IncrementDelta(v, s) \/ SelectDelta(v, s) \/ PushDelta(v, s)
    \/ CallFails(v, s)

Next ==
    \/ \E u \in Users : CheckMember(u) \/ DrawId(u) \/ LeaveGroup(u) \/ JoinGroup(u)
    \/ \E i \in Ids : CommitInsert(i)
    \/ \E v \in Users, s \in Slots : CallStep(v, s)

Spec == Init /\ [][Next]_vars

-----------------------------------------------------------------------------
(* Properties                                                              *)

Counts == [read : Nat, total : Int]

CallOK(c) ==
    \/ c = Idle
    \/ c \in [pc : {"cursor"}, latest : posted]
    \/ c \in [pc : {"upsert", "increment", "delta"}, latest : posted,
              old : {0} \cup posted]
    \/ /\ c.pc = "push" /\ c = [pc |-> "push", counts |-> c.counts]
       /\ \E ids \in SUBSET posted : c.counts \in [ids -> Counts]

\* Types; a call and a cursor name rows that exist.
TypeOK ==
    /\ members \subseteq Users
    /\ leaves \in 0..MaxLeaves
    /\ admitted \subseteq Users
    /\ drawn \in 0..MaxMsgs
    /\ posted \subseteq 1..drawn
    /\ author \in [Ids -> Users \cup {NoUser}]
    /\ \A i \in 1..drawn : author[i] \in Users
    /\ read_count \in [Ids -> Nat]
    /\ cursor \in [Users -> {0} \cup posted]
    /\ call = [v \in Users |-> [s \in Slots |-> call[v][s]]]
    /\ \A v \in Users, s \in Slots : CallOK(call[v][s])
    /\ shown \in [Ids -> Counts]
    /\ missed \subseteq Users \X posted

\* However the calls overlap, no reader goes uncounted: whoever's cursor is past
\* a message has been counted for it, unless the call that moved the cursor is
\* just about to or was cut short before it could, or the row committed later.
NoUndercount ==
    \A i \in posted :
        Cardinality({v \in Users : /\ v # author[i] /\ i <= cursor[v]
                                  /\ ~Uncounted(v, i) /\ <<v, i>> \notin missed})
            <= read_count[i]

\* A viewer is counted at most once by each of the calls it has under way at the
\* same time, also when calls are cut short or rows commit out of order; with one
\* call at a time nobody is counted twice.
NoOvercount ==
    \A i \in posted :
        read_count[i] <= Cardinality(Slots) *
                         Cardinality({v \in Users : v # author[i] /\ i <= cursor[v]})

\* The position of a viewer up to which read_count has counted them, when its
\* calls do not overlap.
Counted(v) ==
    IF \E s \in Slots : call[v][s].pc = "increment"
    THEN call[v][CHOOSE s \in Slots : call[v][s].pc = "increment"].old
    ELSE cursor[v]

\* The five statements of calls that do not overlap implement one atomic step of
\* ReadReceipts, whatever members join and leave between them.
Receipts == INSTANCE ReadReceipts WITH
    author <- [i \in Ids |-> IF i \in posted THEN author[i] ELSE NoUser],
    upTo <- [v \in Users |-> Counted(v)]

ImplementsReceipts == Receipts!Spec

\* ... so that the counts are exact.
CountExact == Receipts!CountIsReaders

\* init.sql: read_count is the "number of OTHER members who have read past this
\* message"; stated of moments when no call is under way.
CountsReaders ==
    (\A v \in Users, s \in Slots : call[v][s] = Idle) =>
        \A i \in posted :
            read_count[i] = Cardinality({v \in Users : v # author[i] /\ i <= cursor[v]})

\* The page of an author never claims a reader who has not read, in whatever
\* order the counts of several viewers are selected and pushed.
ShownIsHonest ==
    \A i \in Ids :
        shown[i].read <= Cardinality({v \in Users : v # author[i] /\ i <= cursor[v]})
=============================================================================
