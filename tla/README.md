# myx-im in TLA+

TLA+ models of the myx-im chat server (Rust, axum, PostgreSQL) and of the part of its web client that takes part in
the protocols, TLC configurations that check them on small instances, and TLAPS proofs of the theorems that hold for
every instance. Source paths below are relative to the repository root.

- [The system](#the-system): components, state, interaction, what is hard
- [Modules](#modules): which module models what, and how its actions correspond to the code
- [Runs](#runs): what TLC checks, with which bounds and why they are enough
- [Fairness](#fairness)
- [Proofs](#proofs)
- [What the code does differently from its documents](#what-the-code-does-differently-from-its-documents)
- [Not modelled](#not-modelled) and [Plan](#plan)

## The system

One server process holds the map of connected users in memory; everything else is in PostgreSQL. Pages talk to it over
HTTP (accounts, histories, groups, friends) and over one WebSocket per session (messages, receipts, pushes). No handler
uses a lock other than the map's mutex, and only the two inserts of `add_friend` run in a transaction: most
operations are a sequence of autonomous SQL statements, interleaved with those of every other task.

| Component | State | Operations | Correct when |
|---|---|---|---|
| Connection registry, `src/state.rs` | `online_users`: uid → (queue, alive flag), under a mutex | `insert_online_user`, `send_to_user` with lazy cleanup, `remove_online_user` | the entry is always the newest session; cleanup takes only dead entries; a replaced session is told |
| WebSocket session tasks, `handle_im_websocket` in `src/router.rs` | alive flag, unbounded queue, three tasks | accept, read frames, push the backlog, write the queue, every way to end | no open session is silent; replaced sessions end; an old session ending does not disturb a new one |
| Private chat, `handle_biz_msg`, `message_history_handler`, `src/dao.rs` | `im_chat_messages` with `seen` and a unique `client_msg_id` | `private_chat`, `mark_seen`, unseen-sync, history | no message is lost or stored twice; each read is reported once and truthfully; every `private_chat` frame is answered once |
| Group read counts, `mark_group_read_and_get_delta` in `src/dao.rs` | `read_count` of messages, `im_group_read_cursors`, `im_group_members` | `mark_group_read`, group history, join, leave | a reader is counted once for each message, never missed |
| Group chat delivery, `handle_biz_msg`, `group_history_handler`, `src/dao.rs` | `im_group_messages`, `im_group_members`, `im_group_read_cursors` | `group_chat`, `mark_group_read`, group backlog, group history | a message is stored once and reaches every member |
| Group administration, `create_group` in `src/dao.rs` | `im_groups`, `im_group_members` | create (three statements), join, leave | a created group has its owner as a member; ids and names are unique |
| Friends, `add_friend` in `src/dao.rs` | `im_friends`, two rows per pair | `add_friend` (a transaction) | friendship is mutual; a friend that was answered as added stays one |
| Accounts, `src/service.rs` | `im_users`, everything that refers to them | register, login, logout, delete (six statements) | a deleted account leaves nothing behind, and takes nothing of others |
| Authentication, `src/jwt.rs` | none | sign, verify | a token names a registered id |
| Read-only queries | none | conversations, searches, lists of friends, groups and members | |
| Web client, `chat.html` | pending messages, known ids, saved status, the open chat | send, ack, push, delivery update, history, kicked, logout | what it shows follows from what it was told |
| Start and pool, `src/main.rs` | five connections, 3 s acquire timeout | | |

**Interaction.** Handlers and sessions share the registry by direct calls; a delivery is a non-blocking send on the
queue of the registered session, so that a handler never waits for a client. The forwarding task of a session drains
its queue into the socket. Handlers of different sessions, the backlog task of a session and HTTP requests share the
tables and are ordered only by the database, statement by statement. The page and the server exchange frames in both
directions over the one socket, each direction in order, and nothing across a disconnect.

**What is hard.** Two sessions of one user, one replacing the other while its tasks end. The alive flag, which is read
under the mutex and written without it. A recipient who connects while a message to them is being stored. A client that
sends again what may already be stored. Two requests marking the same rows. Sequences of statements that fail in the
middle, or whose HTTP request is abandoned (axum drops the handler at an await), or between which an account that they
refer to is deleted. Two transactions that wait for each other. Frames of two tasks, or an answer and a frame, that
reach one page in the other order. A restart, which loses the registry and everything queued. `PROJECT.json` lists
these hazards with their lines and the properties that cover them.

## Modules

Each action is one database statement, one critical section, or one run of code between two awaits: the grain at which
other tasks can interfere. Payloads, names and times are left out; a message is a model value.

**`OnlineUsers`** models `src/state.rs` and the tasks of `handle_im_websocket`. A connection is one accepted upgrade.
`InsertOnlineUser` registers it, kicks the previous one and starts its tasks; `MainReply`, `SyncPush` and
`SendToUserCheck`/`Push` append to its queue; `FwdWrite` and its variants drain it; `MainExit`, `FwdWriteErr`,
`FwdChannelClosed` and `FwdDropRx` are the ways its tasks end. `send_to_user` is two steps, since the alive flag and
the receiver change without the mutex: `SendToUserCheck` (lookup and alive flag), then `SendToUserPush` or
`SendToUserBroken` (the receiver was dropped in between: mark dead, remove the entry). `SendToUserDead` is the lazy
cleanup. `RemoveOnlineUser` is logout: it removes whichever entry the user has. A closed client may still have writes
accepted (`FwdWriteLost`) or refused (`FwdWriteErr`). The registry keeps the alive flag and sender of a connection by
naming the connection.

**`Registry`** is what the handlers rely on: the current session of each user, and one step that gives it a frame. Only
a closed session is dropped without a logout, and only a closed session loses frames. `OnlineUsers!ImplementsRegistry`
is that specification under a mapping of the socket to the state of a session, and of the queue with what the client
read to its inbox: the check and the push of `send_to_user`, its cleanup, the flags and the queues are one atomic
delivery. `PrivateChat` and `GroupChat` have a delivery of this form.

**`PrivateChat`** models one direction of a private conversation over that registry, whose `send_to_user` is one step
here. Every connection has a main task, which handles one frame at a time (`TakeFrame`, then the statements of
`private_chat` or `mark_seen`), and an unseen-sync task (`SyncSelect`, `SyncPush`); the recipient may have one history
request under way (`HistUpdate`, `HistSelect`, `HistRespond`). `persist_chat_message` is `PersistInsert` and, on a
conflict of `client_msg_id`, `PersistLookup`; then `PushToRecipient` and `AckSender`, in this order. Row ids are
positions in `rows`. The pages are modelled by the handlers of `chat.html` that change state: what arrived (`recv`),
which row ids are known, told, saved in `localStorage` and shown as read; an error frame changes nothing
(`IgnoreError`). `awaited` is a history variable: how many answers to a `private_chat` frame of each message an open
connection still owes. The sender's page may load its history too (`SenderHistSelect`, `SenderHistRespond`), and draws
every item of it anew, from the `seen` column at the time of the select and the status it has saved. The sending client
may send a message again with its `client_msg_id`, as the protocol allows. `Disconnect` loses what is on its way,
`Crash` everything but the rows. With `Faults` each statement may fail and the history request may be abandoned; a sync
task whose select fails ends without sending any (`"failed"`). `get_unseen_messages` has a limit of 200, which the
messages of other peers count against: `SyncLimit` is the number of places they leave at least, and a selection has any
number of places from there on (`Room`).

**`Conversation`** is what the two pages may rely on, without connections, tasks or frames: a keyed message is stored
once, marking marks everything stored so far, the recipient is given stored messages only, the sender is told of a row
at most once and only after it was marked, and shows as read only what it knows and was told or loaded. A message may
be marked without being given: that is what the code does (`chat_seen`). `PrivateChat!ImplementsConversation` is that
specification with the variables of the same names, `rows` and those of the pages.

**`GroupChat`** models the delivery of one group's messages over the same registry. The main task runs `group_chat` as
`CheckMember`, `PersistMessage`, `AckSender`, `SelectMembers` and one `PushToMember` for each member, each of them with
its way to fail; unlike in a private chat the ack goes first. `mark_group_read` is `MarkLatest` and `MarkUpsert`, the
history request `HistSelect` (the page), `HistLatest`, `HistUpsert`, `HistRespond`: the page is selected before the
cursor moves. What is behind the read cursor is the `Backlog` a connection is sent (`SyncSelect`, `SyncPush`).
`JoinGroup` and `LeaveGroup` may come between any two of these; `joined` stands for `joined_at`. Rows appear in id
order here; `GroupRead` has the case of rows that commit out of order. The backlog has a limit over all groups of the
user; `SyncLimit` and `Room` are as in `PrivateChat`. The counts that follow a move of the cursor change nothing here
and are left to `GroupRead`. `recv` is what a page was ever given, in a push or in a history.

**`GroupRead`** models the five statements of `mark_group_read_and_get_delta` (`SelectLatest`, `SelectCursor`,
`UpsertCursor`, `IncrementDelta`, `SelectDelta`) and `PushDelta`, for every viewer and slot: a slot is a call a viewer
may have under way, one in the WebSocket task (frames are handled one after the other) and one per history request.
Around them: sending a message (`CheckMember`, `DrawId`, `CommitInsert`: a `BIGSERIAL` id is drawn before the row is
visible), leaving and joining. `OutOfOrder` lets rows commit out of id order, `Faults` lets a call end at any
statement.

**`ReadReceipts`** is the abstract specification: a viewer moves to a later position and is counted for exactly the
messages of others in between, in one step. `GroupRead!ImplementsReceipts` is that specification under the mapping of a
viewer's position to the position up to which the viewer has been counted (`Counted`): the old cursor while a call has
upserted but not yet incremented, the cursor otherwise; and of an author to `NoUser` until the row is committed.

**`Directory`** models accounts, friends and groups: the tables of `init.sql` as sets of keys, and the requests that
change them. A request of one statement is one action (`Register`, `JoinGroup`, `LeaveGroup`, `PrivateMessage`); of the
others each of `Reqs` is a slot for one under way: `add_friend` (`InsertPair` or `PairThere` for either direction, then
`CommitPairs`), `create_group` (`NameFree`, `InsertGroup`, `InsertOwner`), `group_chat` (`CheckMember`,
`StoreGroupMessage`), and `delete_user` (`DeleteChats`, `SelectOwned`, `DeleteGroup` for each, `DeleteGroupMessages`,
and `DELETE FROM im_users` as `TakeAccount` and `DeleteAccount`, or `AccountGone`). A statement that violates a key or a
foreign key has an action of its own (`PairRefused`, `InsertGroupRefused`, `InsertOwnerRefused`,
`DeleteAccountRefused`), and with `Faults` any may fail (`StatementFails`). Two things hold rows while they wait for
others. `add_friend` is a transaction: its rows are in `own` until it commits, an insert of the same key waits for them,
and so does the delete of a user they refer to. `DELETE FROM im_users` holds the account and its pairs from
`TakeAccount` on, while its `ON DELETE CASCADE` over `user_id` and `friend_id` waits for the pairs that the delete of a
friend has taken; an insert that refers to the account, or finds its row, waits for it. (The foreign keys without a
cascade are checked first, in the order in which `init.sql` creates the tables, so that `DeleteAccountRefused` waits for
no other cascade. A delete takes its pairs in one step here, so that those of two friends that overlap always wait for
each other, where one could also have met the other at its first row and waited for its end.) `WaitsFor` names who waits
for whom, and `AbortVictim` ends one of two that wait for each other: in a circle of deletions of any length each also
waits for its neighbours, since friendship is mutual. The cascades of the other statements are one step each. `born` are
the ids with a token: it outlives the account.

**`Friendship`** is what accounts and friends promise: two users become friends of each other in one step, and an
account leaves with its friendships in one step. `Directory!ImplementsFriendship` is that specification with `users`
for the accounts and `told` for the pairs answered as added.

`MCOnlineUsers`, `MCPrivateChat`, `MCGroupChat`, `MCGroupRead` and `MCDirectory` give the constants their instances and
symmetry sets. `OnlineUsersProofs`, `OnlineUsersRefinement`, `PrivateChatProofs`, `GroupChatProofs`,
`ReadReceiptsProofs`, `GroupReadProofs`, `GroupReadRefinement` and `DirectoryProofs` hold the theorems. The operators
commented as mutants are the plausible bugs that each property is known to detect.

## Runs

| Run | Instance | Shows |
|---|---|---|
| `online_sessions` | one user, two logins, one payload frame, queue bound 1 | `TypeOK` (mutual exclusion on the map, entries of the right user), `CheckedEntryStable`, `LiveIsReachable`, `CleanupOnlyDead`, `ReplacedSessionEnds`, `KickedClientLeaves`, `ImplementsRegistry` |
| `chat_receipts` | two messages, one connection each side, one history of the sender, room for one message or more in a backlog, statements fail | `SeenReportedOnce`, `ReadReceiptHonest`, `EveryFrameAnswered`, `BacklogGivesOldest`, `ReadStays` |
| `chat_retry` | two keyed messages, two sends each, two sender connections, one restart, the recipient reads by history only | `TypeOK`, `OneRowPerKey`, `AckNamesTheMessage`, `EveryFrameAnswered`, `ImplementsConversation` |
| `chat_arrive` | one message, two recipient connections, one restart | `NoLostMessage`, `MessageArrives` |
| `chat_seen` | two messages, one connection each side | violation of `SeenWasReceived` |
| `chat_told` | one message | violation of `ToldMeansRead` |
| `group_delivery` | two messages, one connection each side, room for one message or more in a backlog, the group opened and read, statements of the reader fail | `TypeOK`, `GroupBacklogGivesOldest` |
| `group_arrive` | three members, one of them never connected, one message sent twice, one connection each side, one departure, one restart, statements fail | `AckedIsStored`, `NoLostGroupMessage`, `GroupMessageArrives` |
| `group_exact` | two users, three messages, one call per viewer, one departure | `TypeOK`, `CountExact`, `ShownIsHonest`, `ImplementsReceipts` |
| `group_overlap` | two users, two messages, two calls per viewer, calls cut short, rows out of order | `NoUndercount`, `NoOvercount` |
| `group_double` | two users, one message, two calls per viewer | violation of `CountsReaders` |
| `directory` | two users, one group, one title, two requests under way, private messages in one direction, statements fail | `TypeOK` (keys and references of the tables), `FriendsSymmetric`, `AddedAreFriends`, `CreatedGroupHasOwner`, `DeletedLeavesNothing`, `OpenTransactionsResolve`, `OnlyOwnDataGoes`, `RequestEnds`, `ImplementsFriendship` |

**Why the bounds are enough.** *Registry*: users share nothing but the mutex, so one user suffices; every hazard of the
registry is between a session and its successor, so two logins suffice (the safety properties are also proved for any
number). The queue bound is on payload frames only: kicked frames are always accepted, as in the code, and one payload
frame is enough to have a queue that is not empty when its tasks end. *Private chat*: a receipt race needs the two
markers (a WebSocket task and a history request) and two rows, so that one marks a proper subset of the other; a resend
needs two connections, one message to conflict with and another that a wrong lookup would find; delivery needs a
connection before and one after the gap; a stale history needs one reload (`MaxReloads`). A statement may fail at any
time, so no bound on failures. Two messages and room for one make a backlog that is cut, or not, as others leave room.
`ImplementsConversation` is checked where messages are sent twice and the recipient has the history only; pushes and
`mark_seen` are left to its theorem. *Group chat*: a member who is not the sender, and two messages, of which a backlog
with room for one leaves one out; the cursor moves by both of its paths. `Faults` is the set of users whose statements
may fail: the reader there, everybody in `group_arrive`. `group_arrive` leaves reading out (`Readers` is empty), so that
its liveness has no excuse but a departure, a disconnect or a failed statement, and adds the resend, the restart, and a
member who leaves and joins again; its third member, never connected, makes the loop over the members pass one who is
not reached before the one who is. Nothing is lost across a second connection of the member either: `NoLostGroupMessage`
is proved for any number of connections. *Group counts*: two users give an author and a reader, and messages of one's
own between those of the other; three messages give a call that finds rows before, between and after those it has
counted (for any number of users `CountExact` and `ImplementsReceipts` are proved). Two messages let a row commit behind
a cursor that has passed it. *Directory*: every hazard is between two requests of several statements, of one user or of
two, so two users and two slots suffice; the second of two opposite `add_friend` calls, a message or a group that
appears in the middle of a deletion, and a group whose owner is deleted between its insert and that of its owner all
happen with one group, and so does the deadlock of two friends who delete their accounts at once. Circles of three
deletions need three slots and are left to the proofs (the safety properties are proved for any number of users, groups
and slots). User ids are fresh UUIDs and group ids are generated, so no id is used twice. `MaxMsgs`, `MaxLeaves`,
`MaxSends`, `MaxCrashes`, `MaxReloads`, `MaxGroups`, `MaxQueue`, `Writing`, `Reqs`, `Readers`, `Faults` and `SyncLimit`
are the bounds; `SyncLimit` (the places that others leave of the 200 in the code) is 1 in `chat_receipts` and
`group_delivery`, and above the number of messages elsewhere, where `NoLostMessage` and `NoLostGroupMessage` are
checked. Deadlock checking is off where messages and connections are used up, which is the normal end of a behaviour.

Symmetry is used for users and slots of `GroupRead`, for messages and connections of `PrivateChat` and for messages of
`GroupChat`, in runs of safety properties; `ImplementsReceipts`, `ImplementsConversation` and `ReadStays` have no
liveness part, so that symmetry is sound for them too.

## Fairness

Weak fairness of the server's tasks: tokio polls every task that is ready, the mutex is held over no await, and
database statements return or fail (the pool gives up after three seconds). In `OnlineUsers`, `SendFinish`, the
forwarding task, `MainExit` once the socket is closed, and the end of the backlog task; in `PrivateChat` and
`GroupChat`, the main, sync and history tasks and a page that reads its frames; in `Directory`, strong fairness of the
statements of each request, since PostgreSQL serves those who wait for a row in turn although others may lock it again
in between, and weak fairness of the deadlock detector (`AbortVictim`), which runs after a second of waiting. The one
assumption on a client is that it obeys the kicked frame (`ClientOnKicked`), which is what `chat.html` does; without it
no server action closes the socket. Users, logins, sends, disconnects and restarts are never fair.

## Proofs

TLAPS checks every leaf with SMT, Zenon and LS4. The constants are arbitrary subject to the named assumptions of the
modules (`OnlineUsersAssumption`, `PrivateChatAssumption`, `GroupChatAssumption`, `GroupReadAssumption`,
`DirectoryAssumption`, and the definition `Parameters` of `ReadReceipts`, which is a hypothesis of its theorem). Every
invariant and action property that a passing run checks is stated by a theorem, some under a hypothesis named below.

**Registry** (`OnlineUsersProofs`). `Spec => []IInv`, from which `TypeCorrect`, `EntryStable`, `NoSilentSession` and
the action property `CleanupIsSafe` follow. `IInv` strengthens the properties by two facts they rest on: `FreshConn`, a
connection that was not accepted yet is in no entry of the map (or accepting it could make an old entry live), and
`OpenIsServed`, an open socket has its main and forwarding task running and its alive flag up (or the cleanup of an
entry could hit an open session, and a kicked frame be sent into a queue nobody drains). Its mutual exclusion part is
what makes `CheckedEntryStable` inductive: while a call is between its two steps no other action changes the map.

**Abstract registry** (`OnlineUsersRefinement`). `RegistryImplemented`: `OnlineUsers` implements `Registry`. The
invariant adds to `IInv` that the sync task of a connection starts with it. `InsertOnlineUser` is `Accept`,
`SendToUserPush` is `Deliver`, `MainReply` and `SyncPush` are `Reply`, `SendToUserDead` and `SendToUserBroken` are
`Drop`; the tasks' ends map to `Lose` or to a stutter, since only a session whose client has gone has a task that
ended.

**Private chat** (`PrivateChatProofs`). Each property has an invariant of its own over `TypeOK`, whose part on ids
(they travel only for rows that exist) the others rest on.

- `KeyNamesOneRow`, `AcksAreRight`: rows are only appended, and an insert happens only for a key without a row.
- `ReceiptsAreHonest`, `ReportedOnce`: `Honest` and `Once` say for every row id where a report can be (a task, the
  history request, a frame, the page) that the row is marked, and that no two of these places hold it; both are over
  `Nat`, so that a row that does not exist yet is reported nowhere. Marking takes exactly the unmarked rows, of which
  by `Honest` no report exists.
- `ReadIsKept` (`ReadStays`): `ReloadInv`, whatever is shown as read and is in a loaded history was saved, or was seen
  at its select.
- `FramesAreAnswered` (`EveryFrameAnswered`): `AnswerInv`, the answers an open connection owes for a message are as many
  as its frames on the way to the server, the one its task works on, and its acks and errors on the way back. The lemmas
  count the elements of a queue: appending adds one, taking the head takes one.
- `OldestFirst` (`BacklogGivesOldest`): `DeliveryInv`, an open connection is the registered one, and every unseen row
  is in the selected batch or given otherwise, or comes after `SyncLimit` unseen rows that are (`Reached`). Marking
  marks everything, so that the rows a missed row comes after stay unseen as long as it does. It holds for every limit
  and with failing statements, since a sync task that failed is not synced.
- `NothingIsLost` (`NoLostMessage`), from the same invariant: in every state whose unseen rows fit into one backlog
  (`BacklogFits`, of this state only) a row cannot come after `SyncLimit` others. Without the hypothesis it is false,
  which is what the limit means.
- `ConversationImplemented` (`ImplementsConversation`): a step of the server or the pages is one step of `Conversation`
  or none. `GivenInv`, what frames, batches and histories carry to the recipient is stored; `KnownInv`, what the page
  shows as read in a history it also knows; `Honest` and `Once` give that `Tell` is of marked rows, and of each row
  once.

**Group chat** (`GroupChatProofs`). `AckedAreStored`: `KeysInv`, rows have distinct messages, and every ack on its way
names a stored one. `OldestFirst` (`GroupBacklogGivesOldest`): `OwnInv`, what a connection sends and its task works on
is of its user, or the author of a stored message would not be the one who is not pushed to; and `DeliveryInv` as
above, with members who come and go, moving cursors, restarts and failing statements. `NothingIsLost`
(`NoLostGroupMessage`) is proved under `[]BacklogFits`: that the rows after a cursor have always fitted into one
backlog. That they fit in the present state is not enough here, unlike in a private chat: `MarkUpsert` moves the cursor
to the latest row of an earlier moment, so that a row cut off the backlog may be the only one left after it.

**Directory** (`DirectoryProofs`). `IInv`, for any number of users, groups and requests under way, with any statement
failing. To the properties it adds what a request knows from its earlier statements: `OpFits` (its operation and place
fit), `OwnerKnown` (the groups it works on are of its user), `OpenRows` (what an open transaction holds is exactly the
directions it has passed, of users who exist, or nothing, and then both directions are stored while both users exist),
`RowsDisjoint` (no two transactions hold one key), `HeldIsFree` (an account that a delete has taken exists, is taken by
no other, has no group or group message, and is in no open row) and `NoLeftovers` (once `DeleteChats` has run, only late
messages are left). `DeleteAccount` needs `HeldIsFree`, since a deletion in the middle of a transaction would leave half
a pair.
`OthersKeepTheirs` (`OnlyOwnDataGoes`) follows from it. So does `OpenTransactionsGoOn` (`OpenTransactionsResolve`): by
`HeldIsFree` an open `add_friend` never waits for a deletion, and by `OpenRows` and `RowsDisjoint` one that waits for
another transaction has the forward row that the other waits for. So an `add_friend` with rows is in no circle but with
its opposite; circles of deletions, of any length, exist, and that PostgreSQL breaks them is part of `RequestEnds`.
`FriendshipImplemented` (`ImplementsFriendship`):
`CommitPairs` is `Befriend`, or a stutter when an account it found befriended has gone meanwhile, `DeleteAccount` is
`Leave`; `OpenRows` is again what makes both maps work.

**Abstract read counts** (`ReadReceiptsProofs`). `CountsAreExact`: the atomic step keeps `read_count` equal to the
number of other users past the message. The invariant adds that ids not posted yet are behind nobody and counted by
nobody (`FreshUncounted`); the step adds, for each message in the range, exactly one viewer to the set that is counted.

**Group read counts, types** (`GroupReadProofs`). `TypeCorrect` for every number of users, calls, messages, and with
faults and rows out of order: calls and cursors name committed rows. The lemmas say how a step of one call leaves the
others alone, since `call` is a function of viewers and slots.

**Group read counts, overlapping calls** (`GroupReadProofs`). `NobodyIsLeftOut` and `CountedOncePerCall`, for any
number of slots. `PastInv`: what a call has read is not ahead of the cursor, and a message without a row is counted by
nobody. `CountInv` bounds `read_count` from both sides by sets: `Told`, the readers nothing has gone wrong for, and
`CountedIn`, the pairs of a reader and a slot that will not count the message any more. An increment adds one to the
count and its own pair to `CountedIn`; no step takes a pair out, since a call that starts later has an old cursor past
the message.

**Refinement** (`GroupReadRefinement`). `SerialCallsImplementReceipts`: under `Serial(slot)` (one slot, no faults, ids
that commit in order) every behaviour implements `ReadReceipts`. Its invariant adds to `TypeOK` that the committed rows
are `1..drawn` or all but the last (`InOrder`), and that a call between its cursor select and its increment still knows
the cursor it read (`CallKnows`: nobody else moves this viewer's cursor). `UpsertCursor` is then a stutter, and
`IncrementDelta` the abstract `ReadTo`. `SerialCountsAreExact` composes it with the abstract theorem.
`SerialShownIsHonest`: counts that were selected are at most the number of readers then, and readers only grow, so that
pushes in any order show no more (`ShownInv`). The hypothesis `Serial` is needed: `group_double` is the counterexample
with two slots. `SerialCountsReaders` is the other half of that finding: under `Serial`, the sentence of `init.sql:48`
which `group_double` refutes (`CountsReaders`) holds.

**Only model-checked.** The liveness properties `ReplacedSessionEnds`, `KickedClientLeaves`, `MessageArrives`,
`GroupMessageArrives` and `RequestEnds`. Liveness under fairness and `ENABLED` are not within reach of the provers
used. No module declares a `RECURSIVE` operator.

## What the code does differently from its documents

Each of these is the counterexample of a run.

- `chat_seen`: `init.sql:14` says `seen` means that the recipient saw the message. `mark_seen` marks every unseen row
  of the peer at the time it runs, also rows whose push is later lost with the connection; the backlog skips them then.
- `chat_told`: `doc/api.md:269` says that a delivery update sets its messages to read. The push to the recipient goes
  before the ack to the sender, so the update can overtake the ack, and a page that does not know the id drops it.
- `group_double`: `init.sql:48` defines `read_count` as the number of readers. A `mark_group_read` frame and a history
  request of one viewer can both read the old cursor and count the viewer twice. The same property is violated in the
  other direction with `OutOfOrder` (a row commits behind the cursor) or with `Faults` (a call ends between the upsert
  and the increment).

Seen while modelling, and not stated as a run: logout removes the map entry (`src/router.rs:646`) and leaves the socket
open, which `doc/api.md:46` says it closes; `read_count` keeps readers who have left the group while `total` counts the
members of the moment, so that the status of `doc/schema.md:275-281` can show 2/1; the group backlog is not filtered by
membership or author, so that who left is still sent the group and everybody their own messages, where
`doc/schema.md:298` excludes the sender; after a disconnect the forwarding task waits in `rx.recv()` for as long as the
map entry holds a sender, where `doc/schema.md:570` has it end by a failing send; rows marked by a history request that
then fails are reported to nobody, against `doc/api.md:72`; the group history request selects its page and then marks
up to the latest row, so that a message stored in between is marked without being in the page, and if its push is lost
with the connection no backlog has it, where the comment at `src/dao.rs:770` calls the backlog the messages the user
has not seen yet; two calls may push their counts in the opposite order of their selects, so that a page goes back from
all read to partly read, against `doc/schema.md:262`; the page has no branch for an error frame of a private message
(`chat.html:1460-1475`), so that a message whose insert failed is shown as sending for as long as the page is open,
although the server answered.

## Not modelled

- Authentication beyond the id a token names: comparing passwords, signing, expiry. They are functions of the input, a
  secret and the clock, and change no table. A connection is taken to be of the user its token names.
- Paging of the histories (`before_id`, `LIMIT`): pages are whole histories here.
- The lists of friends, groups, members and conversations and the searches: single `SELECT`s that change nothing. What
  they answer is a matter of joins, patterns, order and limits (a search gives 20 rows, or 50 at most).
- A commit whose reply is lost: a statement that fails is taken to have changed nothing. A client that sends again with
  its `client_msg_id` is right in either case, but `NothingIsLost` and `OldestFirst` do not cover a row that was stored
  by an insert reported as failed, and therefore not pushed.
- In `PrivateChat` and `GroupChat` a user who connects has no other open socket; a login that replaces an open session
  is in `OnlineUsers` only. There `MainExit` follows the close of the client's socket, and an error of
  `receiver.next()` is taken as such a close.
- What the page draws: the list of messages, badges, the conversation cache, timers. A history that is drawn over
  messages pushed meanwhile, and the resend shown twice, are such effects. `recv` is what a page was ever given, and
  `read` the status of a row, not of a DOM element.
- Typing, heartbeat and malformed frames, which change no state, and messages of a group without a `client_msg_id`,
  which the page never sends.
- The connection pool, which appears only as statements that may fail anywhere.
- `get_unseen_group_counts` and `upsert_read_cursor`, which nothing calls, and the programs under `examples/`.

## Plan

Done, in this order: `OnlineUsers` with its proofs, `PrivateChat`, `ReadReceipts`, `GroupRead`, their refinement and
its proofs, `GroupChat`; then `Directory` with its proofs, `Registry` and its refinement, the sender's history in
`PrivateChat`, and the proofs of `PrivateChat`, `GroupChat` and the overlapping calls of `GroupRead`; then the backlog
at its limit, `Conversation` and `Friendship` with their refinements, and who waits for whom in `Directory`.

Left, most important first:

1. The cursor pages of both histories as a pure function against the whole history.
2. The list a page draws, with histories that arrive while pushes do. It needs the DOM list and the caches of
   `chat.html`, and the code promises little of it that could be stated.
3. `Directory` composed with the registry: the sessions of a deleted account, whose messages `late` stands for now.
