------------------------------ MODULE Registry ------------------------------
(* What the registry of connected users promises to the handlers that push  *)
(* frames: every user has at most one current session, a frame for a user   *)
(* reaches the session that is current at that moment in one step, only a    *)
(* closed session is dropped without a logout, and only a closed session     *)
(* loses frames.                                                             *)
CONSTANTS Users,    \* user ids
          Sessions, \* WebSocket connections
          UserOf,   \* the user a session was authenticated for
          Frames,   \* payload frames
          Kicked,   \* the frame that tells a session that it was replaced
          NoSession \* "no current session"

VARIABLES current,  \* user -> the session frames for the user are given to
          state,    \* session -> "new", "open" or "closed"
          inbox,    \* session -> frames given to it and not lost
          out       \* sessions that were current when their user logged out

rvars == <<current, state, inbox, out>>

Init ==
    /\ current = [u \in Users |-> NoSession]
    /\ state = [s \in Sessions |-> "new"]
    /\ inbox = [s \in Sessions |-> {}]
    /\ out = {}

Give(s, f) == inbox' = [inbox EXCEPT ![s] = @ \cup {f}]

\* A closed session may miss what it is given.
GiveOrMiss(s, f) == Give(s, f) \/ (state[s] = "closed" /\ UNCHANGED inbox)

\* A session becomes the current one of its user; the one it replaces is told.
Accept(s) ==
    /\ state[s] = "new"
    /\ state' = [state EXCEPT ![s] = "open"]
    /\ current' = [current EXCEPT ![UserOf[s]] = s]
    /\ IF current[UserOf[s]] = NoSession THEN UNCHANGED inbox
       ELSE GiveOrMiss(current[UserOf[s]], Kicked)
    /\ UNCHANGED out

Deliver(u, f) ==
    /\ current[u] # NoSession
    /\ Give(current[u], f)
    /\ UNCHANGED <<current, state, out>>

\* The handlers of a session answer it whether or not it is the current one.
Reply(s, f) ==
    /\ state[s] # "new"
    /\ GiveOrMiss(s, f)
    /\ UNCHANGED <<current, state, out>>

Close(s) ==
    /\ state[s] = "open"
    /\ state' = [state EXCEPT ![s] = "closed"]
    /\ UNCHANGED <<current, inbox, out>>

Lose(s) ==
    /\ state[s] = "closed"
    /\ \E kept \in SUBSET inbox[s] : inbox' = [inbox EXCEPT ![s] = kept]
    /\ UNCHANGED <<current, state, out>>

Leave(u) ==
    /\ current' = [current EXCEPT ![u] = NoSession]
    /\ UNCHANGED <<state, inbox>>

Drop(u) ==
    /\ current[u] # NoSession
    /\ state[current[u]] = "closed"
    /\ Leave(u)
    /\ UNCHANGED out

Logout(u) ==
    /\ out' = out \cup ({current[u]} \ {NoSession})
    /\ Leave(u)

Next ==
    \/ \E s \in Sessions : Accept(s) \/ Close(s) \/ Lose(s) \/ \E f \in Frames : Reply(s, f)
    \/ \E u \in Users : Drop(u) \/ Logout(u) \/ \E f \in Frames \cup {Kicked} : Deliver(u, f)

Spec == Init /\ [][Next]_rvars
=============================================================================
