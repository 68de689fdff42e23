----------------------------- MODULE Friendship -----------------------------
(* What accounts and friends promise: two users become friends of each      *)
(* other in one step, which is the step that may be answered "friend added", *)
(* and an account leaves together with all its friendships.                  *)
CONSTANT Users

VARIABLES accounts,  \* registered users
          friends,   \* pairs <<u, v>>: v is in the list of u
          answered   \* pairs answered as added, of accounts that exist

fvars == <<accounts, friends, answered>>

Init == accounts = {} /\ friends = {} /\ answered = {}

Register(u) ==
    /\ u \notin accounts
    /\ accounts' = accounts \cup {u}
    /\ UNCHANGED <<friends, answered>>

Befriend(u, v) ==
    /\ u # v /\ {u, v} \subseteq accounts
    /\ friends' = friends \cup {<<u, v>>, <<v, u>>}
    /\ answered' = answered \cup {<<u, v>>}
    /\ UNCHANGED accounts

Of(u, pairs) == {p \in pairs : u \in {p[1], p[2]}}

Leave(u) ==
    /\ accounts' = accounts \ {u}
    /\ friends' = friends \ Of(u, friends)
    /\ answered' = answered \ Of(u, answered)

Next ==
    \/ \E u \in Users : Register(u) \/ Leave(u)
    \/ \E u, v \in Users : Befriend(u, v)

Spec == Init /\ [][Next]_fvars
=============================================================================
