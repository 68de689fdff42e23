---------------------------- MODULE MCOnlineUsers ----------------------------
(* Instances of OnlineUsers for TLC.                                        *)
EXTENDS OnlineUsers, TLC

CONSTANTS u1, c1, c2, c3, push

\* Successive logins of one user.
OneUser == {u1}
OneUserOf == [c \in Conns |-> u1]

OnePush == {push}

\* Logins of one user are interchangeable (safety runs only).
ConnSymmetry == Permutations(Conns)
=============================================================================
