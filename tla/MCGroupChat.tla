----------------------------- MODULE MCGroupChat -----------------------------
(* Instances of GroupChat for TLC.                                          *)
EXTENDS GroupChat, TLC

CONSTANTS a, b, z, a1, a2, b1, b2, m1, m2

\* The members; a composes the messages, z is never connected.
TwoUsers == {a, b}
ThreeUsers == {a, b, z}
OwnerOf == [c \in Conns |-> IF c \in {a1, a2} THEN a ELSE b]
ByA == [k \in Msgs |-> a]

\* The messages of one author, and the connections of one page, are interchangeable.
Symmetry == Permutations(Msgs) \cup Permutations(Conns \cap {b1, b2})
=============================================================================
