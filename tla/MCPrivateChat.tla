---------------------------- MODULE MCPrivateChat ----------------------------
(* Instances of PrivateChat for TLC.                                        *)
EXTENDS PrivateChat, TLC

CONSTANTS m1, m2, a1, a2, b1, b2

\* Messages, and the connections of one page, are interchangeable.
Symmetry == Permutations(SenderConns) \cup Permutations(RecipientConns)
MsgSymmetry == Symmetry \cup Permutations(Msgs)
=============================================================================
