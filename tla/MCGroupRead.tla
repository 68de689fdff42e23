----------------------------- MODULE MCGroupRead -----------------------------
(* Instances of GroupRead for TLC.                                          *)
EXTENDS GroupRead, TLC

CONSTANTS u1, u2, u3, ws, http

\* Users are interchangeable, and so are the slots of a viewer.
Symmetry == Permutations(Users) \cup Permutations(Slots)
=============================================================================
