----------------------------- MODULE MCDirectory -----------------------------
(* Instances of Directory for TLC.                                          *)
EXTENDS Directory, TLC

CONSTANTS ann, bob, name1, name2

OwnNames == ann :> name1 @@ bob :> name2

AnnToBob == {<<ann, bob>>}
=============================================================================
