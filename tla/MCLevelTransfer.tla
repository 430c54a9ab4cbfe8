--------------------------- MODULE MCLevelTransfer ---------------------------
(***************************************************************************)
(* LevelTransfer for TLC.  The identities of levels are interchangeable,   *)
(* and so are the contents.                                                *)
(***************************************************************************)
EXTENDS LevelTransfer, TLC

Symmetry == Permutations(Uid) \cup Permutations(Content)
=============================================================================
