---------------------------- MODULE MCLiveQuery ----------------------------
(* Instances of LiveQuery for TLC. *)
EXTENDS LiveQuery, TLC

CONSTANTS older, newer, long

\* Results of one byte, and one that is too long to be sent.
Lengths == [v \in Value |-> IF v = long THEN 2 ELSE 1]

Symmetry == UNION {Permutations(set) : set \in {Conn, Key, {older, newer}}}
=============================================================================
