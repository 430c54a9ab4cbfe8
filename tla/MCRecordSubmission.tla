-------------------------- MODULE MCRecordSubmission --------------------------
(***************************************************************************)
(* RecordSubmission for TLC.  The sessions are interchangeable; the ids of *)
(* users and levels are not, for their order is the order of locks.        *)
(***************************************************************************)
EXTENDS RecordSubmission

Symmetry == Permutations(Session)
=============================================================================
