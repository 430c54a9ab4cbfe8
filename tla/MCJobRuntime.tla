---------------------------- MODULE MCJobRuntime ----------------------------
(* Instances of JobRuntime for TLC. *)
EXTENDS JobRuntime, TLC

\* Two tracks of one group, each with a key of its own.
GroupKind == {"scoreA", "scoreB"}
GroupKeyOf == [scoreA |-> "a", scoreB |-> "b"]
GroupGroupOf == [k \in GroupKind |-> "g"]
GroupMaxAttempts == [k \in GroupKind |-> 2]

\* Requests that may run side by side.
FreeKind == {"audit"}
FreeKeyOf == [k \in FreeKind |-> NoKey]
FreeGroupOf == [k \in FreeKind |-> NoGroup]
FreeMaxAttempts == [k \in FreeKind |-> 2]

ShortRetry == [n \in 0..10 |-> 1]

Now == {0}

Processes == Permutations(Process)
=============================================================================
