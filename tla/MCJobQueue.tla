----------------------------- MODULE MCJobQueue -----------------------------
(* Instances of JobQueue for TLC. *)
EXTENDS JobQueue

\* scoreA and countA share a key across two lock groups, as the queue_claim
\* test does; scoreA and scoreB share a group.
MixedKind == {"scoreA", "countA", "scoreB"}
MixedKeyOf == [scoreA |-> "a", countA |-> "a", scoreB |-> "b"]
MixedGroupOf == [scoreA |-> "g", countA |-> "h", scoreB |-> "g"]
MixedMaxAttempts == [scoreA |-> 2, countA |-> 2, scoreB |-> 1]

OneKind == {"scoreA"}
OneKeyOf == [k \in OneKind |-> "a"]
OneGroupOf == [k \in OneKind |-> "g"]
OneMaxAttempts == [k \in OneKind |-> 3]

\* A tick of 5 seconds capped after the first doubling.
ShortRetry == [n \in 0..10 |-> Lesser(1, 2^n)]

Now == {0}
NowOrLater == {0, 1}
=============================================================================
