--------------------------- MODULE OrderedChannel ---------------------------
(***************************************************************************)
(* What a reliable ordered channel promises: the payloads handed to it on  *)
(* one channel come out in that order, each once, none missing but those   *)
(* the receiver gave up, and those never come out.                         *)
(***************************************************************************)
EXTENDS Integers, Sequences, SequencesExt

CONSTANTS Channel

VARIABLES
    made,       \* the payloads handed over, in order, with their channel
    got,        \* the payloads that came out, by channel
    expired     \* the payloads the receiver gave up

Waiting(c) == {id \in DOMAIN made : made[id].chan = c /\ id \notin expired \cup Range(got[c])}

Init ==
    /\ made = <<>>
    /\ got = [c \in Channel |-> <<>>]
    /\ expired = {}

Make ==
    /\ Len(made') = Len(made) + 1
    /\ IsPrefix(made, made')
    /\ UNCHANGED <<got, expired>>

\* One datagram may let several payloads out: the first of those that wait.
Release(c) ==
    LET old == 1..Len(got[c])
        new == DOMAIN got'[c] \ old
        out == {got'[c][i] : i \in new}
    IN  /\ new # {}
        /\ got' = [got EXCEPT ![c] = got'[c]]
        /\ \A i \in old : i \in DOMAIN got'[c] /\ got'[c][i] = got[c][i]
        /\ \A i, j \in new : i < j => got'[c][i] < got'[c][j]
        /\ out \subseteq Waiting(c)
        /\ \A id \in Waiting(c) \ out : \A later \in out : later < id
        /\ UNCHANGED <<made, expired>>

GiveUp ==
    /\ \E c \in Channel : \E id \in Waiting(c) : expired' = expired \cup {id}
    /\ UNCHANGED <<made, got>>

Next == Make \/ GiveUp \/ \E c \in Channel : Release(c)

Spec == Init /\ [][Next]_<<made, got, expired>>
=============================================================================
