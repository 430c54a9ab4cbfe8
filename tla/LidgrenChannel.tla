--------------------------- MODULE LidgrenChannel ---------------------------
(***************************************************************************)
(* LidgrenClient (packages/core, zeepnet/lidgrenClient.ts): a connection,  *)
(* from connect() to the close of its socket, and its reliable ordered     *)
(* channels, in one direction, over a datagram network that loses, repeats *)
(* and reorders.  crates/core, zeepnet/lidgren.rs is the same protocol.    *)
(*                                                                         *)
(* conn and snd are the client's connection and its sending half, rcv is   *)
(* the receiving half of its peer.  A client has both halves, and the peer *)
(* is the game's own library; it is taken to run the same protocol.        *)
(*                                                                         *)
(* A transfer is one payload; it is split into chunks, each sent as one    *)
(* message with a sequence number of its channel, modulo Modulus.  Every   *)
(* message also has its absolute number n, which the code does not have:   *)
(* the assumption Timely and the properties speak of it.                   *)
(***************************************************************************)
EXTENDS Integers, Sequences, FiniteSets, SequencesExt

CONSTANTS
    Channel,        \* the sequence channels in use
    Modulus,        \* SEQUENCE_MODULUS
    SendWindow,     \* SEND_WINDOW: pending messages, of all channels together
    ReceiveWindow,  \* RECEIVE_WINDOW: how far ahead of the expected number
    MaxAttempts,    \* MAX_SEND_ATTEMPTS
    MaxOutgoing,    \* MAX_OUTGOING_TRANSFERS: open transfers
    MaxGroups,      \* MAX_FRAGMENT_GROUPS
    MaxHandshakes,  \* connect messages before the handshake times out
    ChunkCounts,    \* the numbers of chunks payloads may have
    MaxTransfers    \* bound: transfers asked for

ASSUME WindowAssumption ==
    /\ Modulus \in Nat /\ Modulus % 2 = 0
    /\ SendWindow \in Nat \ {0}
    /\ ReceiveWindow \in Nat /\ SendWindow <= ReceiveWindow
    /\ 2 * ReceiveWindow < Modulus

ASSUME LimitAssumption ==
    /\ MaxAttempts \in Nat \ {0}
    /\ MaxOutgoing \in Nat
    /\ MaxGroups \in Nat
    /\ MaxHandshakes \in Nat \ {0}
    /\ ChunkCounts \subseteq Nat \ {0}
    /\ \E most \in ChunkCounts : \A count \in ChunkCounts : count <= most
    /\ MaxTransfers \in Nat

VARIABLES
    conn,       \* connection: socket, connected, closing, flushing, closed,
                \* attempts; history: what the caller of connect() was told
    snd,        \* sender: transfers, queue, seq, pending
    rcv,        \* receiver: expected, withheld, fragments, open
    net,        \* messages under way
    acks,       \* acknowledgements under way
    made,       \* history: the transfers asked for, in order
    sent,       \* history: messages first sent, by channel
    outcome,    \* history: what the caller of each transfer was told
    got,        \* history: transfers released to the receiver, by channel
    expired     \* history: transfers whose fragments expired unfinished

peerVars == <<rcv, got, expired>>
vars == <<conn, snd, peerVars, net, acks, made, sent, outcome>>

Id == 1..MaxTransfers
Seqno == 0..(Modulus - 1)

\* A message: chunk number `chunk` of transfer `id`.
Message == [chan : Channel, seq : Seqno, n : Nat, id : Id, chunk : Nat]

Ack == [chan : Channel, seq : Seqno, n : Nat]

AckOf(m) == [chan |-> m.chan, seq |-> m.seq, n |-> m.n]

-----------------------------------------------------------------------------

\* relativeSequence: how far seq is ahead of expected, from -Modulus/2 on.
Relative(seq, expected) ==
    ((seq - expected + Modulus + Modulus \div 2) % Modulus) - Modulus \div 2

NextSeq(seq) == (seq + 1) % Modulus

Empty == [x \in {} |-> {}]

Without(f, keys) == [k \in DOMAIN f \ keys |-> f[k]]

With(f, key, value) ==
    [k \in DOMAIN f \cup {key} |-> IF k = key THEN value ELSE f[k]]

Init ==
    /\ conn = [socket |-> "none", connected |-> FALSE, closing |-> FALSE,
               flushing |-> FALSE, closed |-> FALSE, attempts |-> 0, told |-> "none"]
    /\ snd = [transfers |-> Empty, queue |-> <<>>,
              seq |-> [c \in Channel |-> 0], pending |-> Empty]
    /\ rcv = [open |-> TRUE, expected |-> [c \in Channel |-> 0],
              withheld |-> Empty, fragments |-> Empty]
    /\ net = {}
    /\ acks = {}
    /\ made = <<>>
    /\ sent = [c \in Channel |-> 0]
    /\ outcome = Empty
    /\ got = [c \in Channel |-> <<>>]
    /\ expired = {}

-----------------------------------------------------------------------------
\* The end of the connection.

\* rejectReliable: every caller still waiting is told of the end.
RejectReliable ==
    /\ snd' = [snd EXCEPT !.transfers = Empty, !.queue = <<>>, !.pending = Empty]
    /\ outcome' = [id \in DOMAIN outcome \cup DOMAIN snd.transfers |->
                     IF id \in DOMAIN outcome THEN outcome[id] ELSE "error"]

\* rejectConnected, which does nothing once the promise is settled.
Refused(c) == IF c.told = "pending" THEN [c EXCEPT !.told = "error"] ELSE c

\* fail: for a client that is not closing yet.
Fail ==
    /\ conn.socket = "open" /\ ~conn.closing
    /\ conn' = Refused([conn EXCEPT !.closing = TRUE, !.socket = "shut"])
    /\ RejectReliable

\* The peer disconnects or is not heard for 25 s, the socket fails, or a message
\* is malformed.
Disconnected ==
    /\ Fail
    /\ UNCHANGED <<peerVars, net, acks, made, sent>>

\* close.  A connected client first sends its disconnect message; a client
\* without a socket is closed at once.
Close ==
    /\ ~conn.closing
    /\ conn' = Refused([conn EXCEPT
                  !.closing = TRUE,
                  !.flushing = conn.connected,
                  !.closed = conn.socket = "none",
                  !.socket = IF conn.socket = "none" \/ conn.connected THEN @ ELSE "shut"])
    /\ UNCHANGED <<snd, peerVars, net, acks, made, sent, outcome>>

\* The disconnect message is sent, or its 500 ms have passed.
FlushEnds ==
    /\ conn.flushing
    /\ conn' = [conn EXCEPT !.flushing = FALSE, !.socket = "shut"]
    /\ UNCHANGED <<snd, peerVars, net, acks, made, sent, outcome>>

\* Mutant: nobody tells the callers whose transfers close() cut short.
FinishClosedSilently ==
    /\ conn.socket = "shut" /\ ~conn.closed
    /\ conn' = [conn EXCEPT !.closed = TRUE]
    /\ UNCHANGED <<snd, peerVars, net, acks, made, sent, outcome>>

\* finishClosed, at the socket's close event.
FinishClosed ==
    /\ conn.socket = "shut" /\ ~conn.closed
    /\ conn' = [conn EXCEPT !.closed = TRUE]
    /\ RejectReliable
    /\ UNCHANGED <<peerVars, net, acks, made, sent>>

-----------------------------------------------------------------------------
\* The handshake.

\* A client is connected once, and not after it was closed.
Connect ==
    /\ conn.socket = "none" /\ ~conn.closing
    /\ conn' = [conn EXCEPT !.socket = "open", !.told = "pending"]
    /\ UNCHANGED <<snd, peerVars, net, acks, made, sent, outcome>>

Connecting == conn.socket = "open" /\ ~conn.connected /\ ~conn.closing

\* sendConnect, every 3 s.
SendConnect ==
    /\ Connecting
    /\ conn.attempts < MaxHandshakes
    /\ conn' = [conn EXCEPT !.attempts = @ + 1]
    /\ UNCHANGED <<snd, peerVars, net, acks, made, sent, outcome>>

\* Mutant: the timer just stops.
HandshakeForgotten ==
    /\ Connecting
    /\ conn.attempts = MaxHandshakes
    /\ UNCHANGED vars

HandshakeTimeout ==
    /\ Connecting
    /\ conn.attempts = MaxHandshakes
    /\ Disconnected

\* handleConnectResponse; one that comes again changes nothing, and one of
\* another application ends the connection.  The attempts are not looked at
\* any more.
ConnectResponse ==
    /\ Connecting
    /\ conn.attempts > 0
    /\ conn' = [conn EXCEPT !.connected = TRUE, !.attempts = 0, !.told = "ok"]
    /\ UNCHANGED <<snd, peerVars, net, acks, made, sent, outcome>>

\* Timers run and datagrams are taken.
Live == conn.connected /\ ~conn.closing

-----------------------------------------------------------------------------
\* The sender.  One round of the loop of flushReliableQueue takes the next
\* chunk of the first queued transfer; the loop is a step of its caller.

CanSend(s) == Cardinality(DOMAIN s.pending) < SendWindow /\ s.queue # <<>>

SendNext(f) ==
    LET id == Head(f.snd.queue)
        t == f.snd.transfers[id]
        m == [chan |-> t.chan, seq |-> f.snd.seq[t.chan], n |-> f.sent[t.chan],
              id |-> id, chunk |-> t.next]
    IN  [snd |->
           [f.snd EXCEPT
              !.transfers[id].next = @ + 1,
              !.queue = IF t.next + 1 >= t.chunks THEN Tail(@) ELSE @,
              !.seq[t.chan] = NextSeq(@),
              !.pending = With(@, <<t.chan, m.seq>>, [msg |-> m, attempts |-> 1])],
         net |-> f.net \cup {m},
         sent |-> [f.sent EXCEPT ![t.chan] = @ + 1]]

\* The number of chunks of the largest payload.
MostChunks == CHOOSE most \in ChunkCounts : \A count \in ChunkCounts : count <= most

\* The loop ends after at most so many rounds.
Rounds(s) == IF CanSend(s) THEN Len(s.queue) * MostChunks ELSE 0

FlushNext(f) == IF CanSend(f.snd) THEN SendNext(f) ELSE f

\* The state after the loop, run from sender s with messages ms under way.
Flushed(s, ms) ==
    LET round[k \in 0..Rounds(s)] ==
          IF k = 0 THEN [snd |-> s, net |-> ms, sent |-> sent] ELSE FlushNext(round[k - 1])
    IN  round[Rounds(s)]

Flush(s, ms) ==
    LET end == Flushed(s, ms)
    IN  snd' = end.snd /\ net' = end.net /\ sent' = end.sent

\* sendReliableOrdered.  A transfer over the limit, or after the connection
\* closed, is refused and changes nothing.
EnqueueTransfer(c, count) ==
    /\ Len(made) < MaxTransfers
    /\ Live
    /\ Cardinality(DOMAIN snd.transfers) < MaxOutgoing
    /\ made' = Append(made, [chan |-> c, chunks |-> count])
    /\ LET id == Len(made')
           t == [chan |-> c, chunks |-> count, next |-> 0, remaining |-> count]
       IN  Flush([snd EXCEPT !.transfers = With(@, id, t),
                             !.queue = Append(@, id)], net)
    /\ UNCHANGED <<conn, peerVars, acks, outcome>>

\* Mutant: an acknowledged message stays pending, and counts again.
AcknowledgedAgain(s, key) ==
    [s EXCEPT !.transfers[s.pending[key].msg.id].remaining = @ - 1]

\* An acknowledgement takes its message off the pending ones; with its last
\* chunk acknowledged a transfer is complete.
Acknowledged(s, key) ==
    LET id == s.pending[key].msg.id
        left == s.transfers[id].remaining - 1
    IN  [s EXCEPT !.pending = Without(@, {key}),
                  !.transfers = IF left = 0 THEN Without(@, {id})
                                ELSE [@ EXCEPT ![id].remaining = left]]

ReceiveAck(a) ==
    /\ Live
    /\ LET key == <<a.chan, a.seq>>
           s == IF key \in DOMAIN snd.pending THEN Acknowledged(snd, key) ELSE snd
       IN  /\ Flush(s, net)
           /\ outcome' = [id \in DOMAIN outcome \cup
                                   (DOMAIN snd.transfers \ DOMAIN s.transfers) |->
                            IF id \in DOMAIN outcome THEN outcome[id] ELSE "ok"]
    /\ acks' \in {acks, acks \ {a}}
    /\ UNCHANGED <<conn, peerVars, made>>

MessagesOf(keys) == {snd.pending[k].msg : k \in keys}

Spent(keys) == {k \in keys : snd.pending[k].attempts >= MaxAttempts}

Tried(due) ==
    [k \in DOMAIN snd.pending |->
       IF k \in due THEN [snd.pending[k] EXCEPT !.attempts = @ + 1] ELSE snd.pending[k]]

\* maintainReliableSends, with the messages whose resend delay has passed.
Resend(due) ==
    /\ Live
    /\ Spent(due) = {}
    /\ Flush([snd EXCEPT !.pending = Tried(due)], net \cup MessagesOf(due))
    /\ UNCHANGED <<conn, peerVars, acks, made, outcome>>

\* A message that was sent too often ends the connection; some of the others
\* that are due may have been sent before it was met.
SendTimeout(due) ==
    /\ Live
    /\ Spent(due) # {}
    /\ \E resent \in SUBSET (due \ Spent(due)) : net' = net \cup MessagesOf(resent)
    /\ Fail
    /\ UNCHANGED <<peerVars, acks, made, sent>>

-----------------------------------------------------------------------------
\* The receiver.

\* onPayload.
Pushed(r, id) == [r EXCEPT !.got[made[id].chan] = Append(@, id)]

Chunks(r, id) == IF id \in DOMAIN r.fragments THEN r.fragments[id] ELSE {}

\* release: a payload of one chunk is passed on, a chunk of a larger one joins
\* its group, and the last one passes the payload on.
Released(r, m) ==
    LET chunks == Chunks(r.rcv, m.id) \cup {m.chunk}
    IN  IF ~r.rcv.open THEN r
        ELSE IF made[m.id].chunks = 1 THEN Pushed(r, m.id)
        ELSE IF Cardinality(chunks) = made[m.id].chunks
        THEN Pushed([r EXCEPT !.rcv.fragments = Without(@, {m.id})], m.id)
        ELSE IF Cardinality(DOMAIN r.rcv.fragments \ {m.id}) >= MaxGroups
        THEN [r EXCEPT !.rcv.open = FALSE]
        ELSE [r EXCEPT !.rcv.fragments = With(@, m.id, chunks)]

\* The keys of the withheld messages that follow on a message, without a gap.
Following(m) ==
    LET key(k) == <<m.chan, (m.seq + k) % Modulus>>
        held == {k \in 1..ReceiveWindow :
                   \A j \in 1..k : key(j) \in DOMAIN rcv.withheld}
    IN  [k \in 1..Cardinality(held) |-> key(k)]

\* The expected message and all that follow it are released.
Advance(m) ==
    LET run == Following(m)
        round[k \in 0..Len(run)] ==
          IF k = 0 THEN Released([rcv |-> rcv, got |-> got], m)
          ELSE Released(round[k - 1], rcv.withheld[run[k]])
        end == round[Len(run)]
    IN  /\ rcv' = IF end.rcv.open
                  THEN [end.rcv EXCEPT
                          !.expected[m.chan] = (m.seq + Len(run) + 1) % Modulus,
                          !.withheld = Without(@, Range(run))]
                  ELSE [end.rcv EXCEPT !.withheld = Empty, !.fragments = Empty]
        /\ got' = end.got

\* Mutant: a message ahead of the expected one is not kept.
WithholdNothing(m) == UNCHANGED <<rcv, got>>

\* Mutant: a message ahead of the expected one is released at once.
WithholdReleased(m) ==
    LET end == Released([rcv |-> rcv, got |-> got], m)
    IN  rcv' = end.rcv /\ got' = end.got

Withhold(m) ==
    /\ rcv' = [rcv EXCEPT !.withheld = With(@, <<m.chan, m.seq>>, m)]
    /\ UNCHANGED got

Discard == UNCHANGED <<rcv, got>>

\* receiveReliableOrdered: every message is acknowledged, whether it is
\* released, withheld for a gap before it, or discarded.
Deliver(m) ==
    LET ahead == Relative(m.seq, rcv.expected[m.chan])
    IN  /\ rcv.open
        /\ acks' = acks \cup {AckOf(m)}
        /\ net' \in {net, net \ {m}}
        /\ \/ ahead = 0 /\ Advance(m)
           \/ ahead \in 1..ReceiveWindow /\ Withhold(m)
           \/ ahead \notin 0..ReceiveWindow /\ Discard
        /\ UNCHANGED <<conn, snd, made, sent, outcome, expired>>

\* The 30 s of a fragment group have passed.
ExpireFragments(id) ==
    /\ rcv.open
    /\ rcv' = [rcv EXCEPT !.fragments = Without(@, {id})]
    /\ expired' = expired \cup {id}
    /\ UNCHANGED <<conn, snd, net, acks, made, sent, outcome, got>>

Lose ==
    /\ \/ \E m \in net : net' = net \ {m} /\ UNCHANGED acks
       \/ \E a \in acks : acks' = acks \ {a} /\ UNCHANGED net
    /\ UNCHANGED <<conn, snd, peerVars, made, sent, outcome>>

-----------------------------------------------------------------------------

Maintain ==
    \E due \in (SUBSET DOMAIN snd.pending) \ {{}} : Resend(due) \/ SendTimeout(due)

Next ==
    \/ Connect
    \/ SendConnect
    \/ HandshakeTimeout
    \/ ConnectResponse
    \/ Disconnected
    \/ Close
    \/ FlushEnds
    \/ FinishClosed
    \/ \E c \in Channel, count \in ChunkCounts : EnqueueTransfer(c, count)
    \/ \E a \in acks : ReceiveAck(a)
    \/ Maintain
    \/ \E m \in net : Deliver(m)
    \/ \E id \in DOMAIN rcv.fragments : ExpireFragments(id)
    \/ Lose

Spec == Init /\ [][Next]_vars

\* What the code does not ensure and the network and the resend delay have to:
\* while a message is unacknowledged no more than ReceiveWindow newer ones are
\* sent on its channel, and no datagram is older than half the numbers.
Timely ==
    /\ \A key \in DOMAIN snd.pending :
          sent[key[1]] - 1 - snd.pending[key].msg.n <= ReceiveWindow
    /\ \A m \in net \cup acks : sent[m.chan] - m.n <= Modulus \div 2

TimelySpec == Init /\ [][Next /\ Timely']_vars
-----------------------------------------------------------------------------

Transfer == [chan : Channel, chunks : ChunkCounts, next : Nat, remaining : Nat]

\* The type invariant.
TypeOK ==
    /\ conn \in [socket : {"none", "open", "shut"}, connected : BOOLEAN, closing : BOOLEAN,
                 flushing : BOOLEAN, closed : BOOLEAN, attempts : 0..MaxHandshakes,
                 told : {"none", "pending", "ok", "error"}]
    /\ snd.queue \in Seq(DOMAIN snd.transfers)
    /\ snd.transfers \in [DOMAIN snd.transfers -> Transfer]
    /\ DOMAIN snd.transfers \subseteq Id
    /\ snd.seq \in [Channel -> Seqno]
    /\ DOMAIN snd.pending \subseteq Channel \X Seqno
    /\ \A key \in DOMAIN snd.pending :
          /\ snd.pending[key].msg \in Message
          /\ key = <<snd.pending[key].msg.chan, snd.pending[key].msg.seq>>
          /\ snd.pending[key].attempts \in 1..MaxAttempts
    /\ Cardinality(DOMAIN snd.pending) <= SendWindow
    /\ rcv.expected \in [Channel -> Seqno]
    /\ DOMAIN rcv.fragments \subseteq Id
    /\ net \subseteq Message
    /\ acks \subseteq Ack

\* A transfer is owed as many acknowledgements as it has chunks that are unsent
\* or still resent: each message is retried until it is acknowledged, and each
\* counts once, however often its acknowledgement arrives.
RetriedUntilAcked ==
    \A id \in DOMAIN snd.transfers :
        LET t == snd.transfers[id]
        IN  t.remaining = t.chunks - t.next
              + Cardinality({k \in DOMAIN snd.pending : snd.pending[k].msg.id = id})

\* A caller who was told that its payload was sent can rely on it: the receiver
\* has every chunk, released or withheld, unless it gave the payload up or has
\* closed.
AckedIsReceived ==
    \A id \in DOMAIN outcome :
        outcome[id] = "ok" /\ rcv.open /\ id \notin expired \cup Range(got[made[id].chan]) =>
            Chunks(rcv, id)
              \cup {rcv.withheld[k].chunk :
                      k \in {h \in DOMAIN rcv.withheld : rcv.withheld[h].id = id}}
            = 0..(made[id].chunks - 1)

A == INSTANCE OrderedChannel WITH made <- made, got <- got, expired <- expired

\* Payloads come out in the order they were handed over.
Ordered == A!Spec

\* The client's timers run, the disconnect message has its timeout, and the
\* socket reports its close.
TimelyFairSpec ==
    /\ TimelySpec
    /\ WF_vars(Maintain /\ Timely')
    /\ WF_vars(SendConnect) /\ WF_vars(HandshakeTimeout)
    /\ WF_vars(FlushEnds) /\ WF_vars(FinishClosed)

\* Every send is answered, whatever the network does and however the connection
\* ends.
SendSettles == \A id \in Id : id \in DOMAIN made ~> id \in DOMAIN outcome

\* connect() is answered whether the peer responds or not, and a client that
\* closes, by itself or asked to, closes.
ConnectionSettles ==
    /\ conn.told = "pending" ~> conn.told \in {"ok", "error"}
    /\ conn.closing ~> conn.closed
=============================================================================
