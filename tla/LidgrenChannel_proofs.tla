------------------------ MODULE LidgrenChannel_proofs ------------------------
(***************************************************************************)
(* LidgrenChannel.tla while the network is timely, for any windows,        *)
(* limits, transfers and channels: a message is retried until it is        *)
(* acknowledged and counts once, what is acknowledged was received, and    *)
(* payloads come out as OrderedChannel.tla promises.                       *)
(***************************************************************************)
EXTENDS LidgrenChannel, TLAPS, FiniteSetTheorems, SequenceTheorems, WellFoundedInduction

-----------------------------------------------------------------------------
(* Numbers.                                                                *)

\* The constants.
LEMMA ConstantsAre ==
    /\ Modulus \in Nat \ {0} /\ SendWindow \in Nat \ {0} /\ ReceiveWindow \in Nat
    /\ SendWindow + ReceiveWindow < Modulus
    /\ ChunkCounts \subseteq Nat \ {0} /\ MostChunks \in Nat
<1>1. PICK most \in ChunkCounts : \A count \in ChunkCounts : count <= most
  BY LimitAssumption
<1>2. MostChunks \in ChunkCounts
  BY <1>1 DEF MostChunks
<1> QED
  BY <1>2, WindowAssumption, LimitAssumption

\* Quotient and remainder.
LEMMA Division ==
    ASSUME NEW m \in Nat \ {0}, NEW a \in Nat
    PROVE  a = m * (a \div m) + (a % m) /\ a \div m \in Nat /\ a % m \in 0..(m - 1)
<1>1. a = m * (a \div m) + (a % m)
  OBVIOUS
<1>2. a \div m \in Nat
  OBVIOUS
<1>3. a % m \in 0..(m - 1)
  OBVIOUS
<1> QED
  BY <1>1, <1>2, <1>3

\* They are the only ones.
Splits(a, m, q, r) == a = m * q + r /\ r \in 0..(m - 1)

LEMMA DivisionIs ==
    ASSUME NEW m \in Nat \ {0}, NEW q \in Int, NEW r, NEW a \in Int, Splits(a, m, q, r)
    PROVE  a % m = r
<1>1. a = m * q + r /\ r \in 0..(m - 1)
  BY DEF Splits
<1> QED
  BY <1>1

\* Two numbers with the same remainder are far apart.
LEMMA SameRemainder ==
    ASSUME NEW m \in Nat \ {0}, NEW a \in Nat, NEW b \in Nat, a < b, a % m = b % m
    PROVE  b - a >= m
<1>1. PICK p \in Nat : a = m * p + (a % m)
  BY Division
<1>2. PICK q \in Nat : b = m * q + (b % m)
  BY Division
<1>3. a % m \in Nat
  BY Division
<1>4. m * p < m * q
  BY <1>1, <1>2, <1>3
<1>5. p < q
  BY <1>4
<1>6. m * q >= m * (p + 1)
  BY <1>5
<1>7. m * (p + 1) = m * p + m
  OBVIOUS
<1> QED
  BY <1>1, <1>2, <1>3, <1>6, <1>7

\* The remainders follow one another.
LEMMA NextRemainder ==
    ASSUME NEW m \in Nat \ {0}, NEW a \in Nat
    PROVE  ((a % m) + 1) % m = (a + 1) % m
<1>1. PICK r : r = a % m
  OBVIOUS
<1>2. PICK q \in Nat : a = m * q + r
  <2>1. a \div m \in Nat /\ a = m * (a \div m) + r
    BY <1>1, Division
  <2> QED
    BY <2>1
<1>3. r \in 0..(m - 1)
  BY <1>1, Division
<1>4. PICK b, s : b = a + 1 /\ s = r + 1 /\ b \in Int /\ s \in Int
  BY <1>3
<1>5. CASE s = m
  <2>1. PICK p \in Int : p = q + 1
    OBVIOUS
  <2>2. m * p = m * q + m
    BY <2>1
  <2>3. Splits(b, m, p, 0) /\ Splits(s, m, 1, 0)
    BY <1>2, <1>3, <1>4, <1>5, <2>2 DEF Splits
  <2>4. 1 \in Int
    OBVIOUS
  <2>5. b % m = 0 /\ s % m = 0
    BY <1>4, <2>3, <2>4, DivisionIs, Zenon
  <2> QED
    BY <1>1, <1>4, <2>5
<1>6. CASE s # m
  <2>1. Splits(b, m, q, s) /\ Splits(s, m, 0, s)
    BY <1>2, <1>3, <1>4, <1>6 DEF Splits
  <2>2. q \in Int /\ 0 \in Int
    OBVIOUS
  <2>3. b % m = s /\ s % m = s
    BY <1>4, <2>1, <2>2, DivisionIs, Zenon
  <2> QED
    BY <1>1, <1>4, <2>3
<1> QED
  BY <1>5, <1>6

\* Adding before or after taking the remainder.
LEMMA AddRemainder ==
    ASSUME NEW m \in Nat \ {0}, NEW a \in Nat, NEW k \in Nat
    PROVE  ((a % m) + k) % m = (a + k) % m
<1>1. PICK r : r = a % m
  OBVIOUS
<1>2. PICK q \in Nat : a = m * q + r
  <2>1. a \div m \in Nat /\ a = m * (a \div m) + r
    BY <1>1, Division
  <2> QED
    BY <2>1
<1>3. r \in Nat
  BY <1>1, Division
<1>4. PICK b : b = r + k
  OBVIOUS
<1>5. b \in Nat
  BY <1>3, <1>4
<1>13. PICK s : s = b % m
  OBVIOUS
<1>6. PICK p \in Nat : b = m * p + s /\ s = b % m /\ s \in 0..(m - 1)
  <2>1. b \div m \in Nat /\ b = m * (b \div m) + s /\ s \in 0..(m - 1)
    BY <1>5, <1>13, Division
  <2> QED
    BY <1>13, <2>1
<1>7. PICK u, t : u = q + p /\ t = a + k /\ u \in Int /\ t \in Int
  OBVIOUS
<1>8. m * u = m * q + m * p
  BY <1>7
<1>9. Splits(t, m, u, s)
  <2>1. PICK x, y : x = m * q /\ y = m * p /\ x \in Int /\ y \in Int
    OBVIOUS
  <2>2. a = x + r /\ b = y + s /\ s \in 0..(m - 1) /\ m * u = x + y
    BY <1>2, <1>6, <1>8, <2>1
  <2>3. t = m * u + s
    BY <1>3, <1>4, <1>7, <2>1, <2>2
  <2> QED
    BY <2>2, <2>3 DEF Splits
<1>10. t % m = s
  <2>1. u \in Int /\ t \in Int
    BY <1>7
  <2> QED
    BY <1>9, <2>1, DivisionIs, Zenon
<1>11. ((a % m) + k) % m = s
  <2>1. (a % m) + k = b
    BY <1>1, <1>4
  <2> QED
    BY <1>6, <2>1
<1>12. (a + k) % m = s
  BY <1>7, <1>10
<1> QED
  BY <1>11, <1>12

\* Near numbers with the same remainder are the same.
LEMMA NearSame ==
    ASSUME NEW m \in Nat \ {0}, NEW a \in Nat, NEW b \in Nat, a % m = b % m, a - b < m, b - a < m
    PROVE  a = b
<1>1. ASSUME a < b PROVE FALSE
  <2>1. b - a >= m
    BY <1>1, SameRemainder
  <2> QED
    BY <2>1
<1>2. ASSUME b < a PROVE FALSE
  <2>1. (b % m) = (a % m)
    OBVIOUS
  <2>2. a - b >= m
    BY <1>2, <2>1, SameRemainder
  <2> QED
    BY <2>2
<1> QED
  BY <1>1, <1>2

\* relativeSequence: the distance of two near numbers is found from their remainders.
LEMMA RelativeIs ==
    ASSUME NEW a \in Nat, NEW b \in Nat,
           a - b < Modulus \div 2, b - a <= Modulus \div 2
    PROVE  Relative((a % Modulus), (b % Modulus)) = a - b
<1>1. PICK m, h : m = Modulus /\ h = Modulus \div 2
  OBVIOUS
<1>2. m \in Nat \ {0} /\ h \in Nat /\ m = 2 * h
  <2>1. Modulus \in Nat \ {0} /\ Modulus % 2 = 0
    BY WindowAssumption, ConstantsAre
  <2>2. Modulus = 2 * (Modulus \div 2) + (Modulus % 2) /\ Modulus \div 2 \in Nat
    BY <2>1, Division
  <2> QED
    BY <1>1, <2>1, <2>2
<1>3. PICK r, s : r = a % m /\ s = b % m
  OBVIOUS
<1>4. PICK p \in Nat : a = m * p + r
  <2>1. a \div m \in Nat /\ a = m * (a \div m) + r
    BY <1>2, <1>3, Division
  <2> QED
    BY <2>1
<1>5. PICK q \in Nat : b = m * q + s
  <2>1. b \div m \in Nat /\ b = m * (b \div m) + s
    BY <1>2, <1>3, Division
  <2> QED
    BY <2>1
<1>6. r \in Nat /\ s \in Nat
  BY <1>2, <1>3, Division
<1>7. PICK t : t = r - s + m + h
  OBVIOUS
<1>8. PICK u, v : u = q - p + 1 /\ v = a - b + h /\ u \in Int /\ v \in Int
  BY <1>2
<1>9. m * u = m * q - m * p + m
  BY <1>2, <1>8
<1>10. t = m * u + v /\ t \in Int
  BY <1>2, <1>4, <1>5, <1>6, <1>7, <1>8, <1>9
<1>11. v \in 0..(m - 1)
  BY <1>1, <1>2, <1>8
<1>12. Splits(t, m, u, v)
  BY <1>10, <1>11 DEF Splits
<1>13. t % m = v
  BY <1>2, <1>8, <1>10, <1>12, DivisionIs, Zenon
<1>14. Relative(r, s) = (t % m) - h
  BY <1>1, <1>7 DEF Relative
<1>15. (t % m) - h = a - b
  BY <1>2, <1>8, <1>13
<1> QED
  BY <1>1, <1>3, <1>14, <1>15

-----------------------------------------------------------------------------
(* The sender.                                                             *)

OfTransfer(s, id) == {k \in DOMAIN s.pending : s.pending[k].msg.id = id}

\* A transfer owes what is unsent of it and what is pending.
TransferOK(s, id) ==
    LET t == s.transfers[id]
    IN  /\ t \in [chan : Channel, chunks : Nat \ {0}, next : Nat, remaining : Int]
        /\ t.next <= t.chunks
        /\ t.remaining = t.chunks - t.next + Cardinality(OfTransfer(s, id))

\* The queue has each transfer at most once, and only such as are not yet sent.
QueueOK(s) ==
    /\ s.queue \in Seq(DOMAIN s.transfers)
    /\ \A i \in 1..Len(s.queue) : s.transfers[s.queue[i]].next < s.transfers[s.queue[i]].chunks
    /\ \A i, j \in 1..Len(s.queue) : s.queue[i] = s.queue[j] => i = j

\* The numbers of messages, modulo Modulus and without it.
NumbersOK(s, to) ==
    /\ s.seq \in [Channel -> Nat] /\ to \in [Channel -> Nat]
    /\ \A c \in Channel : s.seq[c] = to[c] % Modulus

\* A pending message has a number and is of an open transfer.
MessageOK(s, to, k) ==
    LET m == s.pending[k].msg
    IN  /\ "msg" \in DOMAIN s.pending[k]
        /\ m.chan \in Channel /\ k = <<m.chan, m.seq>>
        /\ m.n \in Nat /\ m.n < to[m.chan] /\ m.seq = m.n % Modulus
        /\ m.id \in DOMAIN s.transfers

PendingOK(s, to) ==
    /\ IsFiniteSet(DOMAIN s.pending) /\ Cardinality(DOMAIN s.pending) <= SendWindow
    /\ \A k \in DOMAIN s.pending : MessageOK(s, to, k)

\* A sender s that has sent up to the numbers to and has had transfers up to last.
Sending(s, to, last) ==
    /\ DOMAIN s = {"transfers", "queue", "seq", "pending"}
    /\ DOMAIN s.transfers \subseteq 1..last
    /\ \A id \in DOMAIN s.transfers : TransferOK(s, id)
    /\ QueueOK(s) /\ NumbersOK(s, to) /\ PendingOK(s, to)

\* How far the numbers are ahead of the pending messages while the queue is flushed,
\* which began with first of them.
Lag(s, to, first) ==
    /\ first \in Nat /\ first <= Cardinality(DOMAIN s.pending)
    /\ \A k \in DOMAIN s.pending :
          to[s.pending[k].msg.chan] - 1 - s.pending[k].msg.n
              <= ReceiveWindow + (Cardinality(DOMAIN s.pending) - first)

\* The number of the next message is no pending one's.
LEMMA NextIsNew ==
    ASSUME NEW s, NEW to, NEW last, NEW first, Sending(s, to, last), Lag(s, to, first),
           Cardinality(DOMAIN s.pending) < SendWindow, NEW c \in Channel
    PROVE  <<c, s.seq[c]>> \notin DOMAIN s.pending
<1> SUFFICES ASSUME <<c, s.seq[c]>> \in DOMAIN s.pending PROVE FALSE
  OBVIOUS
<1>1. PICK k : k = <<c, s.seq[c]>>
  OBVIOUS
<1>2. PICK m : m = s.pending[k].msg
  OBVIOUS
<1>3. MessageOK(s, to, k) /\ NumbersOK(s, to) /\ IsFiniteSet(DOMAIN s.pending)
  BY <1>1 DEF Sending, PendingOK
<1>4. m.chan = c /\ m.seq = s.seq[c] /\ m.n \in Nat /\ m.n < to[c] /\ m.seq = m.n % Modulus
  BY <1>1, <1>2, <1>3 DEF MessageOK
<1>5. to[c] \in Nat /\ s.seq[c] = to[c] % Modulus
  BY <1>3 DEF NumbersOK
<1>6. to[c] - m.n >= Modulus
  BY <1>4, <1>5, SameRemainder, ConstantsAre, Zenon
<1>7. Cardinality(DOMAIN s.pending) \in Nat
  BY <1>3, FS_CardinalityType
<1>8. to[c] - 1 - m.n <= ReceiveWindow + (Cardinality(DOMAIN s.pending) - first) /\ first \in Nat
  BY <1>1, <1>2, <1>4, Zenon DEF Lag
<1> QED
  BY <1>4, <1>5, <1>6, <1>7, <1>8, ConstantsAre

\* What the sender s becomes when it sends message m, of transfer id and with key key,
\* and the numbers to.
Sends(s, to, id, m, key, new, ahead) ==
    LET t == s.transfers[id]
    IN  /\ s.queue # <<>> /\ 1 \in 1..Len(s.queue) /\ id = s.queue[1] /\ id \in DOMAIN s.transfers
        /\ t.next < t.chunks /\ t.chan \in Channel
        /\ m.chan = t.chan /\ m.seq = s.seq[t.chan] /\ m.n = to[t.chan] /\ m.id = id
        /\ m.chunk = t.next /\ key = <<t.chan, m.seq>> /\ key \notin DOMAIN s.pending
        /\ DOMAIN new = {"transfers", "queue", "seq", "pending"}
        /\ new.transfers = [s.transfers EXCEPT ![id].next = @ + 1]
        /\ new.queue = IF t.next + 1 >= t.chunks THEN Tail(s.queue) ELSE s.queue
        /\ new.seq = [s.seq EXCEPT ![t.chan] = NextSeq(@)]
        /\ DOMAIN new.pending = DOMAIN s.pending \cup {key} /\ new.pending[key].msg = m
        /\ "msg" \in DOMAIN new.pending[key]
        /\ \A k \in DOMAIN s.pending : new.pending[k] = s.pending[k]
        /\ ahead = [to EXCEPT ![t.chan] = @ + 1]

\* The next chunk of the first queued transfer is sent.
LEMMA SendNextDoes ==
    ASSUME NEW f, NEW last, NEW first, Sending(f.snd, f.sent, last), Lag(f.snd, f.sent, first),
           CanSend(f.snd)
    PROVE  \E id, m, key :
              /\ Sends(f.snd, f.sent, id, m, key, SendNext(f).snd, SendNext(f).sent)
              /\ SendNext(f).net = f.net \cup {m}
<1>1. PICK s, to : s = f.snd /\ to = f.sent
  OBVIOUS
<1>2. PICK id, t : id = Head(s.queue) /\ t = s.transfers[id]
  OBVIOUS
<1>3. PICK m : m = [chan |-> t.chan, seq |-> s.seq[t.chan], n |-> to[t.chan], id |-> id, chunk |-> t.next]
  OBVIOUS
<1>4. PICK c, key : c = t.chan /\ key = <<c, m.seq>>
  OBVIOUS
<1>5. /\ Sending(s, to, last) /\ Lag(s, to, first) /\ s.queue # <<>>
      /\ Cardinality(DOMAIN s.pending) < SendWindow
  BY <1>1 DEF CanSend
<1>6. /\ s.queue \in Seq(DOMAIN s.transfers) /\ 1 \in 1..Len(s.queue) /\ id = s.queue[1]
      /\ id \in DOMAIN s.transfers
  BY <1>2, <1>5 DEF Sending, QueueOK
<1>7. /\ t \in [chan : Channel, chunks : Nat \ {0}, next : Nat, remaining : Int]
      /\ t.next < t.chunks /\ t.remaining = t.chunks - t.next + Cardinality(OfTransfer(s, id))
  BY <1>2, <1>5, <1>6 DEF Sending, QueueOK, TransferOK
<1>8. c \in Channel /\ to[c] \in Nat /\ s.seq[c] = to[c] % Modulus /\ to[c] % Modulus \in Nat
  <2>1. c \in Channel
    BY <1>4, <1>7
  <2>2. to[c] \in Nat /\ s.seq[c] = to[c] % Modulus /\ s.seq[c] \in Nat
    BY <1>5, <2>1 DEF Sending, NumbersOK
  <2> QED
    BY <2>1, <2>2
<1>9. m.chan = c /\ m.seq = s.seq[c] /\ m.n = to[c] /\ m.id = id
  BY <1>3, <1>4
<1>10. key \notin DOMAIN s.pending
  BY <1>4, <1>5, <1>8, <1>9, NextIsNew
<1>11. PICK new, ahead : new = SendNext(f).snd /\ ahead = SendNext(f).sent
  OBVIOUS
<1>16. SendNext(f).net = f.net \cup {m}
  BY <1>1, <1>2, <1>3 DEF SendNext
<1>12. DOMAIN s = {"transfers", "queue", "seq", "pending"}
  BY <1>5 DEF Sending
<1>13. PICK entry : entry = [msg |-> m, attempts |-> 1]
  BY Zenon
<1>14. /\ new = [s EXCEPT !.transfers[id].next = @ + 1,
                          !.queue = IF t.next + 1 >= t.chunks THEN Tail(@) ELSE @,
                          !.seq[t.chan] = NextSeq(@),
                          !.pending = With(@, <<t.chan, m.seq>>, entry)]
       /\ ahead = [to EXCEPT ![t.chan] = @ + 1]
  BY <1>1, <1>2, <1>3, <1>11, <1>13, Zenon DEF SendNext
<1>15. /\ DOMAIN new = {"transfers", "queue", "seq", "pending"}
       /\ new.transfers = [s.transfers EXCEPT ![id].next = @ + 1]
       /\ new.queue = IF t.next + 1 >= t.chunks THEN Tail(s.queue) ELSE s.queue
       /\ new.seq = [s.seq EXCEPT ![c] = NextSeq(@)]
       /\ new.pending = With(s.pending, key, entry)
  BY <1>4, <1>12, <1>14
<1>19. /\ DOMAIN new.pending = DOMAIN s.pending \cup {key} /\ new.pending[key].msg = m
       /\ "msg" \in DOMAIN new.pending[key]
       /\ \A k \in DOMAIN s.pending : new.pending[k] = s.pending[k]
  <2>1. entry.msg = m /\ "msg" \in DOMAIN entry
    BY <1>13, Zenon
  <2> QED
    BY <1>10, <1>15, <2>1 DEF With
<1>17. Sends(s, to, id, m, key, new, ahead)
  <2>1. t.chan \in Channel /\ m.chunk = t.next
    BY <1>3, <1>7
  <2>2. /\ s.queue # <<>> /\ 1 \in 1..Len(s.queue) /\ id = s.queue[1] /\ id \in DOMAIN s.transfers
        /\ t.next < t.chunks /\ key \notin DOMAIN s.pending
    BY <1>5, <1>6, <1>7, <1>10
  <2>3. /\ m.chan = t.chan /\ m.seq = s.seq[t.chan] /\ m.n = to[t.chan] /\ m.id = id
        /\ key = <<t.chan, m.seq>>
    BY <1>4, <1>9
  <2>4. new.seq = [s.seq EXCEPT ![t.chan] = NextSeq(@)]
    BY <1>4, <1>15
  <2> QED
    BY <1>2, <1>14, <1>15, <1>19, <2>1, <2>2, <2>3, <2>4, Zenon DEF Sends
<1> QED
  BY <1>1, <1>11, <1>16, <1>17

\* It keeps the sender.
LEMMA SendNextKeeps ==
    ASSUME NEW f, NEW last, NEW first, Sending(f.snd, f.sent, last), Lag(f.snd, f.sent, first),
           CanSend(f.snd)
    PROVE  Sending(SendNext(f).snd, SendNext(f).sent, last) /\ Lag(SendNext(f).snd, SendNext(f).sent, first)
<1>1. PICK s, to : s = f.snd /\ to = f.sent
  OBVIOUS
<1>11. PICK new, ahead : new = SendNext(f).snd /\ ahead = SendNext(f).sent
  OBVIOUS
<1>2. PICK id, m, key : Sends(s, to, id, m, key, new, ahead)
  BY <1>1, <1>11, SendNextDoes, Zenon
<1>3. PICK t, c : t = s.transfers[id] /\ c = t.chan
  OBVIOUS
<1>5. Sending(s, to, last) /\ Lag(s, to, first) /\ Cardinality(DOMAIN s.pending) < SendWindow
  BY <1>1 DEF CanSend
<1>6. /\ s.queue \in Seq(DOMAIN s.transfers) /\ 1 \in 1..Len(s.queue) /\ id = s.queue[1]
      /\ id \in DOMAIN s.transfers /\ s.queue # <<>>
  BY <1>2, <1>5, Zenon DEF Sending, QueueOK, Sends
<1>7. /\ t \in [chan : Channel, chunks : Nat \ {0}, next : Nat, remaining : Int]
      /\ t.next < t.chunks /\ t.remaining = t.chunks - t.next + Cardinality(OfTransfer(s, id))
  <2>1. TransferOK(s, id)
    BY <1>5, <1>6, Zenon DEF Sending
  <2>2. t.next < t.chunks
    BY <1>2, <1>3, Zenon DEF Sends
  <2> QED
    BY <1>3, <2>1, <2>2 DEF TransferOK
<1>8. c \in Channel /\ to[c] \in Nat /\ s.seq[c] = to[c] % Modulus /\ to[c] % Modulus \in Nat
  <2>1. c \in Channel
    BY <1>3, <1>7
  <2>2. to[c] \in Nat /\ s.seq[c] = to[c] % Modulus /\ s.seq[c] \in Nat
    BY <1>5, <2>1, ZenonT(60) DEF Sending, NumbersOK
  <2> QED
    BY <2>1, <2>2
<1>9. /\ m.chan = c /\ m.seq = s.seq[c] /\ m.n = to[c] /\ m.id = id
      /\ key = <<c, m.seq>> /\ key \notin DOMAIN s.pending
  BY <1>2, <1>3, ZenonT(60) DEF Sends
<1>15. /\ DOMAIN new = {"transfers", "queue", "seq", "pending"}
       /\ new.transfers = [s.transfers EXCEPT ![id].next = @ + 1]
       /\ new.queue = IF t.next + 1 >= t.chunks THEN Tail(s.queue) ELSE s.queue
       /\ new.seq = [s.seq EXCEPT ![c] = NextSeq(@)]
       /\ ahead = [to EXCEPT ![c] = @ + 1]
  BY <1>2, <1>3, Zenon DEF Sends
<1>16. PICK u : u = [t EXCEPT !.next = @ + 1]
  OBVIOUS
<1>17. /\ u \in [chan : Channel, chunks : Nat \ {0}, next : Nat, remaining : Int]
       /\ u.next = t.next + 1 /\ u.chunks = t.chunks /\ u.remaining = t.remaining
  BY <1>7, <1>16
<1>18. /\ DOMAIN new.transfers = DOMAIN s.transfers /\ new.transfers[id] = u
       /\ \A x \in DOMAIN s.transfers \ {id} : new.transfers[x] = s.transfers[x]
  BY <1>3, <1>6, <1>15, <1>16, Zenon
<1>19. /\ DOMAIN new.pending = DOMAIN s.pending \cup {key} /\ new.pending[key].msg = m
       /\ "msg" \in DOMAIN new.pending[key]
       /\ \A k \in DOMAIN s.pending : new.pending[k] = s.pending[k]
  BY <1>2, Zenon DEF Sends
<1>20. /\ IsFiniteSet(DOMAIN new.pending) /\ Cardinality(DOMAIN s.pending) \in Nat
       /\ Cardinality(DOMAIN new.pending) = Cardinality(DOMAIN s.pending) + 1
  <2>1. IsFiniteSet(DOMAIN s.pending)
    BY <1>5 DEF Sending, PendingOK
  <2>2. IsFiniteSet(DOMAIN s.pending \cup {key})
        /\ Cardinality(DOMAIN s.pending \cup {key}) = Cardinality(DOMAIN s.pending) + 1
    BY <1>9, <2>1, FS_AddElement
  <2>3. Cardinality(DOMAIN s.pending) \in Nat
    BY <2>1, FS_CardinalityType
  <2> QED
    BY <1>19, <2>2, <2>3
<1>21. /\ OfTransfer(new, id) = OfTransfer(s, id) \cup {key} /\ key \notin OfTransfer(s, id)
       /\ \A x \in DOMAIN s.transfers \ {id} : OfTransfer(new, x) = OfTransfer(s, x)
  BY <1>9, <1>19 DEF OfTransfer
<1>22. Cardinality(OfTransfer(new, id)) = Cardinality(OfTransfer(s, id)) + 1
       /\ Cardinality(OfTransfer(s, id)) \in Nat
  <2>1. OfTransfer(s, id) \subseteq DOMAIN s.pending /\ IsFiniteSet(DOMAIN s.pending)
    BY <1>5 DEF Sending, PendingOK, OfTransfer
  <2> QED
    BY <1>21, <2>1, FS_Subset, FS_AddElement, FS_CardinalityType
<1>23. /\ ahead \in [Channel -> Nat] /\ ahead[c] = to[c] + 1
       /\ \A d \in Channel \ {c} : ahead[d] = to[d]
  BY <1>5, <1>8, <1>15 DEF Sending, NumbersOK
<1>34. ASSUME NEW d \in Channel
       PROVE  to[d] \in Nat /\ ahead[d] \in Nat /\ ahead[d] \in {to[d], to[d] + 1}
  <2>1. to[d] \in Nat /\ ahead[d] \in Nat
    BY <1>5, <1>23 DEF Sending, NumbersOK
  <2> QED
    BY <1>23, <2>1
<1>24. ASSUME NEW x \in DOMAIN new.transfers PROVE TransferOK(new, x)
  <2>1. CASE x = id
    BY <1>7, <1>17, <1>18, <1>22, <2>1 DEF TransferOK
  <2>2. CASE x # id
    BY <1>5, <1>18, <1>21, <1>24, <2>2 DEF Sending, TransferOK
  <2> QED
    BY <2>1, <2>2
<1>25. QueueOK(new)
  <2>1. /\ \A i \in 1..Len(s.queue) : s.transfers[s.queue[i]].next < s.transfers[s.queue[i]].chunks
        /\ \A i, j \in 1..Len(s.queue) : s.queue[i] = s.queue[j] => i = j
    BY <1>5 DEF Sending, QueueOK
  <2>2. CASE t.next + 1 >= t.chunks
    <3>1. PICK rest : rest = Tail(s.queue)
      OBVIOUS
    <3>2. /\ rest \in Seq(DOMAIN s.transfers) /\ Len(rest) = Len(s.queue) - 1
          /\ \A i \in 1..Len(rest) : rest[i] = s.queue[i + 1] /\ i + 1 \in 1..Len(s.queue) /\ i + 1 # 1
      <4>1. PICK q, S : q = s.queue /\ S = DOMAIN s.transfers
        OBVIOUS
      <4>2. q \in Seq(S) /\ q # <<>>
        BY <1>5, <1>6, <4>1
      <4>3. rest \in Seq(S) /\ Len(rest) = Len(q) - 1 /\ \A i \in 1..Len(rest) : rest[i] = q[i + 1]
        <5>1. rest = Tail(q)
          BY <3>1, <4>1
        <5> QED
          BY <4>2, <5>1, HeadTailProperties
      <4>4. Len(q) \in Nat /\ Len(rest) \in Nat
        BY <4>2, <4>3
      <4>5. ASSUME NEW i \in 1..Len(rest)
            PROVE  rest[i] = q[i + 1] /\ i + 1 \in 1..Len(q) /\ i + 1 # 1
        <5>1. rest[i] = q[i + 1]
          BY <4>3
        <5>2. i \in Nat /\ 1 <= i /\ i <= Len(q) - 1
          BY <4>3, <4>4
        <5> QED
          BY <4>4, <5>1, <5>2
      <4> QED
        BY <4>1, <4>3, <4>5
    <3>3. ASSUME NEW i \in 1..Len(rest) PROVE rest[i] # id /\ rest[i] \in DOMAIN s.transfers
      BY <1>6, <2>1, <3>2
    <3>4. new.queue = rest
      BY <1>15, <2>2, <3>1
    <3>5. ASSUME NEW i \in 1..Len(rest), NEW j \in 1..Len(rest), rest[i] = rest[j] PROVE i = j
      <4>1. i + 1 = j + 1
        BY <2>1, <3>2, <3>5
      <4> QED
        BY <4>1
    <3>6. \A i \in 1..Len(rest) : new.transfers[rest[i]].next < new.transfers[rest[i]].chunks
      BY <1>18, <2>1, <3>2, <3>3
    <3> QED
      BY <1>18, <3>2, <3>4, <3>5, <3>6 DEF QueueOK
  <2>3. CASE ~(t.next + 1 >= t.chunks)
    <3>1. new.queue = s.queue /\ u.next < u.chunks
      BY <1>7, <1>15, <1>17, <2>3
    <3>2. \A i \in 1..Len(s.queue) : new.transfers[s.queue[i]].next < new.transfers[s.queue[i]].chunks
      BY <1>6, <1>18, <2>1, <3>1
    <3> QED
      BY <1>6, <1>18, <2>1, <3>1, <3>2 DEF QueueOK
  <2> QED
    BY <2>2, <2>3
<1>26. NumbersOK(new, ahead)
  <2>1. NextSeq(s.seq[c]) = ahead[c] % Modulus /\ NextSeq(s.seq[c]) \in Nat
    <3>1. NextSeq(s.seq[c]) = (to[c] + 1) % Modulus
      BY <1>8, ConstantsAre, NextRemainder DEF NextSeq
    <3>2. (to[c] + 1) % Modulus \in Nat
      <4>1. to[c] + 1 \in Nat
        BY <1>8
      <4> QED
        BY <4>1, ConstantsAre, Division
    <3> QED
      BY <1>23, <3>1, <3>2
  <2>2. s.seq \in [Channel -> Nat] /\ \A d \in Channel : s.seq[d] = to[d] % Modulus
    BY <1>5 DEF Sending, NumbersOK
  <2>3. new.seq[c] = NextSeq(s.seq[c]) /\ \A d \in Channel \ {c} : new.seq[d] = s.seq[d]
    BY <1>8, <1>15, <2>2
  <2>4. new.seq \in [Channel -> Nat]
    BY <1>8, <1>15, <2>1, <2>2
  <2> QED
    BY <1>23, <2>1, <2>2, <2>3, <2>4 DEF NumbersOK
<1>27. ASSUME NEW k \in DOMAIN new.pending PROVE MessageOK(new, ahead, k)
  <2>1. CASE k = key
    <3>1. PICK p : p = new.pending[k].msg
      OBVIOUS
    <3>2. p = m /\ "msg" \in DOMAIN new.pending[k]
      BY <1>19, <2>1, <3>1
    <3>3. p.chan \in Channel /\ k = <<p.chan, p.seq>> /\ p.id \in DOMAIN new.transfers
      BY <1>6, <1>8, <1>9, <1>18, <2>1, <3>2
    <3>4. p.n \in Nat /\ p.n < ahead[p.chan]
      BY <1>8, <1>9, <1>23, <3>2
    <3>5. p.seq = p.n % Modulus
      BY <1>8, <1>9, <3>2
    <3> QED
      BY <3>1, <3>2, <3>3, <3>4, <3>5 DEF MessageOK
  <2>2. CASE k # key
    <3>1. PICK p : p = s.pending[k].msg
      OBVIOUS
    <3>2. MessageOK(s, to, k) /\ new.pending[k].msg = p /\ new.pending[k] = s.pending[k]
      BY <1>5, <1>19, <1>27, <2>2, <3>1 DEF Sending, PendingOK
    <3>3. /\ p.chan \in Channel /\ k = <<p.chan, p.seq>> /\ p.n \in Nat /\ p.n < to[p.chan]
          /\ p.seq = p.n % Modulus /\ p.id \in DOMAIN s.transfers
          /\ "msg" \in DOMAIN new.pending[k]
      BY <3>1, <3>2 DEF MessageOK
    <3>4. to[p.chan] \in Nat /\ ahead[p.chan] \in Nat /\ ahead[p.chan] \in {to[p.chan], to[p.chan] + 1}
      BY <1>34, <3>3
    <3>5. p.n < ahead[p.chan]
      BY <3>3, <3>4
    <3> QED
      BY <1>18, <3>2, <3>3, <3>5 DEF MessageOK
  <2> QED
    BY <2>1, <2>2
<1>28. PendingOK(new, ahead)
  BY <1>5, <1>20, <1>27, ConstantsAre DEF PendingOK
<1>29. Lag(new, ahead, first)
  <2>1. PICK size : size = Cardinality(DOMAIN s.pending)
    OBVIOUS
  <2>2. size \in Nat /\ Cardinality(DOMAIN new.pending) = size + 1 /\ first \in Nat /\ first <= size
    BY <1>5, <1>20, <2>1 DEF Lag
  <2>3. ASSUME NEW k \in DOMAIN new.pending
        PROVE  ahead[new.pending[k].msg.chan] - 1 - new.pending[k].msg.n
                   <= ReceiveWindow + (size + 1 - first)
    <3>1. CASE k = key
      <4>1. new.pending[k].msg = m
        BY <1>19, <3>1
      <4> QED
        BY <1>8, <1>9, <1>23, <2>2, <4>1, ConstantsAre
    <3>2. CASE k # key
      <4>1. PICK p : p = s.pending[k].msg
        OBVIOUS
      <4>2. /\ new.pending[k].msg = p /\ p.chan \in Channel /\ p.n \in Nat
            /\ to[p.chan] - 1 - p.n <= ReceiveWindow + (size - first)
        BY <1>5, <1>19, <2>1, <2>3, <3>2, <4>1 DEF Lag, Sending, PendingOK, MessageOK
      <4>3. to[p.chan] \in Nat /\ ahead[p.chan] \in {to[p.chan], to[p.chan] + 1}
        BY <1>34, <4>2
      <4> QED
        BY <2>2, <4>2, <4>3, ConstantsAre
    <3> QED
      BY <3>1, <3>2
  <2> QED
    BY <2>2, <2>3 DEF Lag
<1>30. Sending(new, ahead, last)
  BY <1>5, <1>15, <1>18, <1>24, <1>25, <1>26, <1>28 DEF Sending
<1> QED
  BY <1>11, <1>29, <1>30

-----------------------------------------------------------------------------
(* The loop.                                                               *)

\* Each set of natural numbers has a least one.
LEMMA LeastNat ==
    ASSUME NEW T, T \subseteq Nat, T # {}
    PROVE  \E n \in T : \A m \in T : n <= m
<1>1. PICK R : R = {ss \in Nat \X Nat : ss[1] < ss[2]}
  OBVIOUS
<1>2. IsWellFoundedOn(R, Nat)
  BY <1>1, NatLessThanWellFounded, Zenon DEF OpToRel
<1>3. \E n \in T : \A m \in T : ~(<<m, n>> \in R)
  BY <1>2, WFMin, Zenon
<1>4. \A m, n \in Nat : m < n => <<m, n>> \in R
  BY <1>1
<1>5. PICK n \in T : \A m \in T : ~(<<m, n>> \in R)
  BY <1>3
<1>6. ASSUME NEW m \in T PROVE n <= m
  <2>1. m \in Nat /\ n \in Nat
    OBVIOUS
  <2>2. ~(m < n)
    BY <1>4, <1>5, <2>1
  <2> QED
    BY <2>1, <2>2
<1> QED
  BY <1>6

\* f is n rounds of the loop, from base.
IsRun(f, n, base) == f = [k \in 0..n |-> IF k = 0 THEN base ELSE FlushNext(f[k - 1])]

\* Any number of rounds can be run.
LEMMA RunExists ==
    ASSUME NEW base, NEW size \in Nat
    PROVE  \E f : IsRun(f, size, base)
<1>1. PICK T : T = {n \in Nat : ~ \E f : IsRun(f, n, base)}
  OBVIOUS
<1> SUFFICES ASSUME T # {} PROVE FALSE
  BY <1>1
<1>2. PICK n \in T : \A m \in T : n <= m
  BY <1>1, LeastNat
<1>3. n \in Nat /\ ~ \E f : IsRun(f, n, base)
  BY <1>1
<1>4. CASE n = 0
  <2>1. PICK f : f = [k \in 0..n |-> base]
    OBVIOUS
  <2>2. \A k \in 0..n : k = 0
    BY <1>4
  <2>3. f = [k \in 0..n |-> IF k = 0 THEN base ELSE FlushNext(f[k - 1])]
    BY <2>1, <2>2, Zenon
  <2> QED
    BY <1>3, <2>3 DEF IsRun
<1>5. CASE n # 0
  <2>1. n - 1 \in Nat /\ n - 1 \notin T
    BY <1>2, <1>3, <1>5
  <2>2. PICK f : IsRun(f, n - 1, base)
    BY <1>1, <2>1
  <2>3. PICK g : g = [k \in 0..n |-> IF k = 0 THEN base ELSE FlushNext(f[k - 1])]
    OBVIOUS
  <2>4. ASSUME NEW k \in 0..n, k # 0 PROVE f[k - 1] = g[k - 1]
    <3>1. k - 1 \in 0..(n - 1) /\ k - 1 \in 0..n
      BY <1>3, <2>4
    <3>2. f[k - 1] = IF k - 1 = 0 THEN base ELSE FlushNext(f[k - 1 - 1])
      BY <2>2, <3>1 DEF IsRun
    <3>3. g[k - 1] = IF k - 1 = 0 THEN base ELSE FlushNext(f[k - 1 - 1])
      BY <2>3, <3>1
    <3> QED
      BY <3>2, <3>3
  <2>5. g = [k \in 0..n |-> IF k = 0 THEN base ELSE FlushNext(g[k - 1])]
    BY <2>3, <2>4, Zenon
  <2> QED
    BY <1>3, <2>5 DEF IsRun
<1> QED
  BY <1>4, <1>5

\* One round of the loop, which may have ended already.
LEMMA FlushNextKeeps ==
    ASSUME NEW f, NEW last, NEW first, Sending(f.snd, f.sent, last), Lag(f.snd, f.sent, first)
    PROVE  Sending(FlushNext(f).snd, FlushNext(f).sent, last) /\ Lag(FlushNext(f).snd, FlushNext(f).sent, first)
<1>1. CASE CanSend(f.snd)
  <2>1. FlushNext(f) = SendNext(f)
    BY <1>1 DEF FlushNext
  <2> QED
    BY <1>1, <2>1, SendNextKeeps
<1>2. CASE ~CanSend(f.snd)
  <2>1. FlushNext(f) = f
    BY <1>2 DEF FlushNext
  <2> QED
    BY <2>1
<1> QED
  BY <1>1, <1>2

\* Every round of a run keeps the sender.
LEMMA RunKeeps ==
    ASSUME NEW f, NEW size \in Nat, NEW base, NEW last, NEW first, IsRun(f, size, base),
           Sending(base.snd, base.sent, last), Lag(base.snd, base.sent, first)
    PROVE  Sending(f[size].snd, f[size].sent, last)
<1>1. PICK T : T = {k \in 0..size : ~(Sending(f[k].snd, f[k].sent, last) /\ Lag(f[k].snd, f[k].sent, first))}
  OBVIOUS
<1>2. size \in 0..size
  OBVIOUS
<1>3. CASE T = {}
  BY <1>1, <1>2, <1>3
<1>4. CASE T # {}
  <2>1. T \subseteq Nat
    BY <1>1
  <2>2. PICK n \in T : \A m \in T : n <= m
    BY <1>4, <2>1, LeastNat
  <2>3. n \in 0..size /\ n \in Nat
    BY <1>1
  <2>4. f[n] = IF n = 0 THEN base ELSE FlushNext(f[n - 1])
    BY <2>3 DEF IsRun
  <2>5. n # 0
    BY <1>1, <2>4
  <2>6. n - 1 \in 0..size /\ n - 1 \notin T
    BY <2>2, <2>3, <2>5
  <2>7. Sending(f[n - 1].snd, f[n - 1].sent, last) /\ Lag(f[n - 1].snd, f[n - 1].sent, first)
    BY <1>1, <2>6
  <2>8. f[n] = FlushNext(f[n - 1])
    BY <2>4, <2>5
  <2> QED
    BY <1>1, <2>7, <2>8, FlushNextKeeps
<1> QED
  BY <1>3, <1>4

\* Flushing keeps the sender.
LEMMA FlushKeeps ==
    ASSUME NEW s, NEW ms, NEW last, NEW first, Sending(s, sent, last), Lag(s, sent, first)
    PROVE  Sending(Flushed(s, ms).snd, Flushed(s, ms).sent, last)
<1>1. PICK base : base = [snd |-> s, net |-> ms, sent |-> sent]
  OBVIOUS
<1>2. PICK size : size = Rounds(s)
  OBVIOUS
<1>3. size \in Nat
  <2>1. Len(s.queue) \in Nat /\ MostChunks \in Nat
    BY ConstantsAre DEF Sending, QueueOK
  <2> QED
    BY <1>2, <2>1 DEF Rounds
<1>4. PICK f : f = CHOOSE g : IsRun(g, size, base)
  OBVIOUS
<1>5. IsRun(f, size, base)
  BY <1>3, <1>4, RunExists, Zenon
<1>6. Flushed(s, ms) = f[size]
  BY <1>1, <1>2, <1>4 DEF Flushed, IsRun
<1>7. base.snd = s /\ base.sent = sent
  BY <1>1
<1> QED
  BY <1>3, <1>5, <1>6, <1>7, RunKeeps

-----------------------------------------------------------------------------
(* The steps.                                                              *)

\* The part of Timely that is about the pending messages.
NearPending ==
    \A key \in DOMAIN snd.pending : sent[key[1]] - 1 - snd.pending[key].msg.n <= ReceiveWindow

\* The inductive invariant.
SenderInvariant ==
    /\ made \in Seq([chan : Channel, chunks : ChunkCounts])
    /\ Sending(snd, sent, Len(made))
    /\ NearPending

\* The messages of s are pending.
IsPending(s) == \A k \in DOMAIN s.pending : k \in DOMAIN snd.pending /\ s.pending[k].msg = snd.pending[k].msg

\* s has no transfer and no message that the sender has not.
NothingNew(s) ==
    /\ s.queue = snd.queue /\ IsPending(s)
    /\ \A id \in DOMAIN s.transfers :
          LET t == s.transfers[id]
              u == snd.transfers[id]
          IN  id \in DOMAIN snd.transfers /\ t.chan = u.chan /\ t.chunks = u.chunks /\ t.next = u.next

\* s has one more transfer, of count chunks on channel c, at the end of the queue.
OneNew(s, c, count) ==
    LET id == Len(made')
    IN  /\ s.pending = snd.pending /\ s.queue = Append(snd.queue, id)
        /\ DOMAIN s.transfers = DOMAIN snd.transfers \cup {id}
        /\ s.transfers[id] = [chan |-> c, chunks |-> count, next |-> 0, remaining |-> count]
        /\ \A x \in DOMAIN snd.transfers : s.transfers[x] = snd.transfers[x]

\* When a handler has changed the sender, to s, the lag is that of the pending messages.
LEMMA LagIs ==
    ASSUME SenderInvariant, NEW s, NEW last, Sending(s, sent, last), IsPending(s)
    PROVE  Lag(s, sent, Cardinality(DOMAIN s.pending))
<1>1. PICK first : first = Cardinality(DOMAIN s.pending)
  OBVIOUS
<1>2. IsFiniteSet(DOMAIN s.pending) /\ NumbersOK(s, sent)
      /\ \A k \in DOMAIN s.pending : MessageOK(s, sent, k)
  BY DEF Sending, PendingOK
<1>3. first \in Nat
  BY <1>1, <1>2, FS_CardinalityType, SMTT(30)
<1>4. ASSUME NEW k \in DOMAIN s.pending
      PROVE  sent[s.pending[k].msg.chan] - 1 - s.pending[k].msg.n <= ReceiveWindow + (first - first)
  <2>1. PICK m : m = s.pending[k].msg
    OBVIOUS
  <2>2. k \in DOMAIN snd.pending /\ snd.pending[k].msg = m
    BY <2>1 DEF IsPending
  <2>3. m.chan \in Channel /\ k = <<m.chan, m.seq>> /\ m.n \in Nat
    BY <1>2, <2>1 DEF MessageOK
  <2>4. sent[m.chan] \in Nat
    BY <1>2, <2>3 DEF NumbersOK
  <2>5. k[1] = m.chan
    BY <2>3
  <2>6. sent[m.chan] - 1 - m.n <= ReceiveWindow
    BY <2>2, <2>5 DEF SenderInvariant, NearPending
  <2> QED
    BY <1>3, <2>1, <2>3, <2>4, <2>6, ConstantsAre
<1>5. Lag(s, sent, first)
  BY <1>1, <1>3, <1>4 DEF Lag
<1> QED
  BY <1>1, <1>5

\* A handler that changed the sender, to s, and flushed it.
LEMMA FlushStep ==
    ASSUME SenderInvariant, NEW s, NEW ms, NEW last, Sending(s, sent, last), IsPending(s), Flush(s, ms)
    PROVE  Sending(snd', sent', last)
<1>1. Lag(s, sent, Cardinality(DOMAIN s.pending))
  BY LagIs
<1> QED
  BY <1>1, FlushKeeps DEF Flush

\* A new transfer.
LEMMA EnqueueIs ==
    ASSUME SenderInvariant, NEW c \in Channel, NEW count \in ChunkCounts, EnqueueTransfer(c, count)
    PROVE  /\ made' \in Seq([chan : Channel, chunks : ChunkCounts])
           /\ \E s : /\ Sending(s, sent, Len(made')) /\ IsPending(s) /\ OneNew(s, c, count)
                     /\ Flush(s, net)
<1>1. PICK id, t : id = Len(made') /\ t = [chan |-> c, chunks |-> count, next |-> 0, remaining |-> count]
  OBVIOUS
<1>2. PICK s : s = [snd EXCEPT !.transfers = With(@, id, t), !.queue = Append(@, id)]
  OBVIOUS
<1>3. Flush(s, net) /\ made' = Append(made, [chan |-> c, chunks |-> count])
  BY <1>1, <1>2 DEF EnqueueTransfer
<1>4. made' \in Seq([chan : Channel, chunks : ChunkCounts]) /\ id = Len(made) + 1 /\ Len(made) \in Nat
  <2>1. made \in Seq([chan : Channel, chunks : ChunkCounts])
    BY DEF SenderInvariant
  <2>2. [chan |-> c, chunks |-> count] \in [chan : Channel, chunks : ChunkCounts]
    OBVIOUS
  <2> QED
    BY <1>1, <1>3, <2>1, <2>2, AppendProperties, LenProperties
<1>5. Sending(snd, sent, Len(made))
  BY DEF SenderInvariant
<1>6. /\ DOMAIN s = {"transfers", "queue", "seq", "pending"}
      /\ s.transfers = With(snd.transfers, id, t) /\ s.queue = Append(snd.queue, id)
      /\ s.seq = snd.seq /\ s.pending = snd.pending
  BY <1>2, <1>5 DEF Sending
<1>7. id \notin DOMAIN snd.transfers /\ DOMAIN snd.transfers \subseteq 1..Len(made)
  BY <1>4, <1>5 DEF Sending
<1>8. /\ DOMAIN s.transfers = DOMAIN snd.transfers \cup {id} /\ s.transfers[id] = t
      /\ \A x \in DOMAIN snd.transfers : s.transfers[x] = snd.transfers[x]
  BY <1>6, <1>7 DEF With
<1>9. PendingOK(s, sent) /\ NumbersOK(s, sent)
  BY <1>5, <1>6, <1>8 DEF Sending, PendingOK, NumbersOK, MessageOK
<1>10. \A x : OfTransfer(s, x) = OfTransfer(snd, x)
  BY <1>6 DEF OfTransfer
<1>11. OfTransfer(snd, id) = {}
  BY <1>5, <1>7 DEF Sending, PendingOK, MessageOK, OfTransfer
<1>12. ASSUME NEW x \in DOMAIN s.transfers PROVE TransferOK(s, x)
  <2>1. CASE x = id
    <3>1. count \in Nat \ {0} /\ Cardinality(OfTransfer(s, id)) = 0
      BY <1>10, <1>11, ConstantsAre, FS_EmptySet
    <3>2. /\ t \in [chan : Channel, chunks : Nat \ {0}, next : Nat, remaining : Int]
          /\ t.next = 0 /\ t.chunks = count /\ t.remaining = count
      BY <1>1, <3>1
    <3> QED
      BY <1>8, <2>1, <3>1, <3>2 DEF TransferOK
  <2>2. CASE x # id
    BY <1>5, <1>8, <1>10, <1>12, <2>2 DEF Sending, TransferOK
  <2> QED
    BY <2>1, <2>2
<1>13. QueueOK(s)
  <2>1. PICK q, S, new : q = snd.queue /\ S = DOMAIN snd.transfers /\ new = s.queue
    OBVIOUS
  <2>2. /\ q \in Seq(S) /\ \A i \in 1..Len(q) : snd.transfers[q[i]].next < snd.transfers[q[i]].chunks
        /\ \A i, j \in 1..Len(q) : q[i] = q[j] => i = j
    BY <1>5, <2>1 DEF Sending, QueueOK
  <2>3. q \in Seq(DOMAIN s.transfers) /\ id \in DOMAIN s.transfers
    BY <1>8, <2>1, <2>2, SeqMonotonic
  <2>4. /\ new \in Seq(DOMAIN s.transfers) /\ Len(new) = Len(q) + 1 /\ Len(q) \in Nat
        /\ new[Len(q) + 1] = id /\ \A i \in 1..Len(q) : new[i] = q[i]
    BY <1>6, <2>1, <2>3, AppendProperties, LenProperties
  <2>5. \A i \in 1..Len(q) : q[i] \in S /\ q[i] # id
    BY <1>7, <2>1, <2>2, ElementOfSeq
  <2>6. ASSUME NEW i \in 1..Len(new) PROVE i = Len(q) + 1 \/ i \in 1..Len(q)
    BY <2>4
  <2>7. t.next < t.chunks
    BY <1>1, ConstantsAre
  <2>8. ASSUME NEW i \in 1..Len(new) PROVE s.transfers[new[i]].next < s.transfers[new[i]].chunks
    <3>1. CASE i = Len(q) + 1
      BY <1>8, <2>4, <2>7, <3>1
    <3>2. CASE i \in 1..Len(q)
      BY <1>8, <2>1, <2>2, <2>4, <2>5, <3>2
    <3> QED
      BY <2>6, <3>1, <3>2
  <2>9. ASSUME NEW i \in 1..Len(new), NEW j \in 1..Len(new), new[i] = new[j] PROVE i = j
    BY <2>2, <2>4, <2>5, <2>6, <2>9
  <2> QED
    BY <2>1, <2>4, <2>8, <2>9 DEF QueueOK
<1>14. DOMAIN s.transfers \subseteq 1..Len(made')
  BY <1>1, <1>4, <1>7, <1>8
<1>15. Sending(s, sent, Len(made'))
  BY <1>6, <1>9, <1>12, <1>13, <1>14 DEF Sending
<1>16. IsPending(s)
  BY <1>6 DEF IsPending
<1>17. OneNew(s, c, count)
  BY <1>1, <1>6, <1>8 DEF OneNew
<1> QED
  BY <1>3, <1>4, <1>15, <1>16, <1>17

LEMMA EnqueueKeeps ==
    ASSUME SenderInvariant, NEW c \in Channel, NEW count \in ChunkCounts, EnqueueTransfer(c, count)
    PROVE  Sending(snd', sent', Len(made')) /\ made' \in Seq([chan : Channel, chunks : ChunkCounts])
BY EnqueueIs, FlushStep

\* Messages that are sent again.
LEMMA ResendIs ==
    ASSUME SenderInvariant, NEW due, Resend(due)
    PROVE  \E s : /\ Sending(s, sent, Len(made)) /\ NothingNew(s) /\ DOMAIN s.pending = DOMAIN snd.pending
                 /\ Flush(s, net \cup MessagesOf(due))
<1>1. PICK pending : pending = Tried(due)
  OBVIOUS
<1>2. PICK s : s = [snd EXCEPT !.pending = pending]
  OBVIOUS
<1>3. Flush(s, net \cup MessagesOf(due))
  BY <1>1, <1>2 DEF Resend
<1>4. Sending(snd, sent, Len(made))
  BY DEF SenderInvariant
<1>5. /\ DOMAIN s = {"transfers", "queue", "seq", "pending"} /\ s.transfers = snd.transfers
      /\ s.queue = snd.queue /\ s.seq = snd.seq /\ s.pending = pending
  BY <1>2, <1>4 DEF Sending
<1>6. ASSUME NEW k \in DOMAIN snd.pending PROVE s.pending[k].msg = snd.pending[k].msg /\ "msg" \in DOMAIN s.pending[k]
  <2>1. PICK p, again : p = snd.pending[k] /\ again = [p EXCEPT !.attempts = @ + 1]
    OBVIOUS
  <2>2. "msg" \in DOMAIN p
    BY <1>4, <2>1 DEF Sending, PendingOK, MessageOK
  <2>3. again.msg = p.msg /\ "msg" \in DOMAIN again
    BY <2>1, <2>2
  <2>4. s.pending[k] = IF k \in due THEN again ELSE p
    BY <1>1, <1>5, <2>1 DEF Tried
  <2> QED
    BY <2>1, <2>2, <2>3, <2>4
<1>7. DOMAIN s.pending = DOMAIN snd.pending
  BY <1>1, <1>5 DEF Tried
<1>8. \A x : OfTransfer(s, x) = OfTransfer(snd, x)
  BY <1>6, <1>7 DEF OfTransfer
<1>9. \A x \in DOMAIN s.transfers : TransferOK(s, x)
  BY <1>4, <1>5, <1>8 DEF Sending, TransferOK
<1>10. QueueOK(s) /\ NumbersOK(s, sent)
  BY <1>4, <1>5 DEF Sending, QueueOK, NumbersOK
<1>11. PendingOK(s, sent)
  BY <1>4, <1>5, <1>6, <1>7 DEF Sending, PendingOK, MessageOK
<1>12. Sending(s, sent, Len(made))
  BY <1>4, <1>5, <1>9, <1>10, <1>11 DEF Sending
<1>13. NothingNew(s)
  BY <1>5, <1>6, <1>7 DEF NothingNew, IsPending
<1> QED
  BY <1>3, <1>7, <1>12, <1>13

LEMMA ResendKeeps ==
    ASSUME SenderInvariant, NEW due, Resend(due)
    PROVE  Sending(snd', sent', Len(made))
BY ResendIs, FlushStep DEF NothingNew

\* An acknowledgement: its message is not pending any more, and a transfer that it
\* completes is in the queue no longer and has no other message pending.
LEMMA AcknowledgedKeeps ==
    ASSUME SenderInvariant, NEW key \in DOMAIN snd.pending
    PROVE  /\ Sending(Acknowledged(snd, key), sent, Len(made)) /\ NothingNew(Acknowledged(snd, key))
           /\ DOMAIN Acknowledged(snd, key).pending = DOMAIN snd.pending \ {key}
           /\ \A id \in DOMAIN snd.transfers \ DOMAIN Acknowledged(snd, key).transfers :
                 snd.transfers[id].next = snd.transfers[id].chunks /\ OfTransfer(snd, id) = {key}
<1>1. PICK id, left : id = snd.pending[key].msg.id /\ left = snd.transfers[id].remaining - 1
  OBVIOUS
<1>2. PICK open : open = IF left = 0 THEN Without(snd.transfers, {id})
                         ELSE [snd.transfers EXCEPT ![id].remaining = left]
  BY Zenon
<1>3. PICK s : s = Acknowledged(snd, key)
  OBVIOUS
<1>4. Sending(snd, sent, Len(made))
  BY DEF SenderInvariant
<1>5. /\ DOMAIN s = {"transfers", "queue", "seq", "pending"} /\ s.transfers = open
      /\ s.queue = snd.queue /\ s.seq = snd.seq /\ s.pending = Without(snd.pending, {key})
  <2>1. s = [snd EXCEPT !.pending = Without(@, {key}), !.transfers = open]
    BY <1>1, <1>2, <1>3, Zenon DEF Acknowledged
  <2> QED
    BY <1>4, <2>1 DEF Sending
<1>6. /\ DOMAIN s.pending = DOMAIN snd.pending \ {key}
      /\ \A k \in DOMAIN s.pending : s.pending[k] = snd.pending[k]
  BY <1>5 DEF Without
<1>7. /\ IsFiniteSet(DOMAIN snd.pending) /\ Cardinality(DOMAIN snd.pending) <= SendWindow
      /\ \A k \in DOMAIN snd.pending : MessageOK(snd, sent, k)
  BY <1>4 DEF Sending, PendingOK
<1>8. id \in DOMAIN snd.transfers
  BY <1>1, <1>7 DEF MessageOK
<1>9. PICK t : t = snd.transfers[id]
  OBVIOUS
<1>10. /\ t \in [chan : Channel, chunks : Nat \ {0}, next : Nat, remaining : Int]
       /\ t.next <= t.chunks
       /\ t.remaining = t.chunks - t.next + Cardinality(OfTransfer(snd, id)) /\ left = t.remaining - 1
  BY <1>1, <1>4, <1>8, <1>9 DEF Sending, TransferOK
<1>11. /\ OfTransfer(s, id) = OfTransfer(snd, id) \ {key} /\ key \in OfTransfer(snd, id)
       /\ \A x : x # id => OfTransfer(s, x) = OfTransfer(snd, x)
  BY <1>1, <1>6 DEF OfTransfer
<1>12. /\ IsFiniteSet(OfTransfer(s, id)) /\ Cardinality(OfTransfer(s, id)) \in Nat
       /\ Cardinality(OfTransfer(s, id)) = Cardinality(OfTransfer(snd, id)) - 1
       /\ Cardinality(OfTransfer(snd, id)) \in Nat
  <2>1. IsFiniteSet(OfTransfer(snd, id))
    <3>1. OfTransfer(snd, id) \subseteq DOMAIN snd.pending
      BY DEF OfTransfer
    <3> QED
      BY <1>7, <3>1, FS_Subset
  <2> QED
    BY <1>11, <2>1, FS_RemoveElement, FS_CardinalityType
<1>13. left = t.chunks - t.next + Cardinality(OfTransfer(s, id)) /\ left \in Int
  BY <1>10, <1>12
<1>14. /\ IsFiniteSet(DOMAIN s.pending) /\ Cardinality(DOMAIN s.pending) <= SendWindow
  <2>1. IsFiniteSet(DOMAIN s.pending) /\ Cardinality(DOMAIN s.pending) = Cardinality(DOMAIN snd.pending) - 1
    BY <1>6, <1>7, FS_RemoveElement
  <2>2. Cardinality(DOMAIN snd.pending) \in Nat
    BY <1>7, FS_CardinalityType
  <2> QED
    BY <1>7, <2>1, <2>2, ConstantsAre
<1>15. NumbersOK(s, sent)
  BY <1>4, <1>5 DEF Sending, NumbersOK
<1>16. /\ snd.queue \in Seq(DOMAIN snd.transfers)
       /\ \A i \in 1..Len(snd.queue) :
             snd.transfers[snd.queue[i]].next < snd.transfers[snd.queue[i]].chunks
       /\ \A i, j \in 1..Len(snd.queue) : snd.queue[i] = snd.queue[j] => i = j
  BY <1>4 DEF Sending, QueueOK
<1>17. Sending(s, sent, Len(made))
  <2>1. CASE left = 0
    <3>1. t.next = t.chunks /\ Cardinality(OfTransfer(s, id)) = 0
      <4>1. PICK n, x, y : n = Cardinality(OfTransfer(s, id)) /\ x = t.chunks /\ y = t.next
        OBVIOUS
      <4>2. n \in Nat /\ x \in Nat /\ y \in Nat /\ y <= x
        BY <1>10, <1>12, <4>1
      <4>3. 0 = x - y + n
        BY <1>13, <2>1, <4>1
      <4>4. n = 0 /\ x = y
        BY <4>2, <4>3
      <4> QED
        BY <4>1, <4>4
    <3>2. OfTransfer(s, id) = {}
      BY <1>12, <3>1, FS_EmptySet
    <3>3. /\ DOMAIN s.transfers = DOMAIN snd.transfers \ {id}
          /\ \A x \in DOMAIN s.transfers : s.transfers[x] = snd.transfers[x]
      BY <1>2, <1>5, <2>1 DEF Without
    <3>4. ASSUME NEW x \in DOMAIN s.transfers PROVE TransferOK(s, x)
      BY <1>4, <1>11, <3>3, <3>4 DEF Sending, TransferOK
    <3>5. ASSUME NEW k \in DOMAIN s.pending PROVE MessageOK(s, sent, k)
      <4>1. s.pending[k].msg.id # id
        BY <3>2, <3>5 DEF OfTransfer
      <4> QED
        BY <1>6, <1>7, <3>3, <3>5, <4>1 DEF MessageOK
    <3>6. ASSUME NEW i \in 1..Len(snd.queue) PROVE snd.queue[i] \in DOMAIN s.transfers
      <4>1. snd.queue[i] \in DOMAIN snd.transfers
        BY <1>16, ElementOfSeq
      <4>2. snd.queue[i] # id
        BY <1>9, <1>10, <1>16, <3>1
      <4> QED
        BY <3>3, <4>1, <4>2
    <3>7. snd.queue \in Seq(DOMAIN s.transfers)
      <4>1. PICK q, S : q = snd.queue /\ S = DOMAIN s.transfers
        OBVIOUS
      <4>2. Len(q) \in Nat /\ DOMAIN q = 1..Len(q) /\ q = [i \in 1..Len(q) |-> q[i]]
        BY <1>16, <4>1, LenProperties
      <4>3. q \in [1..Len(q) -> S]
        BY <3>6, <4>1, <4>2
      <4>4. q \in Seq(S)
        BY <4>2, <4>3, SeqDef
      <4> QED
        BY <4>1, <4>4
    <3>8. QueueOK(s)
      BY <1>5, <1>16, <3>3, <3>6, <3>7 DEF QueueOK
    <3> QED
      BY <1>4, <1>5, <1>14, <1>15, <3>3, <3>4, <3>5, <3>8 DEF Sending, PendingOK
  <2>2. CASE left # 0
    <3>1. PICK u : u = [t EXCEPT !.remaining = left]
      OBVIOUS
    <3>2. /\ u \in [chan : Channel, chunks : Nat \ {0}, next : Nat, remaining : Int]
          /\ u.next = t.next /\ u.chunks = t.chunks /\ u.remaining = left
      BY <1>10, <1>13, <3>1
    <3>3. /\ DOMAIN s.transfers = DOMAIN snd.transfers /\ s.transfers[id] = u
          /\ \A x \in DOMAIN s.transfers \ {id} : s.transfers[x] = snd.transfers[x]
      BY <1>2, <1>5, <1>8, <1>9, <2>2, <3>1
    <3>4. ASSUME NEW x \in DOMAIN s.transfers PROVE TransferOK(s, x)
      <4>1. CASE x = id
        BY <1>10, <1>13, <3>2, <3>3, <4>1 DEF TransferOK
      <4>2. CASE x # id
        BY <1>4, <1>11, <3>3, <3>4, <4>2 DEF Sending, TransferOK
      <4> QED
        BY <4>1, <4>2
    <3>5. \A k \in DOMAIN s.pending : MessageOK(s, sent, k)
      BY <1>6, <1>7, <3>3 DEF MessageOK
    <3>6. ASSUME NEW i \in 1..Len(snd.queue)
          PROVE  s.transfers[snd.queue[i]].next < s.transfers[snd.queue[i]].chunks
      <4>1. snd.queue[i] \in DOMAIN snd.transfers
        BY <1>16, ElementOfSeq
      <4>2. CASE snd.queue[i] = id
        BY <1>9, <1>16, <3>2, <3>3, <4>2
      <4>3. CASE snd.queue[i] # id
        BY <1>16, <3>3, <4>1, <4>3
      <4> QED
        BY <4>2, <4>3
    <3>7. QueueOK(s)
      BY <1>5, <1>16, <3>3, <3>6 DEF QueueOK
    <3> QED
      BY <1>4, <1>5, <1>14, <1>15, <3>3, <3>4, <3>5, <3>7 DEF Sending, PendingOK
  <2> QED
    BY <2>1, <2>2
<1>18. NothingNew(s)
  <2>1. IsPending(s)
    BY <1>6 DEF IsPending
  <2>2. ASSUME NEW x \in DOMAIN s.transfers
        PROVE  /\ x \in DOMAIN snd.transfers /\ s.transfers[x].chan = snd.transfers[x].chan
               /\ s.transfers[x].chunks = snd.transfers[x].chunks
               /\ s.transfers[x].next = snd.transfers[x].next
    <3>1. CASE left = 0
      BY <1>2, <1>5, <2>2, <3>1 DEF Without
    <3>2. CASE left # 0
      <4>1. PICK u : u = [t EXCEPT !.remaining = left]
        OBVIOUS
      <4>2. u.chan = t.chan /\ u.chunks = t.chunks /\ u.next = t.next
        BY <1>10, <4>1
      <4>3. s.transfers = [snd.transfers EXCEPT ![id] = u]
        BY <1>2, <1>5, <1>9, <3>2, <4>1
      <4> QED
        BY <1>8, <1>9, <2>2, <4>2, <4>3
    <3> QED
      BY <3>1, <3>2
  <2> QED
    BY <1>5, <2>1, <2>2 DEF NothingNew
<1>19. ASSUME NEW x \in DOMAIN snd.transfers \ DOMAIN s.transfers
       PROVE  snd.transfers[x].next = snd.transfers[x].chunks /\ OfTransfer(snd, x) = {key}
  <2>1. left = 0 /\ x = id
    <3>1. CASE left = 0
      BY <1>2, <1>5, <1>19, <3>1 DEF Without
    <3>2. CASE left # 0
      BY <1>2, <1>5, <1>19, <3>2
    <3> QED
      BY <3>1, <3>2
  <2>2. PICK n, a, b : n = Cardinality(OfTransfer(s, id)) /\ a = t.chunks /\ b = t.next
    OBVIOUS
  <2>3. n \in Nat /\ a \in Nat /\ b \in Nat /\ b <= a
    BY <1>10, <1>12, <2>2
  <2>4. 0 = a - b + n
    BY <1>13, <2>1, <2>2
  <2>5. n = 0 /\ a = b
    BY <2>3, <2>4
  <2>6. OfTransfer(s, id) = {}
    BY <1>12, <2>2, <2>5, FS_EmptySet
  <2>7. OfTransfer(snd, id) = {key}
    BY <1>11, <2>6
  <2> QED
    BY <1>9, <2>1, <2>2, <2>5, <2>7
<1> QED
  BY <1>3, <1>6, <1>17, <1>18, <1>19

\* An acknowledgement arrives, for the first time or again.
LEMMA ReceiveAckKeeps ==
    ASSUME SenderInvariant, NEW a, ReceiveAck(a)
    PROVE  Sending(snd', sent', Len(made)) /\ made' = made
<1>1. PICK key : key = <<a.chan, a.seq>>
  OBVIOUS
<1>2. PICK s : s = IF key \in DOMAIN snd.pending THEN Acknowledged(snd, key) ELSE snd
  OBVIOUS
<1>3. Flush(s, net) /\ made' = made
  BY <1>1, <1>2 DEF ReceiveAck
<1>4. Sending(s, sent, Len(made)) /\ IsPending(s)
  <2>1. CASE key \in DOMAIN snd.pending
    <3>1. s = Acknowledged(snd, key)
      BY <1>2, <2>1
    <3> QED
      BY <2>1, <3>1, AcknowledgedKeeps DEF NothingNew
  <2>2. CASE key \notin DOMAIN snd.pending
    BY <1>2, <2>2 DEF SenderInvariant, IsPending
  <2> QED
    BY <2>1, <2>2
<1> QED
  BY <1>3, <1>4, FlushStep

\* The end of the connection: nothing is owed any more.
LEMMA RejectKeeps ==
    ASSUME SenderInvariant, RejectReliable, UNCHANGED <<made, sent>>
    PROVE  Sending(snd', sent', Len(made'))
<1>1. Sending(snd, sent, Len(made))
  BY DEF SenderInvariant
<1>2. PICK s : s = [snd EXCEPT !.transfers = Empty, !.queue = <<>>, !.pending = Empty]
  OBVIOUS
<1>3. snd' = s /\ sent' = sent /\ made' = made
  BY <1>2 DEF RejectReliable
<1>4. /\ DOMAIN s = {"transfers", "queue", "seq", "pending"} /\ s.transfers = Empty
      /\ s.queue = <<>> /\ s.seq = snd.seq /\ s.pending = Empty
  BY <1>1, <1>2 DEF Sending
<1>5. DOMAIN s.transfers = {} /\ DOMAIN s.pending = {}
  BY <1>4 DEF Empty
<1>6. NumbersOK(s, sent)
  BY <1>1, <1>4 DEF Sending, NumbersOK
<1>7. PendingOK(s, sent)
  BY <1>5, FS_EmptySet, ConstantsAre DEF PendingOK
<1>8. QueueOK(s)
  <2>1. s.queue \in Seq(DOMAIN s.transfers) /\ Len(s.queue) = 0
    BY <1>4, EmptySeq
  <2>2. \A i \in 1..Len(s.queue) : FALSE
    BY <2>1
  <2> QED
    BY <2>1, <2>2 DEF QueueOK
<1>9. Sending(s, sent, Len(made))
  BY <1>4, <1>5, <1>6, <1>7, <1>8 DEF Sending
<1> QED
  BY <1>3, <1>9

\* Every step keeps the invariant, if the network and the resend delay are timely.
LEMMA SenderInvariantKeeps ==
    ASSUME SenderInvariant, [Next /\ Timely']_vars
    PROVE  SenderInvariant'
<1>1. CASE UNCHANGED vars
  BY <1>1 DEF SenderInvariant, NearPending, vars, peerVars
<1>2. CASE Next /\ Timely'
  <2>1. NearPending'
    BY <1>2 DEF Timely, NearPending
  <2>2. ASSUME UNCHANGED <<snd, made, sent>> PROVE SenderInvariant'
    BY <2>1, <2>2 DEF SenderInvariant
  <2>3. ASSUME RejectReliable, UNCHANGED <<made, sent>> PROVE SenderInvariant'
    BY <2>1, <2>3, RejectKeeps DEF SenderInvariant
  <2>4. CASE Connect
    BY <2>2, <2>4 DEF Connect
  <2>5. CASE SendConnect
    BY <2>2, <2>5 DEF SendConnect
  <2>6. CASE HandshakeTimeout
    BY <2>3, <2>6 DEF HandshakeTimeout, Disconnected, Fail
  <2>7. CASE ConnectResponse
    BY <2>2, <2>7 DEF ConnectResponse
  <2>8. CASE Disconnected
    BY <2>3, <2>8 DEF Disconnected, Fail
  <2>9. CASE Close
    BY <2>2, <2>9 DEF Close
  <2>10. CASE FlushEnds
    BY <2>2, <2>10 DEF FlushEnds
  <2>11. CASE FinishClosed
    BY <2>3, <2>11 DEF FinishClosed
  <2>12. CASE \E c \in Channel, count \in ChunkCounts : EnqueueTransfer(c, count)
    BY <2>1, <2>12, EnqueueKeeps DEF SenderInvariant
  <2>13. CASE \E a \in acks : ReceiveAck(a)
    BY <2>1, <2>13, ReceiveAckKeeps DEF SenderInvariant
  <2>14. CASE Maintain
    <3>1. PICK due : Resend(due) \/ SendTimeout(due)
      BY <2>14 DEF Maintain
    <3>2. CASE Resend(due)
      <4>1. made' = made
        BY <3>2 DEF Resend
      <4> QED
        BY <2>1, <3>2, <4>1, ResendKeeps DEF SenderInvariant
    <3>3. CASE SendTimeout(due)
      BY <2>3, <3>3 DEF SendTimeout, Fail
    <3> QED
      BY <3>1, <3>2, <3>3
  <2>15. CASE \E m \in net : Deliver(m)
    BY <2>2, <2>15 DEF Deliver
  <2>16. CASE \E id \in DOMAIN rcv.fragments : ExpireFragments(id)
    BY <2>2, <2>16 DEF ExpireFragments
  <2>17. CASE Lose
    BY <2>2, <2>17 DEF Lose
  <2> QED
    BY <1>2, <2>4, <2>5, <2>6, <2>7, <2>8, <2>9, <2>10, <2>11, <2>12, <2>13, <2>14, <2>15, <2>16, <2>17 DEF Next
<1> QED
  BY <1>1, <1>2

\* At first nothing was sent.
LEMMA SenderInvariantInit ==
    ASSUME Init
    PROVE  SenderInvariant
<1>1. PICK s : s = snd
  OBVIOUS
<1>2. /\ DOMAIN s = {"transfers", "queue", "seq", "pending"} /\ s.transfers = Empty
      /\ s.queue = <<>> /\ s.seq = [c \in Channel |-> 0] /\ s.pending = Empty
  BY <1>1 DEF Init
<1>3. DOMAIN s.transfers = {} /\ DOMAIN s.pending = {}
  BY <1>2 DEF Empty
<1>4. made = <<>> /\ sent = [c \in Channel |-> 0]
  BY DEF Init
<1>5. NumbersOK(s, sent)
  <2>1. 0 % Modulus = 0
    BY ConstantsAre
  <2> QED
    BY <1>2, <1>4, <2>1 DEF NumbersOK
<1>6. PendingOK(s, sent)
  BY <1>3, FS_EmptySet, ConstantsAre DEF PendingOK
<1>7. QueueOK(s)
  <2>1. s.queue \in Seq(DOMAIN s.transfers) /\ Len(s.queue) = 0
    BY <1>2, EmptySeq
  <2>2. \A i \in 1..Len(s.queue) : FALSE
    BY <2>1
  <2> QED
    BY <2>1, <2>2 DEF QueueOK
<1>8. Sending(s, sent, Len(made))
  BY <1>2, <1>3, <1>5, <1>6, <1>7 DEF Sending
<1>9. made \in Seq([chan : Channel, chunks : ChunkCounts])
  BY <1>4, EmptySeq
<1> QED
  BY <1>1, <1>3, <1>8, <1>9 DEF SenderInvariant, NearPending

\* flushReliableQueue, maintainReliableSends and the handling of acknowledgements:
\* as long as the network is timely every message is retried until it is
\* acknowledged and counts once, so that a transfer is complete exactly when all
\* its chunks have been acknowledged.
THEOREM RetriedWhenTimely == TimelySpec => []RetriedUntilAcked
<1>1. Init => SenderInvariant
  BY SenderInvariantInit
<1>2. SenderInvariant /\ [Next /\ Timely']_vars => SenderInvariant'
  BY SenderInvariantKeeps
<1>3. SenderInvariant => RetriedUntilAcked
  BY DEF SenderInvariant, Sending, TransferOK, OfTransfer, RetriedUntilAcked
<1> QED
  BY <1>1, <1>2, <1>3, PTL DEF TimelySpec
-----------------------------------------------------------------------------
(* Where the chunks are in the stream.  at[i] is the number of the first   *)
(* message of transfer i on its channel, for those transfers of which one  *)
(* was sent; to[c] is the number that comes next.                          *)

\* Transfers hist, of which the first Len(at) were begun, follow one another.
Starts(hist, at) ==
    /\ hist \in Seq([chan : Channel, chunks : ChunkCounts])
    /\ at \in Seq(Nat) /\ Len(at) <= Len(hist)
    /\ \A i, j \in 1..Len(at) :
          i < j /\ hist[i].chan = hist[j].chan => at[i] + hist[i].chunks <= at[j]

\* Message m is where its chunk belongs.
MessageAt(hist, at, to, m) ==
    /\ m.chan \in Channel /\ m.n \in Nat /\ m.n < to[m.chan] /\ m.seq = m.n % Modulus
    /\ m.id \in 1..Len(at) /\ hist[m.id].chan = m.chan
    /\ m.chunk \in 0..(hist[m.id].chunks - 1) /\ m.n = at[m.id] + m.chunk

\* The transfers that are not sent yet are the last ones, in the order of the queue,
\* and only the first of them may have been begun.
InTurnFrom(hist, at, s, to, n) ==
    /\ Len(hist) = n + Len(s.queue)
    /\ \A i \in 1..Len(s.queue) : s.queue[i] = n + i
    /\ \A i \in 1..Len(s.queue) : i > 1 => s.transfers[s.queue[i]].next = 0
    /\ n <= Len(at) /\ \A i \in 1..n : at[i] + hist[i].chunks <= to[hist[i].chan]
    /\ \/ /\ Len(at) = n
          /\ s.queue # <<>> => s.transfers[s.queue[1]].next = 0
       \/ /\ Len(at) = n + 1 /\ s.queue # <<>>
          /\ at[n + 1] + s.transfers[n + 1].next = to[hist[n + 1].chan]

InTurn(hist, at, s, to) == \E n \in Nat : InTurnFrom(hist, at, s, to, n)

OfMade(hist, s) ==
    \A id \in DOMAIN s.transfers :
        s.transfers[id].chan = hist[id].chan /\ s.transfers[id].chunks = hist[id].chunks

PendingAt(hist, at, s, to) == \A k \in DOMAIN s.pending : MessageAt(hist, at, to, s.pending[k].msg)

NetAt(hist, at, ms, to) == \A m \in ms : MessageAt(hist, at, to, m)

\* Message number n of channel c is pending.
IsOut(s, c, n) == \E k \in DOMAIN s.pending : s.pending[k].msg.chan = c /\ s.pending[k].msg.n = n

-----------------------------------------------------------------------------
(* The receiver r, before number e[c] on each channel.                     *)

IsReceived(r, e, c, n) ==
    n < e[c] \/ \E k \in DOMAIN r.withheld : r.withheld[k].chan = c /\ r.withheld[k].n = n

\* What came out of transfer id, given up or not, when its channel is at number next.
CameOut(hist, at, r, gone, next, id) ==
    LET chunks == hist[id].chunks
        out == id \in Range(r.got[hist[id].chan])
    IN  /\ Chunks(r.rcv, id) \subseteq 0..(chunks - 1)
        /\ id \notin gone /\ at[id] + chunks > next =>
              ~out /\ Chunks(r.rcv, id) = {x \in 0..(chunks - 1) : at[id] + x < next}
        /\ id \notin gone /\ at[id] + chunks <= next => out /\ Chunks(r.rcv, id) = {}
        /\ id \in gone =>
              ~out /\ \E x \in 0..(chunks - 1) : at[id] + x < next /\ x \notin Chunks(r.rcv, id)

IsMapping(f) == f = [x \in DOMAIN f |-> f[x]]

\* What came out on channel c came out in order.
OutInOrder(hist, at, r, c) ==
    /\ r.got[c] \in Seq(1..Len(at))
    /\ \A i \in 1..Len(r.got[c]) : hist[r.got[c][i]].chan = c
    /\ \A i, j \in 1..Len(r.got[c]) : i < j => r.got[c][i] < r.got[c][j]

Delivered(hist, at, r, gone, e) ==
    /\ DOMAIN r = {"rcv", "got"} /\ DOMAIN r.rcv = {"open", "expected", "withheld", "fragments"}
    /\ DOMAIN r.got = Channel /\ IsMapping(r.got) /\ gone \subseteq 1..Len(at)
    /\ DOMAIN r.rcv.fragments \subseteq 1..Len(at)
    /\ \A id \in DOMAIN r.rcv.fragments : r.rcv.fragments[id] # {}
    /\ \A id \in 1..Len(at) : CameOut(hist, at, r, gone, e[hist[id].chan], id)
    /\ \A c \in Channel : OutInOrder(hist, at, r, c)

\* The numbers of the receiver.
ReceiverNumbers(r, to, e) ==
    /\ e \in [Channel -> Nat] /\ r.expected \in [Channel -> Nat]
    /\ \A c \in Channel :
          r.expected[c] = e[c] % Modulus /\ e[c] <= to[c] /\ to[c] - e[c] <= ReceiveWindow + 1

WithheldAt(hist, at, r, to, e) ==
    \A k \in DOMAIN r.withheld :
        LET m == r.withheld[k]
        IN  /\ MessageAt(hist, at, to, m) /\ k = <<m.chan, m.seq>>
            /\ e[m.chan] < m.n /\ m.n <= e[m.chan] + ReceiveWindow

AcksReceived(as, r, to, e) ==
    \A a \in as :
        /\ a.chan \in Channel /\ a.n \in Nat /\ a.n < to[a.chan] /\ a.seq = a.n % Modulus
        /\ IsReceived(r, e, a.chan, a.n)

NoneForgotten(s, r, to, e) ==
    \A c \in Channel : \A n \in Nat : n < to[c] => IsReceived(r, e, c, n) \/ IsOut(s, c, n)

ToldTrue(hist, at, told, r, e) ==
    \A id \in DOMAIN told :
        told[id] = "ok" =>
            /\ id \in 1..Len(at)
            /\ \A x \in 0..(hist[id].chunks - 1) : IsReceived(r, e, hist[id].chan, at[id] + x)

-----------------------------------------------------------------------------
\* The inductive invariant of the channel.

ConnOK ==
    /\ DOMAIN conn = {"socket", "connected", "closing", "flushing", "closed", "attempts", "told"}
    /\ conn.closing \in BOOLEAN /\ (conn.flushing \/ conn.socket = "shut" => conn.closing)

SenderAt(at) ==
    /\ Starts(made, at) /\ OfMade(made, snd)
    /\ ~conn.closing => InTurn(made, at, snd, sent)
    /\ PendingAt(made, at, snd, sent) /\ NetAt(made, at, net, sent)

ReceiverAt(at, e) ==
    /\ ReceiverNumbers(rcv, sent, e) /\ WithheldAt(made, at, rcv, sent, e)
    /\ Delivered(made, at, [rcv |-> rcv, got |-> got], expired, e)
    /\ AcksReceived(acks, rcv, sent, e) /\ ToldTrue(made, at, outcome, rcv, e)
    /\ ~conn.closing => NoneForgotten(snd, rcv, sent, e)

ChannelInvariant ==
    /\ SenderInvariant /\ Timely /\ ConnOK
    /\ \E at : SenderAt(at) /\ (rcv.open => \E e : ReceiverAt(at, e))

\* From at0, with the numbers to0, to at, with the numbers to: transfers are begun after
\* what was sent before.
Further(hist0, at0, to0, hist, at, to) ==
    /\ Len(at0) <= Len(at)
    /\ \A i \in 1..Len(at0) : at[i] = at0[i] /\ hist[i] = hist0[i]
    /\ \A i \in 1..Len(at) : i > Len(at0) => to0[hist[i].chan] <= at[i]
    /\ \A c \in Channel : to0[c] <= to[c]

\* What was pending is, and so is what was sent meanwhile.
Grown(s0, to0, s, to) ==
    /\ \A k \in DOMAIN s0.pending : k \in DOMAIN s.pending /\ s.pending[k].msg = s0.pending[k].msg
    /\ \A c \in Channel : \A n \in Nat : to0[c] <= n /\ n < to[c] => IsOut(s, c, n)

Numbered(hist, at, s, ms, to) ==
    /\ Starts(hist, at) /\ OfMade(hist, s) /\ InTurn(hist, at, s, to)
    /\ PendingAt(hist, at, s, to) /\ NetAt(hist, at, ms, to)

\* A message stays where it is when more is sent.
LEMMA MessageStays ==
    ASSUME NEW hist0, NEW at0, NEW to0, NEW hist, NEW at, NEW to, NEW m,
           Starts(hist0, at0), Starts(hist, at), Further(hist0, at0, to0, hist, at, to),
           to0 \in [Channel -> Nat], to \in [Channel -> Nat], MessageAt(hist0, at0, to0, m)
    PROVE  MessageAt(hist, at, to, m)
<1>1. PICK i : i = m.id
  OBVIOUS
<1>2. /\ m.chan \in Channel /\ m.n \in Nat /\ m.n < to0[m.chan] /\ m.seq = m.n % Modulus
      /\ i \in 1..Len(at0) /\ hist0[i].chan = m.chan
      /\ m.chunk \in 0..(hist0[i].chunks - 1) /\ m.n = at0[i] + m.chunk
  BY <1>1 DEF MessageAt
<1>3. Len(at0) \in Nat /\ Len(at) \in Nat /\ Len(at0) <= Len(at)
  BY DEF Starts, Further
<1>4. i \in 1..Len(at) /\ at[i] = at0[i] /\ hist[i] = hist0[i]
  BY <1>2, <1>3 DEF Further
<1>5. to0[m.chan] <= to[m.chan] /\ to0[m.chan] \in Nat /\ to[m.chan] \in Nat
  BY <1>2 DEF Further
<1>6. m.n < to[m.chan]
  BY <1>2, <1>5
<1> QED
  BY <1>1, <1>2, <1>4, <1>6 DEF MessageAt

\* Two messages with the same number on the same channel are the same chunk.
LEMMA SameChunk ==
    ASSUME NEW hist, NEW at, Starts(hist, at), NEW i \in 1..Len(at), NEW j \in 1..Len(at),
           hist[i].chan = hist[j].chan,
           NEW x \in 0..(hist[i].chunks - 1), NEW y \in 0..(hist[j].chunks - 1),
           at[i] + x = at[j] + y
    PROVE  i = j /\ x = y
<1>1. /\ at[i] \in Nat /\ at[j] \in Nat /\ hist[i].chunks \in Nat /\ hist[j].chunks \in Nat
      /\ i \in Nat /\ j \in Nat
  <2>1. at \in Seq(Nat) /\ hist \in Seq([chan : Channel, chunks : ChunkCounts]) /\ Len(at) <= Len(hist)
    BY DEF Starts
  <2>2. Len(at) \in Nat /\ Len(hist) \in Nat
    BY <2>1
  <2>3. i \in 1..Len(hist) /\ j \in 1..Len(hist) /\ i \in Nat /\ j \in Nat
    BY <2>1, <2>2
  <2>4. hist[i] \in [chan : Channel, chunks : ChunkCounts] /\ hist[j] \in [chan : Channel, chunks : ChunkCounts]
    BY <2>1, <2>3, ElementOfSeq
  <2>5. at[i] \in Nat /\ at[j] \in Nat
    BY <2>1, ElementOfSeq
  <2> QED
    BY <2>3, <2>4, <2>5, ConstantsAre
<1>2. ASSUME i < j PROVE FALSE
  <2>1. at[i] + hist[i].chunks <= at[j]
    BY <1>2 DEF Starts
  <2> QED
    BY <1>1, <2>1
<1>3. ASSUME j < i PROVE FALSE
  <2>1. at[j] + hist[j].chunks <= at[i]
    BY <1>3 DEF Starts
  <2> QED
    BY <1>1, <2>1
<1>4. i = j
  BY <1>1, <1>2, <1>3
<1> QED
  BY <1>1, <1>4

\* The elements of the sequences.
LEMMA StartsAre ==
    ASSUME NEW hist, NEW at, Starts(hist, at)
    PROVE  /\ Len(at) \in Nat /\ Len(hist) \in Nat /\ Len(at) <= Len(hist)
           /\ \A i \in 1..Len(hist) : hist[i].chan \in Channel /\ hist[i].chunks \in Nat \ {0}
           /\ \A i \in 1..Len(at) : at[i] \in Nat /\ i \in 1..Len(hist)
<1>1. at \in Seq(Nat) /\ hist \in Seq([chan : Channel, chunks : ChunkCounts]) /\ Len(at) <= Len(hist)
  BY DEF Starts
<1>2. Len(at) \in Nat /\ Len(hist) \in Nat
  BY <1>1
<1>3. ASSUME NEW i \in 1..Len(hist) PROVE hist[i].chan \in Channel /\ hist[i].chunks \in Nat \ {0}
  <2>1. hist[i] \in [chan : Channel, chunks : ChunkCounts]
    BY <1>1, ElementOfSeq
  <2> QED
    BY <2>1, ConstantsAre
<1>4. ASSUME NEW i \in 1..Len(at) PROVE at[i] \in Nat /\ i \in 1..Len(hist)
  <2>1. at[i] \in Nat
    BY <1>1, ElementOfSeq
  <2> QED
    BY <1>1, <1>2, <2>1
<1> QED
  BY <1>1, <1>2, <1>3, <1>4

\* When the next message is sent its transfer may begin; the numbers stay right.
LEMMA SendsNumbered ==
    ASSUME NEW s, NEW to, NEW id, NEW m, NEW key, NEW new, NEW ahead, NEW last, NEW hist, NEW at, NEW ms,
           Sending(s, to, last), Sending(new, ahead, last), Sends(s, to, id, m, key, new, ahead),
           Numbered(hist, at, s, ms, to)
    PROVE  \E next : Numbered(hist, next, new, ms \cup {m}, ahead) /\ Further(hist, at, to, hist, next, ahead)
<1>1. PICK t, c : t = s.transfers[id] /\ c = t.chan
  BY Zenon
<1>2. /\ s.queue # <<>> /\ 1 \in 1..Len(s.queue) /\ id = s.queue[1] /\ id \in DOMAIN s.transfers
      /\ t.next < t.chunks /\ c \in Channel
      /\ m.chan = c /\ m.seq = s.seq[c] /\ m.n = to[c] /\ m.id = id /\ m.chunk = t.next
      /\ new.transfers = [s.transfers EXCEPT ![id].next = @ + 1]
      /\ new.queue = IF t.next + 1 >= t.chunks THEN Tail(s.queue) ELSE s.queue
      /\ DOMAIN new.pending = DOMAIN s.pending \cup {key} /\ new.pending[key].msg = m
      /\ \A k \in DOMAIN s.pending : new.pending[k] = s.pending[k]
      /\ ahead = [to EXCEPT ![c] = @ + 1]
  BY <1>1, Zenon DEF Sends
<1>3. /\ Starts(hist, at) /\ OfMade(hist, s) /\ InTurn(hist, at, s, to)
      /\ PendingAt(hist, at, s, to) /\ NetAt(hist, at, ms, to)
  BY DEF Numbered
<1>4. /\ Len(at) \in Nat /\ Len(hist) \in Nat /\ Len(at) <= Len(hist)
      /\ \A i \in 1..Len(hist) : hist[i].chan \in Channel /\ hist[i].chunks \in Nat \ {0}
      /\ \A i \in 1..Len(at) : at[i] \in Nat /\ i \in 1..Len(hist)
  BY <1>3, StartsAre
<1>5. s.queue \in Seq(DOMAIN s.transfers) /\ Len(s.queue) \in Nat /\ TransferOK(s, id)
  BY <1>2 DEF Sending, QueueOK
<1>6. /\ t \in [chan : Channel, chunks : Nat \ {0}, next : Nat, remaining : Int]
  BY <1>1, <1>5, SMTT(30) DEF TransferOK
<1>7. hist[id].chan = c /\ hist[id].chunks = t.chunks
  BY <1>1, <1>2, <1>3 DEF OfMade
<1>25. PICK n \in Nat : InTurnFrom(hist, at, s, to, n)
  BY <1>3 DEF InTurn
<1>8. /\ Len(hist) = n + Len(s.queue)
      /\ \A i \in 1..Len(s.queue) : s.queue[i] = n + i
      /\ \A i \in 1..Len(s.queue) : i > 1 => s.transfers[s.queue[i]].next = 0
      /\ n <= Len(at) /\ \A i \in 1..n : at[i] + hist[i].chunks <= to[hist[i].chan]
      /\ \/ /\ Len(at) = n
            /\ s.queue # <<>> => s.transfers[s.queue[1]].next = 0
         \/ /\ Len(at) = n + 1 /\ s.queue # <<>>
            /\ at[n + 1] + s.transfers[n + 1].next = to[hist[n + 1].chan]
  BY <1>25 DEF InTurnFrom
<1>9. id = n + 1 /\ id \in Nat /\ id <= Len(hist)
  BY <1>2, <1>4, <1>5, <1>8
<1>10. /\ to \in [Channel -> Nat] /\ ahead \in [Channel -> Nat] /\ ahead[c] = to[c] + 1
       /\ s.seq[c] = to[c] % Modulus /\ \A d \in Channel \ {c} : ahead[d] = to[d]
  BY <1>2 DEF Sending, NumbersOK
<1>11. \A d \in Channel : to[d] \in Nat /\ ahead[d] \in Nat /\ to[d] <= ahead[d]
  BY <1>2, <1>10
<1>12. PICK next :
         /\ next \in Seq(Nat) /\ Len(next) = id /\ next[id] + t.next = to[c]
         /\ \A i \in 1..Len(at) : next[i] = at[i]
         /\ \A i \in 1..id : i > Len(at) => i = id /\ next[i] = to[c]
  <2>1. at \in Seq(Nat)
    BY <1>3 DEF Starts
  <2>2. CASE Len(at) = n /\ s.transfers[s.queue[1]].next = 0
    <3>1. PICK longer : longer = Append(at, to[c])
      OBVIOUS
    <3>2. to[c] \in Nat
      BY <1>2, <1>11
    <3>3. /\ longer \in Seq(Nat) /\ Len(longer) = Len(at) + 1 /\ longer[Len(at) + 1] = to[c]
          /\ \A i \in 1..Len(at) : longer[i] = at[i]
      BY <2>1, <3>1, <3>2, AppendProperties, SMTT(30)
    <3>4. t.next = 0
      BY <1>1, <1>2, <2>2
    <3>5. Len(longer) = id /\ longer[id] + t.next = to[c]
      BY <1>9, <2>2, <3>2, <3>3, <3>4
    <3>6. \A i \in 1..id : i > Len(at) => i = id /\ longer[i] = to[c]
      BY <1>9, <1>4, <2>2, <3>3
    <3> QED
      BY <3>3, <3>5, <3>6
  <2>3. CASE Len(at) = n + 1 /\ at[n + 1] + s.transfers[n + 1].next = to[hist[n + 1].chan]
    <3>1. at[id] + t.next = to[c] /\ Len(at) = id
      BY <1>1, <1>7, <1>9, <2>3
    <3>2. \A i \in 1..id : ~(i > Len(at))
      BY <1>9, <3>1
    <3> QED
      BY <2>1, <3>1, <3>2
  <2> QED
    BY <1>2, <1>8, <2>2, <2>3
<1>13. ASSUME NEW i \in 1..n
       PROVE  /\ i \in 1..Len(at) /\ i \in 1..id /\ i \in 1..Len(hist) /\ next[i] = at[i]
              /\ next[i] + hist[i].chunks <= to[hist[i].chan]
  <2>1. n <= Len(at) /\ at[i] + hist[i].chunks <= to[hist[i].chan]
    BY <1>8
  <2>2. i \in 1..Len(at) /\ i \in 1..id /\ i \in 1..Len(hist)
    <3>1. Len(at) \in Nat /\ Len(hist) \in Nat
      BY <1>4
    <3> QED
      BY <1>9, <2>1, <3>1
  <2>3. next[i] = at[i]
    BY <1>12, <2>2
  <2> QED
    BY <2>1, <2>2, <2>3
<1>14. Starts(hist, next)
  <2>1. hist \in Seq([chan : Channel, chunks : ChunkCounts])
    BY <1>3 DEF Starts
  <2>2. ASSUME NEW i \in 1..id, NEW j \in 1..id, i < j, hist[i].chan = hist[j].chan
        PROVE  next[i] + hist[i].chunks <= next[j]
    <3>1. i \in 1..n /\ i \in Nat /\ j \in Nat
      BY <1>9, <2>2
    <3>2. CASE j > Len(at)
      <4>1. j = id /\ next[j] = to[c]
        BY <1>12, <3>2
      <4>2. next[i] + hist[i].chunks <= to[hist[i].chan]
        BY <1>13, <3>1
      <4> QED
        BY <1>7, <2>2, <4>1, <4>2
    <3>3. CASE ~(j > Len(at))
      <4>1. j \in 1..Len(at) /\ i \in 1..Len(at)
        BY <1>4, <2>2, <3>1, <3>3
      <4>2. at[i] + hist[i].chunks <= at[j]
        BY <1>3, <2>2, <4>1 DEF Starts
      <4> QED
        BY <1>12, <4>1, <4>2
    <3> QED
      BY <3>2, <3>3
  <2> QED
    BY <1>9, <1>12, <2>1, <2>2 DEF Starts
<1>15. Further(hist, at, to, hist, next, ahead)
  <2>1. Len(at) <= Len(next)
    BY <1>8, <1>9, <1>12
  <2>2. ASSUME NEW i \in 1..Len(next), i > Len(at) PROVE to[hist[i].chan] <= next[i]
    BY <1>2, <1>7, <1>11, <1>12, <2>2
  <2> QED
    BY <1>11, <1>12, <2>1, <2>2 DEF Further
<1>16. MessageAt(hist, next, ahead, m)
  <2>1. m.n \in Nat /\ m.n < ahead[m.chan] /\ m.seq = m.n % Modulus
    BY <1>2, <1>10, <1>11
  <2>2. m.id \in 1..Len(next) /\ hist[m.id].chan = m.chan
    BY <1>2, <1>7, <1>9, <1>12
  <2>3. m.chunk \in 0..(hist[m.id].chunks - 1)
    BY <1>2, <1>6, <1>7
  <2>4. m.n = next[m.id] + m.chunk
    BY <1>2, <1>12
  <2> QED
    BY <1>2, <2>1, <2>2, <2>3, <2>4 DEF MessageAt
<1>17. ASSUME NEW other, MessageAt(hist, at, to, other) PROVE MessageAt(hist, next, ahead, other)
  BY <1>3, <1>10, <1>14, <1>15, <1>17, MessageStays
<1>18. PendingAt(hist, next, new, ahead) /\ NetAt(hist, next, ms \cup {m}, ahead)
  <2>1. ASSUME NEW k \in DOMAIN new.pending PROVE MessageAt(hist, next, ahead, new.pending[k].msg)
    <3>1. CASE k = key
      BY <1>2, <1>16, <3>1
    <3>2. CASE k # key
      <4>1. k \in DOMAIN s.pending /\ new.pending[k] = s.pending[k]
        BY <1>2, <3>2
      <4>2. MessageAt(hist, at, to, s.pending[k].msg)
        BY <1>3, <4>1 DEF PendingAt
      <4> QED
        BY <1>17, <4>1, <4>2
    <3> QED
      BY <3>1, <3>2
  <2>2. ASSUME NEW other \in ms \cup {m} PROVE MessageAt(hist, next, ahead, other)
    <3>1. CASE other \in ms
      BY <1>3, <1>17, <3>1 DEF NetAt
    <3> QED
      BY <1>16, <3>1
  <2> QED
    BY <2>1, <2>2 DEF PendingAt, NetAt
<1>19. PICK u : u = [t EXCEPT !.next = @ + 1]
  BY Zenon
<1>20. u.next = t.next + 1 /\ u.chan = t.chan /\ u.chunks = t.chunks
  BY <1>6, <1>19
<1>21. /\ DOMAIN new.transfers = DOMAIN s.transfers /\ new.transfers[id] = u
       /\ \A x \in DOMAIN s.transfers \ {id} : new.transfers[x] = s.transfers[x]
  BY <1>1, <1>2, <1>19, Zenon
<1>22. OfMade(hist, new)
  <2>1. ASSUME NEW x \in DOMAIN new.transfers
        PROVE  new.transfers[x].chan = hist[x].chan /\ new.transfers[x].chunks = hist[x].chunks
    <3>1. CASE x = id
      BY <1>1, <1>7, <1>20, <1>21, <3>1
    <3>2. CASE x # id
      BY <1>3, <1>21, <3>2 DEF OfMade
    <3> QED
      BY <3>1, <3>2
  <2> QED
    BY <2>1 DEF OfMade
<1>23. ASSUME NEW i \in 1..Len(s.queue), i > 1
       PROVE  s.queue[i] # id /\ s.queue[i] \in DOMAIN s.transfers /\ new.transfers[s.queue[i]].next = 0
  <2>1. s.queue[i] = n + i /\ s.transfers[s.queue[i]].next = 0 /\ s.queue[i] # id
    BY <1>8, <1>9, <1>23
  <2>2. s.queue[i] \in DOMAIN s.transfers
    BY <1>5, ElementOfSeq
  <2> QED
    BY <1>21, <2>1, <2>2
<1>24. InTurn(hist, next, new, ahead)
  <2>1. ASSUME NEW i \in 1..n PROVE next[i] + hist[i].chunks <= ahead[hist[i].chan]
    <3>1. /\ next[i] + hist[i].chunks <= to[hist[i].chan] /\ hist[i].chan \in Channel
          /\ next[i] \in Nat /\ hist[i].chunks \in Nat
      BY <1>4, <1>13
    <3> QED
      BY <1>11, <3>1
  <2>2. CASE t.next + 1 >= t.chunks
    <3>1. PICK q, rest : q = s.queue /\ rest = Tail(q)
      OBVIOUS
    <3>2. /\ Len(rest) = Len(q) - 1 /\ Len(q) \in Nat /\ Len(rest) \in Nat /\ rest # q
          /\ \A i \in 1..Len(rest) : rest[i] = q[i + 1] /\ i + 1 \in 1..Len(q) /\ i \in Nat
      <4>1. q \in Seq(DOMAIN s.transfers) /\ q # <<>>
        BY <1>2, <1>5, <3>1
      <4>2. /\ rest \in Seq(DOMAIN s.transfers) /\ Len(rest) = Len(q) - 1
            /\ \A i \in 1..Len(rest) : rest[i] = q[i + 1]
        BY <3>1, <4>1, HeadTailProperties
      <4>3. Len(q) \in Nat /\ Len(rest) \in Nat
        BY <4>1, <4>2
      <4>4. rest # q
        BY <4>2, <4>3
      <4>5. ASSUME NEW i \in 1..Len(rest) PROVE i + 1 \in 1..Len(q) /\ i \in Nat
        BY <4>2, <4>3
      <4> QED
        BY <4>2, <4>3, <4>4, <4>5
    <3>3. new.queue = rest
      BY <1>2, <2>2, <3>1
    <3>4. t.next + 1 = t.chunks /\ next[id] + hist[id].chunks = ahead[c]
      <4>1. t.next \in Nat /\ t.chunks \in Nat /\ t.next < t.chunks
        BY <1>2, <1>6
      <4>2. t.next + 1 = t.chunks
        BY <2>2, <4>1
      <4>3. next[id] \in Nat /\ to[c] \in Nat
        BY <1>2, <1>9, <1>11, <1>12, ElementOfSeq
      <4> QED
        BY <1>7, <1>10, <1>12, <4>1, <4>2, <4>3
    <3>5. ASSUME NEW i \in 1..Len(rest)
          PROVE  rest[i] = id + i /\ new.transfers[rest[i]].next = 0
      <4>1. i + 1 \in 1..Len(q) /\ i + 1 > 1 /\ rest[i] = q[i + 1]
        BY <3>2
      <4>2. q[i + 1] = n + (i + 1)
        BY <1>8, <3>1, <4>1
      <4>3. new.transfers[q[i + 1]].next = 0
        BY <1>23, <3>1, <4>1
      <4> QED
        BY <1>9, <3>2, <4>1, <4>2, <4>3
    <3>6. \A i \in 1..id : next[i] + hist[i].chunks <= ahead[hist[i].chan]
      <4>1. ahead[c] \in Nat /\ hist[id].chan = c
        BY <1>2, <1>7, <1>11
      <4>2. ASSUME NEW i \in 1..id PROVE i \in 1..n \/ i = id
        BY <1>9
      <4> QED
        BY <2>1, <3>4, <4>1, <4>2
    <3>7. Len(hist) = id + Len(rest)
      <4>1. PICK a, b : a = Len(q) /\ b = Len(rest)
        OBVIOUS
      <4>2. Len(hist) = n + a /\ id = n + 1 /\ b = a - 1 /\ a \in Nat
        BY <1>8, <1>9, <3>1, <3>2, <4>1
      <4>3. id + b = Len(hist)
        BY <4>2
      <4> QED
        BY <4>1, <4>3
    <3>8. rest # <<>> => new.transfers[rest[1]].next = 0
      <4>1. ASSUME rest # <<>> PROVE 1 \in 1..Len(rest)
        <5>1. rest \in Seq(DOMAIN s.transfers)
          BY <1>2, <1>5, <3>1, HeadTailProperties
        <5>2. Len(rest) # 0
          BY <4>1, <5>1, EmptySeq
        <5> QED
          BY <3>2, <5>2
      <4> QED
        BY <3>5, <4>1
    <3> QED
      <4>1. Len(next) = id /\ id <= id /\ id \in Nat
        BY <1>9, <1>12
      <4>2. InTurnFrom(hist, next, new, ahead, id)
        BY <3>3, <3>5, <3>6, <3>7, <3>8, <4>1 DEF InTurnFrom
      <4> QED
        BY <4>1, <4>2 DEF InTurn
  <2>3. CASE ~(t.next + 1 >= t.chunks)
    <3>1. new.queue = s.queue
      BY <1>2, <2>3
    <3>2. next[n + 1] + new.transfers[n + 1].next = ahead[hist[n + 1].chan]
      <4>1. next[id] \in Nat /\ to[c] \in Nat /\ t.next \in Nat
        BY <1>2, <1>6, <1>9, <1>11, <1>12, ElementOfSeq
      <4>2. next[id] + u.next = ahead[c]
        BY <1>10, <1>12, <1>20, <4>1
      <4> QED
        BY <1>7, <1>9, <1>21, <4>2
    <3>3. \A i \in 1..Len(s.queue) : i > 1 => new.transfers[s.queue[i]].next = 0
      BY <1>23
    <3>4. n <= Len(next) /\ Len(next) = n + 1
      BY <1>9, <1>12
    <3> QED
      <4>1. InTurnFrom(hist, next, new, ahead, n)
        BY <1>2, <1>8, <2>1, <3>1, <3>2, <3>3, <3>4 DEF InTurnFrom
      <4> QED
        BY <4>1 DEF InTurn
  <2> QED
    BY <2>2, <2>3
<1> QED
  BY <1>14, <1>15, <1>18, <1>22, <1>24 DEF Numbered

\* Sending goes on.
LEMMA FurtherAgain ==
    ASSUME NEW hist0, NEW at0, NEW to0, NEW hist, NEW at, NEW to, NEW next, NEW ahead,
           Starts(hist0, at0), Starts(hist, at), Starts(hist, next),
           to0 \in [Channel -> Nat], to \in [Channel -> Nat], ahead \in [Channel -> Nat],
           Further(hist0, at0, to0, hist, at, to), Further(hist, at, to, hist, next, ahead)
    PROVE  Further(hist0, at0, to0, hist, next, ahead)
<1>1. /\ Len(at0) \in Nat /\ Len(at) \in Nat /\ Len(next) \in Nat
      /\ Len(at0) <= Len(at) /\ Len(at) <= Len(next)
      /\ \A i \in 1..Len(at0) : at[i] = at0[i] /\ hist[i] = hist0[i]
      /\ \A i \in 1..Len(at) : i > Len(at0) => to0[hist[i].chan] <= at[i]
      /\ \A i \in 1..Len(at) : next[i] = at[i]
      /\ \A i \in 1..Len(next) : i > Len(at) => to[hist[i].chan] <= next[i]
      /\ \A i \in 1..Len(next) : next[i] \in Nat /\ hist[i].chan \in Channel
  <2>1. /\ Len(at0) \in Nat /\ Len(at) \in Nat /\ Len(next) \in Nat
        /\ \A i \in 1..Len(next) : next[i] \in Nat /\ hist[i].chan \in Channel
    BY StartsAre
  <2> QED
    BY <2>1 DEF Further
<1>2. \A c \in Channel : to0[c] \in Nat /\ to[c] \in Nat /\ ahead[c] \in Nat /\ to0[c] <= to[c] /\ to[c] <= ahead[c]
  BY DEF Further
<1>3. ASSUME NEW i \in 1..Len(at0) PROVE next[i] = at0[i] /\ hist[i] = hist0[i]
  <2>1. i \in 1..Len(at)
    BY <1>1
  <2> QED
    BY <1>1, <2>1
<1>4. ASSUME NEW i \in 1..Len(next), i > Len(at0) PROVE to0[hist[i].chan] <= next[i]
  <2>1. CASE i > Len(at)
    BY <1>1, <1>2, <2>1
  <2>2. CASE ~(i > Len(at))
    <3>1. i \in 1..Len(at)
      BY <1>1, <2>2
    <3> QED
      BY <1>1, <1>4, <3>1
  <2> QED
    BY <2>1, <2>2
<1>5. \A c \in Channel : to0[c] <= ahead[c]
  BY <1>2
<1>6. Len(at0) <= Len(next)
  BY <1>1
<1> QED
  BY <1>3, <1>4, <1>5, <1>6 DEF Further

\* The new message is pending, as those before it.
LEMMA SendsGrown ==
    ASSUME NEW s0, NEW to0, NEW s, NEW to, NEW id, NEW m, NEW key, NEW new, NEW ahead, NEW last,
           Sending(s, to, last), Sends(s, to, id, m, key, new, ahead), Grown(s0, to0, s, to)
    PROVE  Grown(s0, to0, new, ahead)
<1>1. PICK c : c = s.transfers[id].chan
  BY Zenon
<1>2. /\ c \in Channel /\ m.chan = c /\ m.n = to[c]
      /\ DOMAIN new.pending = DOMAIN s.pending \cup {key} /\ new.pending[key].msg = m
      /\ \A k \in DOMAIN s.pending : new.pending[k] = s.pending[k]
      /\ ahead = [to EXCEPT ![c] = @ + 1]
  BY <1>1, Zenon DEF Sends
<1>3. to \in [Channel -> Nat]
  BY DEF Sending, NumbersOK
<1>4. ASSUME NEW k \in DOMAIN s0.pending
      PROVE  k \in DOMAIN new.pending /\ new.pending[k].msg = s0.pending[k].msg
  <2>1. k \in DOMAIN s.pending /\ s.pending[k].msg = s0.pending[k].msg
    BY DEF Grown
  <2> QED
    BY <1>2, <2>1
<1>5. ASSUME NEW d \in Channel, NEW n \in Nat, to0[d] <= n, n < ahead[d]
      PROVE  IsOut(new, d, n)
  <2>1. CASE n < to[d]
    <3>1. PICK k \in DOMAIN s.pending : s.pending[k].msg.chan = d /\ s.pending[k].msg.n = n
      BY <1>5, <2>1 DEF Grown, IsOut
    <3>2. k \in DOMAIN new.pending /\ new.pending[k] = s.pending[k]
      BY <1>2, <3>1
    <3> QED
      BY <3>1, <3>2 DEF IsOut
  <2>2. CASE ~(n < to[d])
    <3>1. d = c /\ n = to[c]
      <4>1. to[d] \in Nat /\ to[c] \in Nat /\ ahead[c] = to[c] + 1 /\ (d # c => ahead[d] = to[d])
        BY <1>2, <1>3
      <4>2. d = c
        BY <1>5, <2>2, <4>1
      <4> QED
        BY <1>5, <2>2, <4>1, <4>2
    <3>2. key \in DOMAIN new.pending /\ new.pending[key].msg.chan = d /\ new.pending[key].msg.n = n
      BY <1>2, <3>1
    <3> QED
      BY <3>2 DEF IsOut
  <2> QED
    BY <2>1, <2>2
<1> QED
  BY <1>4, <1>5 DEF Grown

\* The state f of the loop, which began with sender s0 and numbers to0.
Flushing(f, last, first, hist, at0, s0, to0) ==
    /\ Sending(f.snd, f.sent, last) /\ Lag(f.snd, f.sent, first)
    /\ Grown(s0, to0, f.snd, f.sent)
    /\ \E at : /\ Numbered(hist, at, f.snd, f.net, f.sent)
               /\ Further(hist, at0, to0, hist, at, f.sent)

LEMMA FlushNextNumbered ==
    ASSUME NEW f, NEW last, NEW first, NEW hist, NEW at0, NEW s0, NEW to0,
           Starts(hist, at0), to0 \in [Channel -> Nat], Flushing(f, last, first, hist, at0, s0, to0)
    PROVE  Flushing(FlushNext(f), last, first, hist, at0, s0, to0)
<1>1. CASE CanSend(f.snd)
  <2>1. FlushNext(f) = SendNext(f)
    BY <1>1 DEF FlushNext
  <2>2. Sending(f.snd, f.sent, last) /\ Lag(f.snd, f.sent, first) /\ Grown(s0, to0, f.snd, f.sent)
    BY DEF Flushing
  <2>3. PICK new, ahead, ms : new = SendNext(f).snd /\ ahead = SendNext(f).sent /\ ms = SendNext(f).net
    OBVIOUS
  <2>4. Sending(new, ahead, last) /\ Lag(new, ahead, first)
    BY <1>1, <2>2, <2>3, SendNextKeeps
  <2>5. PICK id, m, key : Sends(f.snd, f.sent, id, m, key, new, ahead) /\ ms = f.net \cup {m}
    BY <1>1, <2>2, <2>3, SendNextDoes
  <2>6. Grown(s0, to0, new, ahead)
    BY <2>2, <2>5, SendsGrown
  <2>7. PICK at : Numbered(hist, at, f.snd, f.net, f.sent) /\ Further(hist, at0, to0, hist, at, f.sent)
    BY DEF Flushing
  <2>8. PICK next : Numbered(hist, next, new, ms, ahead) /\ Further(hist, at, f.sent, hist, next, ahead)
    BY <2>2, <2>4, <2>5, <2>7, SendsNumbered
  <2>9. Further(hist, at0, to0, hist, next, ahead)
    <3>1. Starts(hist, at) /\ Starts(hist, next)
      BY <2>7, <2>8 DEF Numbered
    <3>2. f.sent \in [Channel -> Nat] /\ ahead \in [Channel -> Nat]
      BY <2>2, <2>4 DEF Sending, NumbersOK
    <3> QED
      BY <2>7, <2>8, <3>1, <3>2, FurtherAgain
  <2> QED
    BY <2>1, <2>3, <2>4, <2>6, <2>8, <2>9 DEF Flushing
<1>2. CASE ~CanSend(f.snd)
  <2>1. FlushNext(f) = f
    BY <1>2 DEF FlushNext
  <2> QED
    BY <2>1
<1> QED
  BY <1>1, <1>2

\* Every round of a run keeps the numbers.
LEMMA RunNumbered ==
    ASSUME NEW f, NEW size \in Nat, NEW base, NEW last, NEW first, NEW hist, NEW at0, NEW s0, NEW to0,
           Starts(hist, at0), to0 \in [Channel -> Nat],
           IsRun(f, size, base), Flushing(base, last, first, hist, at0, s0, to0)
    PROVE  Flushing(f[size], last, first, hist, at0, s0, to0)
<1>1. PICK T : T = {k \in 0..size : ~Flushing(f[k], last, first, hist, at0, s0, to0)}
  OBVIOUS
<1>2. size \in 0..size
  OBVIOUS
<1>3. CASE T = {}
  BY <1>1, <1>2, <1>3
<1>4. CASE T # {}
  <2>1. T \subseteq Nat
    BY <1>1
  <2>2. PICK n \in T : \A m \in T : n <= m
    BY <1>4, <2>1, LeastNat
  <2>3. n \in 0..size /\ n \in Nat
    BY <1>1
  <2>4. f[n] = IF n = 0 THEN base ELSE FlushNext(f[n - 1])
    BY <2>3 DEF IsRun
  <2>5. n # 0
    BY <1>1, <2>4
  <2>6. n - 1 \in 0..size /\ n - 1 \notin T
    BY <2>2, <2>3, <2>5
  <2>7. Flushing(f[n - 1], last, first, hist, at0, s0, to0)
    BY <1>1, <2>6
  <2>8. f[n] = FlushNext(f[n - 1])
    BY <2>4, <2>5
  <2> QED
    BY <1>1, <2>7, <2>8, FlushNextNumbered
<1> QED
  BY <1>3, <1>4

\* Flushing the queue begins further transfers and keeps all numbers right.
LEMMA FlushNumbered ==
    ASSUME NEW s, NEW ms, NEW last, NEW first, NEW hist, NEW at,
           Sending(s, sent, last), Lag(s, sent, first), Numbered(hist, at, s, ms, sent), Flush(s, ms)
    PROVE  /\ Grown(s, sent, snd', sent')
           /\ \E next : Numbered(hist, next, snd', net', sent') /\ Further(hist, at, sent, hist, next, sent')
<1>1. PICK base : base = [snd |-> s, net |-> ms, sent |-> sent]
  OBVIOUS
<1>2. PICK size : size = Rounds(s)
  OBVIOUS
<1>3. size \in Nat
  <2>1. Len(s.queue) \in Nat /\ MostChunks \in Nat
    BY ConstantsAre DEF Sending, QueueOK
  <2> QED
    BY <1>2, <2>1 DEF Rounds
<1>4. PICK f : f = CHOOSE g : IsRun(g, size, base)
  OBVIOUS
<1>5. IsRun(f, size, base)
  BY <1>3, <1>4, RunExists, Zenon
<1>6. Flushed(s, ms) = f[size]
  BY <1>1, <1>2, <1>4 DEF Flushed, IsRun
<1>7. base.snd = s /\ base.sent = sent /\ base.net = ms
  BY <1>1
<1>8. sent \in [Channel -> Nat] /\ Starts(hist, at)
  BY DEF Sending, NumbersOK, Numbered
<1>9. Further(hist, at, sent, hist, at, sent)
  <2>1. Len(at) \in Nat
    BY <1>8, StartsAre
  <2>2. \A i \in 1..Len(at) : ~(i > Len(at))
    BY <2>1
  <2>3. \A c \in Channel : sent[c] <= sent[c]
    BY <1>8
  <2> QED
    BY <2>1, <2>2, <2>3 DEF Further
<1>10. Grown(s, sent, s, sent)
  <2>1. \A c \in Channel : \A n \in Nat : ~(sent[c] <= n /\ n < sent[c])
    BY <1>8
  <2> QED
    BY <2>1 DEF Grown
<1>11. Flushing(base, last, first, hist, at, s, sent)
  BY <1>7, <1>9, <1>10 DEF Flushing
<1>12. Flushing(f[size], last, first, hist, at, s, sent)
  BY <1>3, <1>5, <1>8, <1>11, RunNumbered
<1>13. snd' = f[size].snd /\ net' = f[size].net /\ sent' = f[size].sent
  BY <1>6 DEF Flush
<1> QED
  BY <1>12, <1>13 DEF Flushing

-----------------------------------------------------------------------------
(* The steps of the sender.                                                *)

\* A sender with nothing new has the same numbers.
LEMMA NumberedStays ==
    ASSUME NEW at, SenderAt(at), ~conn.closing, NEW s, Sending(s, sent, Len(made)), NothingNew(s),
           NEW ms, NetAt(made, at, ms, sent)
    PROVE  Numbered(made, at, s, ms, sent)
<1>1. /\ Starts(made, at) /\ OfMade(made, snd) /\ InTurn(made, at, snd, sent)
      /\ PendingAt(made, at, snd, sent)
  BY DEF SenderAt
<1>2. OfMade(made, s)
  BY <1>1 DEF NothingNew, OfMade
<1>3. PendingAt(made, at, s, sent)
  <2>1. ASSUME NEW k \in DOMAIN s.pending PROVE MessageAt(made, at, sent, s.pending[k].msg)
    <3>1. k \in DOMAIN snd.pending /\ s.pending[k].msg = snd.pending[k].msg
      BY DEF NothingNew, IsPending
    <3>2. MessageAt(made, at, sent, snd.pending[k].msg)
      BY <1>1, <3>1 DEF PendingAt
    <3> QED
      BY <3>1, <3>2
  <2> QED
    BY <2>1 DEF PendingAt
<1>4. PICK n \in Nat : InTurnFrom(made, at, snd, sent, n)
  BY <1>1 DEF InTurn
<1>5. s.queue = snd.queue /\ s.queue \in Seq(DOMAIN s.transfers)
  BY DEF NothingNew, Sending, QueueOK
<1>6. ASSUME NEW i \in 1..Len(s.queue)
      PROVE  s.transfers[s.queue[i]].next = snd.transfers[s.queue[i]].next
  <2>1. s.queue[i] \in DOMAIN s.transfers
    BY <1>5, ElementOfSeq
  <2> QED
    BY <2>1 DEF NothingNew
<1>7. InTurnFrom(made, at, s, sent, n)
  <2>1. s.queue # <<>> => 1 \in 1..Len(s.queue)
    <3>1. Len(s.queue) \in Nat
      BY <1>5
    <3>2. s.queue # <<>> => Len(s.queue) # 0
      BY <1>5, EmptySeq
    <3> QED
      BY <3>1, <3>2
  <2>2. s.queue # <<>> =>
          /\ s.queue[1] = n + 1
          /\ s.transfers[s.queue[1]].next = snd.transfers[s.queue[1]].next
    BY <1>4, <1>5, <1>6, <2>1 DEF InTurnFrom
  <2>3. \A i \in 1..Len(s.queue) : i > 1 => s.transfers[s.queue[i]].next = 0
    BY <1>4, <1>5, <1>6 DEF InTurnFrom
  <2>4. /\ Len(made) = n + Len(s.queue)
        /\ \A i \in 1..Len(s.queue) : s.queue[i] = n + i
        /\ n <= Len(at) /\ \A i \in 1..n : at[i] + made[i].chunks <= sent[made[i].chan]
    BY <1>4, <1>5 DEF InTurnFrom
  <2>5. \/ /\ Len(at) = n
           /\ s.queue # <<>> => s.transfers[s.queue[1]].next = 0
        \/ /\ Len(at) = n + 1 /\ s.queue # <<>>
           /\ at[n + 1] + s.transfers[n + 1].next = sent[made[n + 1].chan]
    BY <1>4, <1>5, <2>2 DEF InTurnFrom
  <2> QED
    BY <2>3, <2>4, <2>5 DEF InTurnFrom
<1> QED
  BY <1>1, <1>2, <1>3, <1>7 DEF Numbered, InTurn

\* Nor has one with a new transfer, which is not begun.
LEMMA NumberedWithNew ==
    ASSUME SenderInvariant, NEW at, SenderAt(at), ~conn.closing, NEW c \in Channel, NEW count \in ChunkCounts,
           made' = Append(made, [chan |-> c, chunks |-> count]),
           made' \in Seq([chan : Channel, chunks : ChunkCounts]),
           NEW s, Sending(s, sent, Len(made')), OneNew(s, c, count)
    PROVE  Numbered(made', at, s, net, sent) /\ Further(made, at, sent, made', at, sent)
<1>1. /\ Starts(made, at) /\ OfMade(made, snd) /\ InTurn(made, at, snd, sent)
      /\ PendingAt(made, at, snd, sent) /\ NetAt(made, at, net, sent)
  BY DEF SenderAt
<1>2. Len(at) \in Nat /\ Len(made) \in Nat /\ Len(at) <= Len(made)
  BY <1>1, StartsAre
<1>3. PICK id, t : id = Len(made') /\ t = [chan |-> c, chunks |-> count, next |-> 0, remaining |-> count]
  OBVIOUS
<1>4. /\ id = Len(made) + 1 /\ made'[id] = [chan |-> c, chunks |-> count]
      /\ \A i \in 1..Len(made) : made'[i] = made[i]
  <2>1. made \in Seq([chan : Channel, chunks : ChunkCounts])
    BY DEF SenderInvariant
  <2> QED
    BY <1>3, <2>1, AppendProperties
<1>5. sent \in [Channel -> Nat] /\ snd.queue \in Seq(DOMAIN snd.transfers)
      /\ DOMAIN snd.transfers \subseteq 1..Len(made)
  BY DEF SenderInvariant, Sending, NumbersOK, QueueOK
<1>6. /\ s.pending = snd.pending /\ s.queue = Append(snd.queue, id)
      /\ DOMAIN s.transfers = DOMAIN snd.transfers \cup {id} /\ s.transfers[id] = t
      /\ \A x \in DOMAIN snd.transfers : s.transfers[x] = snd.transfers[x]
  BY <1>3 DEF OneNew
<1>7. Starts(made', at)
  <2>1. at \in Seq(Nat) /\ Len(at) <= Len(made')
    BY <1>1, <1>2, <1>3, <1>4 DEF Starts
  <2>2. \A i \in 1..Len(at) : made'[i] = made[i]
    BY <1>2, <1>4
  <2>3. ASSUME NEW i \in 1..Len(at), NEW j \in 1..Len(at), i < j, made'[i].chan = made'[j].chan
        PROVE  at[i] + made'[i].chunks <= at[j]
    BY <1>1, <2>2, <2>3 DEF Starts
  <2> QED
    BY <2>1, <2>3 DEF Starts
<1>8. Further(made, at, sent, made', at, sent)
  <2>1. \A i \in 1..Len(at) : at[i] = at[i] /\ made'[i] = made[i]
    BY <1>2, <1>4
  <2>2. \A i \in 1..Len(at) : ~(i > Len(at))
    BY <1>2
  <2>3. \A d \in Channel : sent[d] <= sent[d]
    BY <1>5
  <2> QED
    BY <1>2, <2>1, <2>2, <2>3 DEF Further
<1>9. ASSUME NEW m, MessageAt(made, at, sent, m) PROVE MessageAt(made', at, sent, m)
  BY <1>1, <1>5, <1>7, <1>8, <1>9, MessageStays
<1>10. PendingAt(made', at, s, sent) /\ NetAt(made', at, net, sent)
  BY <1>1, <1>6, <1>9 DEF PendingAt, NetAt
<1>11. OfMade(made', s)
  <2>1. ASSUME NEW x \in DOMAIN s.transfers
        PROVE  s.transfers[x].chan = made'[x].chan /\ s.transfers[x].chunks = made'[x].chunks
    <3>1. CASE x = id
      BY <1>3, <1>4, <1>6, <3>1
    <3>2. CASE x # id
      BY <1>1, <1>4, <1>5, <1>6, <3>2 DEF OfMade
    <3> QED
      BY <3>1, <3>2
  <2> QED
    BY <2>1 DEF OfMade
<1>12. PICK n \in Nat : InTurnFrom(made, at, snd, sent, n)
  BY <1>1 DEF InTurn
<1>13. PICK q, size : q = snd.queue /\ size = Len(q)
  OBVIOUS
<1>14. /\ size \in Nat /\ Len(made) = n + size /\ n <= Len(at)
       /\ \A i \in 1..size : q[i] = n + i
       /\ \A i \in 1..size : i > 1 => snd.transfers[q[i]].next = 0
       /\ \A i \in 1..n : at[i] + made[i].chunks <= sent[made[i].chan]
       /\ \/ /\ Len(at) = n
             /\ q # <<>> => snd.transfers[q[1]].next = 0
          \/ /\ Len(at) = n + 1 /\ q # <<>>
             /\ at[n + 1] + snd.transfers[n + 1].next = sent[made[n + 1].chan]
  BY <1>5, <1>12, <1>13 DEF InTurnFrom
<1>15. /\ Len(s.queue) = size + 1 /\ s.queue[size + 1] = id /\ s.queue # <<>>
       /\ \A i \in 1..size : s.queue[i] = q[i] /\ q[i] \in DOMAIN snd.transfers
  <2>1. q \in Seq(DOMAIN s.transfers) /\ id \in DOMAIN s.transfers
    BY <1>5, <1>6, <1>13, SeqMonotonic
  <2>2. /\ Len(s.queue) = size + 1 /\ s.queue[size + 1] = id /\ s.queue \in Seq(DOMAIN s.transfers)
        /\ \A i \in 1..size : s.queue[i] = q[i]
    BY <1>6, <1>13, <2>1, AppendProperties
  <2>3. \A i \in 1..size : q[i] \in DOMAIN snd.transfers
    BY <1>5, <1>13, ElementOfSeq
  <2>4. s.queue # <<>>
    BY <1>14, <2>2
  <2> QED
    BY <2>2, <2>3, <2>4
<1>16. id = n + (size + 1) /\ t.next = 0
  <2>1. id = n + size + 1
    BY <1>4, <1>14
  <2> QED
    BY <1>3, <1>14, <2>1
<1>17. ASSUME NEW i \in 1..(size + 1)
       PROVE  /\ s.queue[i] = n + i
              /\ i > 1 => s.transfers[s.queue[i]].next = 0
  <2>1. CASE i = size + 1
    BY <1>6, <1>15, <1>16, <2>1
  <2>2. CASE i # size + 1
    <3>1. i \in 1..size
      BY <1>14, <2>2
    <3>2. s.queue[i] = q[i] /\ q[i] = n + i /\ s.transfers[q[i]] = snd.transfers[q[i]]
      BY <1>6, <1>14, <1>15, <3>1
    <3> QED
      BY <1>14, <3>1, <3>2
  <2> QED
    BY <2>1, <2>2
<1>18. ASSUME NEW i \in 1..n PROVE at[i] + made'[i].chunks <= sent[made'[i].chan]
  <2>1. i \in 1..Len(made)
    BY <1>14, <1>2
  <2> QED
    BY <1>4, <1>14, <2>1
<1>19. \/ /\ Len(at) = n
          /\ s.queue # <<>> => s.transfers[s.queue[1]].next = 0
       \/ /\ Len(at) = n + 1 /\ s.queue # <<>>
          /\ at[n + 1] + s.transfers[n + 1].next = sent[made'[n + 1].chan]
  <2>1. CASE q = <<>>
    <3>1. size = 0
      BY <1>13, <2>1
    <3>2. s.queue[1] = id /\ Len(at) = n
      BY <1>14, <1>15, <2>1, <3>1
    <3> QED
      BY <1>6, <1>16, <3>2
  <2>2. CASE q # <<>>
    <3>1. 1 \in 1..size
      <4>1. size # 0
        BY <1>5, <1>13, <2>2, EmptySeq
      <4> QED
        BY <1>14, <4>1
    <3>2. /\ s.queue[1] = q[1] /\ q[1] = n + 1 /\ s.transfers[q[1]] = snd.transfers[q[1]]
          /\ n + 1 \in 1..Len(made)
      BY <1>6, <1>14, <1>15, <3>1
    <3> QED
      BY <1>4, <1>14, <1>15, <2>2, <3>2
  <2> QED
    BY <2>1, <2>2
<1>20. InTurnFrom(made', at, s, sent, n)
  <2>1. Len(made') = n + Len(s.queue)
    BY <1>3, <1>15, <1>16
  <2>2. /\ \A i \in 1..Len(s.queue) : s.queue[i] = n + i
        /\ \A i \in 1..Len(s.queue) : i > 1 => s.transfers[s.queue[i]].next = 0
    BY <1>15, <1>17
  <2>3. n <= Len(at)
    BY <1>14
  <2> QED
    BY <1>18, <1>19, <2>1, <2>2, <2>3 DEF InTurnFrom
<1> QED
  BY <1>7, <1>8, <1>10, <1>11, <1>20 DEF Numbered, InTurn

\* Flushing after a change that kept the numbers right.
LEMMA FlushAt ==
    ASSUME SenderInvariant, NEW s, NEW ms, NEW last, NEW hist, NEW at, Sending(s, sent, last), IsPending(s),
           Numbered(hist, at, s, ms, sent), Flush(s, ms)
    PROVE  /\ Grown(s, sent, snd', sent')
           /\ \E next : Numbered(hist, next, snd', net', sent') /\ Further(hist, at, sent, hist, next, sent')
<1>1. Lag(s, sent, Cardinality(DOMAIN s.pending))
  BY LagIs
<1> QED
  BY <1>1, FlushNumbered

\* The sender went on, from at to next.
SenderStep(at, next) ==
    Numbered(made', next, snd', net', sent') /\ Further(made, at, sent, made', next, sent')

LEMMA EnqueueAt ==
    ASSUME SenderInvariant, NEW at, SenderAt(at), NEW c \in Channel, NEW count \in ChunkCounts,
           EnqueueTransfer(c, count)
    PROVE  Grown(snd, sent, snd', sent') /\ \E next : SenderStep(at, next)
<1>1. ~conn.closing /\ made' = Append(made, [chan |-> c, chunks |-> count])
  BY DEF EnqueueTransfer, Live
<1>2. made' \in Seq([chan : Channel, chunks : ChunkCounts])
  BY EnqueueIs
<1>3. PICK s : Sending(s, sent, Len(made')) /\ IsPending(s) /\ OneNew(s, c, count) /\ Flush(s, net)
  BY EnqueueIs
<1>4. Numbered(made', at, s, net, sent) /\ Further(made, at, sent, made', at, sent)
  BY <1>1, <1>2, <1>3, NumberedWithNew
<1>5. PICK next : /\ Numbered(made', next, snd', net', sent')
                  /\ Further(made', at, sent, made', next, sent')
  BY <1>3, <1>4, FlushAt
<1>6. Grown(s, sent, snd', sent')
  BY <1>3, <1>4, FlushAt
<1>7. Grown(snd, sent, snd', sent')
  BY <1>3, <1>6 DEF OneNew, Grown
<1>8. sent \in [Channel -> Nat] /\ sent' \in [Channel -> Nat]
  <2>1. Sending(snd', sent', Len(made'))
    BY EnqueueKeeps
  <2> QED
    BY <1>3, <2>1 DEF Sending, NumbersOK
<1>9. Starts(made, at) /\ Starts(made', at) /\ Starts(made', next)
  BY <1>4, <1>5 DEF SenderAt, Numbered
<1>10. Further(made, at, sent, made', next, sent')
  BY <1>4, <1>5, <1>8, <1>9, FurtherAgain
<1> QED
  BY <1>5, <1>7, <1>10 DEF SenderStep

\* The messages that are sent again are where they were.
LEMMA ResendAt ==
    ASSUME SenderInvariant, NEW at, SenderAt(at), NEW due \in SUBSET DOMAIN snd.pending, Resend(due)
    PROVE  Grown(snd, sent, snd', sent') /\ \E next : SenderStep(at, next)
<1>1. ~conn.closing /\ made' = made
  BY DEF Resend, Live
<1>2. PICK ms : ms = net \cup MessagesOf(due)
  OBVIOUS
<1>3. PICK s : /\ Sending(s, sent, Len(made)) /\ NothingNew(s) /\ DOMAIN s.pending = DOMAIN snd.pending
               /\ Flush(s, ms)
  BY <1>2, ResendIs
<1>4. NetAt(made, at, ms, sent)
  <2>1. NetAt(made, at, net, sent) /\ PendingAt(made, at, snd, sent)
    BY DEF SenderAt
  <2> QED
    BY <1>2, <2>1 DEF NetAt, PendingAt, MessagesOf
<1>5. Numbered(made, at, s, ms, sent)
  BY <1>1, <1>3, <1>4, NumberedStays
<1>6. IsPending(s)
  BY <1>3 DEF NothingNew
<1>7. Grown(s, sent, snd', sent')
      /\ \E next : Numbered(made, next, snd', net', sent') /\ Further(made, at, sent, made, next, sent')
  BY <1>3, <1>5, <1>6, FlushAt
<1>8. Grown(snd, sent, snd', sent')
  <2>1. \A k \in DOMAIN snd.pending : k \in DOMAIN s.pending /\ s.pending[k].msg = snd.pending[k].msg
    BY <1>3, <1>6 DEF IsPending
  <2> QED
    BY <1>7, <2>1 DEF Grown
<1> QED
  BY <1>1, <1>7, <1>8 DEF SenderStep

\* An acknowledgement takes at most its own message off the pending ones.
LEMMA ReceiveAckAt ==
    ASSUME SenderInvariant, NEW at, SenderAt(at), NEW a, ReceiveAck(a)
    PROVE  \E s : /\ s = IF <<a.chan, a.seq>> \in DOMAIN snd.pending
                         THEN Acknowledged(snd, <<a.chan, a.seq>>) ELSE snd
                  /\ NothingNew(s) /\ DOMAIN snd.pending \ {<<a.chan, a.seq>>} \subseteq DOMAIN s.pending
                  /\ Grown(s, sent, snd', sent') /\ \E next : SenderStep(at, next)
<1>1. ~conn.closing /\ made' = made
  BY DEF ReceiveAck, Live
<1>2. PICK key : key = <<a.chan, a.seq>>
  OBVIOUS
<1>3. PICK s : s = IF key \in DOMAIN snd.pending THEN Acknowledged(snd, key) ELSE snd
  OBVIOUS
<1>4. Flush(s, net)
  BY <1>2, <1>3 DEF ReceiveAck
<1>5. /\ Sending(s, sent, Len(made)) /\ NothingNew(s)
      /\ DOMAIN snd.pending \ {key} \subseteq DOMAIN s.pending
  <2>1. CASE key \in DOMAIN snd.pending
    <3>1. s = Acknowledged(snd, key)
      BY <1>3, <2>1
    <3> QED
      BY <2>1, <3>1, AcknowledgedKeeps
  <2>2. CASE key \notin DOMAIN snd.pending
    BY <1>3, <2>2 DEF SenderInvariant, NothingNew, IsPending
  <2> QED
    BY <2>1, <2>2
<1>6. NetAt(made, at, net, sent)
  BY DEF SenderAt
<1>7. Numbered(made, at, s, net, sent)
  BY <1>1, <1>5, <1>6, NumberedStays
<1>8. IsPending(s)
  BY <1>5 DEF NothingNew
<1>9. Grown(s, sent, snd', sent')
      /\ \E next : Numbered(made, next, snd', net', sent') /\ Further(made, at, sent, made, next, sent')
  BY <1>4, <1>5, <1>7, <1>8, FlushAt
<1> QED
  BY <1>1, <1>2, <1>3, <1>5, <1>9 DEF SenderStep

-----------------------------------------------------------------------------
(* The receiver while the sender goes on.                                  *)

Near(s, to) == \A k \in DOMAIN s.pending : to[k[1]] - 1 - s.pending[k].msg.n <= ReceiveWindow

\* What the receiver waits for is pending, so that not much more was sent.
LEMMA WindowIs ==
    ASSUME NEW s, NEW to, NEW last, NEW r, NEW e, NEW hist, NEW at, Sending(s, to, last), Near(s, to),
           e \in [Channel -> Nat], WithheldAt(hist, at, r, to, e), NoneForgotten(s, r, to, e), NEW c \in Channel
    PROVE  to[c] - e[c] <= ReceiveWindow + 1
<1>1. PICK n : n = e[c]
  OBVIOUS
<1>2. n \in Nat /\ to[c] \in Nat
  BY <1>1 DEF Sending, NumbersOK
<1>3. CASE n < to[c]
  <2>1. ~IsReceived(r, e, c, n)
    <3>1. ASSUME NEW k \in DOMAIN r.withheld, r.withheld[k].chan = c, r.withheld[k].n = n PROVE FALSE
      <4>1. e[c] < n
        BY <3>1 DEF WithheldAt
      <4> QED
        BY <1>1, <1>2, <4>1
    <3> QED
      BY <1>1, <1>2, <3>1 DEF IsReceived
  <2>2. PICK k \in DOMAIN s.pending : s.pending[k].msg.chan = c /\ s.pending[k].msg.n = n
    BY <1>2, <1>3, <2>1 DEF NoneForgotten, IsOut
  <2>3. k[1] = c
    BY <2>2 DEF Sending, PendingOK, MessageOK
  <2>4. to[c] - 1 - n <= ReceiveWindow
    BY <2>2, <2>3 DEF Near
  <2> QED
    BY <1>1, <1>2, <2>4, ConstantsAre
<1>4. CASE ~(n < to[c])
  BY <1>1, <1>2, <1>4, ConstantsAre
<1> QED
  BY <1>3, <1>4

\* What came out stays right when further transfers are begun.
LEMMA DeliveredStays ==
    ASSUME NEW hist0, NEW at0, NEW to0, NEW hist, NEW at, NEW to, NEW r, NEW gone, NEW e,
           Starts(hist0, at0), Starts(hist, at), Further(hist0, at0, to0, hist, at, to),
           to0 \in [Channel -> Nat], e \in [Channel -> Nat], \A c \in Channel : e[c] <= to0[c],
           Delivered(hist0, at0, r, gone, e)
    PROVE  Delivered(hist, at, r, gone, e)
<1>1. /\ Len(at0) \in Nat /\ Len(at) \in Nat /\ Len(at0) <= Len(at)
      /\ \A i \in 1..Len(at) : at[i] \in Nat /\ hist[i].chan \in Channel /\ hist[i].chunks \in Nat \ {0}
      /\ \A i \in 1..Len(at0) : at[i] = at0[i] /\ hist[i] = hist0[i]
      /\ \A i \in 1..Len(at) : i > Len(at0) => to0[hist[i].chan] <= at[i]
  <2>1. /\ Len(at0) \in Nat /\ Len(at) \in Nat
        /\ \A i \in 1..Len(at) : at[i] \in Nat /\ hist[i].chan \in Channel /\ hist[i].chunks \in Nat \ {0}
    BY StartsAre
  <2> QED
    BY <2>1 DEF Further
<1>2. /\ DOMAIN r = {"rcv", "got"} /\ DOMAIN r.rcv = {"open", "expected", "withheld", "fragments"}
      /\ DOMAIN r.got = Channel /\ gone \subseteq 1..Len(at0)
      /\ DOMAIN r.rcv.fragments \subseteq 1..Len(at0)
      /\ \A id \in DOMAIN r.rcv.fragments : r.rcv.fragments[id] # {}
      /\ \A id \in 1..Len(at0) : CameOut(hist0, at0, r, gone, e[hist0[id].chan], id)
      /\ \A c \in Channel : OutInOrder(hist0, at0, r, c)
  BY DEF Delivered
<1>3. 1..Len(at0) \subseteq 1..Len(at)
  BY <1>1
<1>4. ASSUME NEW c \in Channel PROVE r.got[c] \in Seq(1..Len(at0)) /\ OutInOrder(hist, at, r, c)
  <2>1. PICK q : q = r.got[c]
    OBVIOUS
  <2>2. /\ q \in Seq(1..Len(at0)) /\ \A i \in 1..Len(q) : hist0[q[i]].chan = c
        /\ \A i, j \in 1..Len(q) : i < j => q[i] < q[j]
    BY <1>2, <2>1 DEF OutInOrder
  <2>3. q \in Seq(1..Len(at))
    BY <1>3, <2>2, SeqMonotonic
  <2>4. \A i \in 1..Len(q) : q[i] \in 1..Len(at0)
    BY <2>2, ElementOfSeq
  <2>5. \A i \in 1..Len(q) : hist[q[i]].chan = c
    BY <1>1, <2>2, <2>4
  <2> QED
    BY <2>1, <2>2, <2>3, <2>5 DEF OutInOrder
<1>5. ASSUME NEW id \in 1..Len(at) PROVE CameOut(hist, at, r, gone, e[hist[id].chan], id)
  <2>1. CASE id \in 1..Len(at0)
    <3>1. CameOut(hist0, at0, r, gone, e[hist0[id].chan], id)
      BY <1>2, <2>1
    <3>2. hist[id] = hist0[id] /\ at[id] = at0[id]
      BY <1>1, <2>1
    <3> QED
      BY <3>1, <3>2 DEF CameOut
  <2>2. CASE id \notin 1..Len(at0)
    <3>1. PICK c : c = hist[id].chan
      OBVIOUS
    <3>2. c \in Channel /\ to0[c] <= at[id] /\ at[id] \in Nat /\ hist[id].chunks \in Nat \ {0}
      BY <1>1, <2>2, <3>1
    <3>3. e[c] \in Nat /\ e[c] <= at[id]
      <4>1. e[c] \in Nat /\ to0[c] \in Nat /\ e[c] <= to0[c]
        BY <3>2
      <4> QED
        BY <3>2, <4>1
    <3>4. Chunks(r.rcv, id) = {} /\ id \notin gone
      BY <1>2, <2>2 DEF Chunks
    <3>5. id \notin Range(r.got[c])
      <4>1. PICK q : q = r.got[c]
        OBVIOUS
      <4>2. q \in Seq(1..Len(at0))
        BY <1>4, <3>2, <4>1
      <4>3. ASSUME NEW i \in DOMAIN q PROVE q[i] # id
        <5>1. i \in 1..Len(q)
          BY <4>2, <4>3
        <5>2. q[i] \in 1..Len(at0)
          BY <4>2, <5>1, ElementOfSeq
        <5> QED
          BY <2>2, <5>2
      <4> QED
        BY <4>1, <4>3 DEF Range
    <3>6. at[id] + hist[id].chunks > e[c] /\ ~(at[id] + hist[id].chunks <= e[c])
      BY <3>2, <3>3
    <3>7. {x \in 0..(hist[id].chunks - 1) : at[id] + x < e[c]} = {}
      BY <3>2, <3>3
    <3> QED
      BY <3>1, <3>4, <3>5, <3>6, <3>7 DEF CameOut
  <2> QED
    BY <2>1, <2>2
<1>6. gone \subseteq 1..Len(at) /\ DOMAIN r.rcv.fragments \subseteq 1..Len(at)
  BY <1>2, <1>3
<1> QED
  BY <1>2, <1>4, <1>5, <1>6 DEF Delivered

\* Nothing is forgotten while the sender goes on.
LEMMA NoneForgottenGrows ==
    ASSUME NEW s0, NEW to0, NEW s, NEW to, NEW r, NEW e, Grown(s0, to0, s, to),
           to0 \in [Channel -> Nat], NoneForgotten(s0, r, to0, e)
    PROVE  NoneForgotten(s, r, to, e)
<1>1. ASSUME NEW c \in Channel, NEW n \in Nat, n < to[c], ~IsReceived(r, e, c, n) PROVE IsOut(s, c, n)
  <2>1. CASE n < to0[c]
    <3>1. PICK k \in DOMAIN s0.pending : s0.pending[k].msg.chan = c /\ s0.pending[k].msg.n = n
      BY <1>1, <2>1 DEF NoneForgotten, IsOut
    <3>2. k \in DOMAIN s.pending /\ s.pending[k].msg = s0.pending[k].msg
      BY <3>1 DEF Grown
    <3> QED
      BY <3>1, <3>2 DEF IsOut
  <2>2. CASE ~(n < to0[c])
    <3>1. to0[c] <= n
      <4>1. to0[c] \in Nat
        OBVIOUS
      <4> QED
        BY <2>2, <4>1
    <3> QED
      BY <1>1, <3>1 DEF Grown
  <2> QED
    BY <2>1, <2>2
<1> QED
  BY <1>1 DEF NoneForgotten

\* Those who were told the truth were.
LEMMA ToldStays ==
    ASSUME NEW hist0, NEW at0, NEW to0, NEW hist, NEW at, NEW to, NEW told, NEW r, NEW e,
           Starts(hist0, at0), Starts(hist, at), Further(hist0, at0, to0, hist, at, to),
           ToldTrue(hist0, at0, told, r, e)
    PROVE  ToldTrue(hist, at, told, r, e)
<1>1. 1..Len(at0) \subseteq 1..Len(at)
  <2>1. Len(at0) \in Nat /\ Len(at) \in Nat /\ Len(at0) <= Len(at)
    BY StartsAre DEF Further
  <2> QED
    BY <2>1
<1>2. ASSUME NEW id \in DOMAIN told, told[id] = "ok"
      PROVE  /\ id \in 1..Len(at)
             /\ \A x \in 0..(hist[id].chunks - 1) : IsReceived(r, e, hist[id].chan, at[id] + x)
  <2>1. /\ id \in 1..Len(at0)
        /\ \A x \in 0..(hist0[id].chunks - 1) : IsReceived(r, e, hist0[id].chan, at0[id] + x)
    BY <1>2 DEF ToldTrue
  <2>2. at[id] = at0[id] /\ hist[id] = hist0[id]
    BY <2>1 DEF Further
  <2> QED
    BY <1>1, <2>1, <2>2
<1> QED
  BY <1>2 DEF ToldTrue

\* The receiver, while the sender goes on.
LEMMA ReceiverWaits ==
    ASSUME SenderInvariant, SenderInvariant', NEW at, NEW e, NEW next, SenderAt(at), ReceiverAt(at, e),
           SenderStep(at, next), UNCHANGED <<rcv, got, expired>>, acks' \in SUBSET acks,
           NoneForgotten(snd', rcv, sent', e), ToldTrue(made', next, outcome', rcv, e)
    PROVE  ReceiverAt(next, e)'
<1>1. /\ ReceiverNumbers(rcv, sent, e) /\ WithheldAt(made, at, rcv, sent, e)
      /\ Delivered(made, at, [rcv |-> rcv, got |-> got], expired, e)
      /\ AcksReceived(acks, rcv, sent, e)
  BY DEF ReceiverAt
<1>2. Starts(made, at) /\ Starts(made', next) /\ Further(made, at, sent, made', next, sent')
  BY DEF SenderAt, SenderStep, Numbered
<1>3. sent \in [Channel -> Nat] /\ sent' \in [Channel -> Nat]
  BY DEF SenderInvariant, Sending, NumbersOK
<1>4. e \in [Channel -> Nat] /\ \A c \in Channel : e[c] <= sent[c]
  BY <1>1 DEF ReceiverNumbers
<1>5. \A c \in Channel : sent[c] \in Nat /\ sent'[c] \in Nat /\ e[c] \in Nat /\ sent[c] <= sent'[c]
  BY <1>2, <1>3, <1>4 DEF Further
<1>6. WithheldAt(made', next, rcv, sent', e)
  <2>1. ASSUME NEW k \in DOMAIN rcv.withheld PROVE MessageAt(made', next, sent', rcv.withheld[k])
    <3>1. MessageAt(made, at, sent, rcv.withheld[k])
      BY <1>1 DEF WithheldAt
    <3> QED
      BY <1>2, <1>3, <3>1, MessageStays
  <2> QED
    BY <1>1, <2>1 DEF WithheldAt
<1>7. Delivered(made', next, [rcv |-> rcv, got |-> got], expired, e)
  BY <1>1, <1>2, <1>3, <1>4, DeliveredStays
<1>8. AcksReceived(acks', rcv, sent', e)
  <2>1. ASSUME NEW a \in acks'
        PROVE  /\ a.chan \in Channel /\ a.n \in Nat /\ a.n < sent'[a.chan] /\ a.seq = a.n % Modulus
               /\ IsReceived(rcv, e, a.chan, a.n)
    <3>1. /\ a.chan \in Channel /\ a.n \in Nat /\ a.n < sent[a.chan] /\ a.seq = a.n % Modulus
          /\ IsReceived(rcv, e, a.chan, a.n)
      BY <1>1 DEF AcksReceived
    <3>2. a.n < sent'[a.chan]
      BY <1>5, <3>1
    <3> QED
      BY <3>1, <3>2
  <2> QED
    BY <2>1 DEF AcksReceived
<1>9. ReceiverNumbers(rcv, sent', e)
  <2>1. Sending(snd', sent', Len(made')) /\ Near(snd', sent')
    BY DEF SenderInvariant, NearPending, Near
  <2>2. ASSUME NEW c \in Channel PROVE e[c] <= sent'[c] /\ sent'[c] - e[c] <= ReceiveWindow + 1
    <3>1. sent'[c] - e[c] <= ReceiveWindow + 1
      BY <1>4, <1>6, <2>1, WindowIs
    <3>2. e[c] <= sent'[c]
      BY <1>4, <1>5
    <3> QED
      BY <3>1, <3>2
  <2> QED
    BY <1>1, <2>2 DEF ReceiverNumbers
<1> QED
  BY <1>6, <1>7, <1>8, <1>9 DEF ReceiverAt

\* A step that is a step of the sender keeps the sender's part.
LEMMA SenderGoesOn ==
    ASSUME NEW at, NEW next, SenderStep(at, next)
    PROVE  SenderAt(next)'
BY DEF SenderStep, Numbered, SenderAt

\* An acknowledgement is of the message that its number names.
LEMMA AckedIs ==
    ASSUME SenderInvariant, Timely, NEW e, AcksReceived(acks, rcv, sent, e), NEW a \in acks,
           NEW key, key = <<a.chan, a.seq>>, key \in DOMAIN snd.pending
    PROVE  LET m == snd.pending[key].msg
           IN  m.chan = a.chan /\ m.n = a.n /\ IsReceived(rcv, e, m.chan, m.n)
<1>1. PICK m, c : m = snd.pending[key].msg /\ c = a.chan
  OBVIOUS
<1>2. /\ c \in Channel /\ a.n \in Nat /\ a.n < sent[c] /\ a.seq = a.n % Modulus
      /\ IsReceived(rcv, e, c, a.n)
  BY <1>1 DEF AcksReceived
<1>3. MessageOK(snd, sent, key) /\ NumbersOK(snd, sent)
  BY DEF SenderInvariant, Sending, PendingOK
<1>4. /\ m.chan = c /\ m.n \in Nat /\ m.n < sent[c] /\ m.n % Modulus = a.n % Modulus /\ key[1] = c
  BY <1>1, <1>2, <1>3 DEF MessageOK
<1>5. sent[c] \in Nat
  BY <1>2, <1>3 DEF NumbersOK
<1>6. sent[c] - 1 - m.n <= ReceiveWindow
  BY <1>1, <1>4 DEF SenderInvariant, NearPending
<1>7. sent[c] - a.n <= Modulus \div 2
  BY <1>1 DEF Timely
<1>8. /\ Modulus \in Nat \ {0} /\ ReceiveWindow < Modulus /\ ReceiveWindow \in Nat
      /\ Modulus \div 2 < Modulus /\ Modulus \div 2 \in Nat
  <2>1. Modulus \in Nat \ {0} /\ ReceiveWindow < Modulus /\ ReceiveWindow \in Nat
    BY ConstantsAre
  <2> QED
    BY <2>1
<1>9. m.n - a.n < Modulus /\ a.n - m.n < Modulus
  BY <1>2, <1>4, <1>5, <1>6, <1>7, <1>8
<1>10. m.n = a.n
  BY <1>2, <1>4, <1>8, <1>9, NearSame
<1> QED
  BY <1>1, <1>2, <1>4, <1>10

\* With its last acknowledgement every chunk of a transfer has been received.
LEMMA CompletedIs ==
    ASSUME SenderInvariant, Timely, NEW at, NEW e, SenderAt(at), ReceiverAt(at, e), ~conn.closing,
           NEW a \in acks, NEW key, key = <<a.chan, a.seq>>, key \in DOMAIN snd.pending,
           NEW id \in DOMAIN snd.transfers \ DOMAIN Acknowledged(snd, key).transfers
    PROVE  /\ id \in 1..Len(at)
           /\ \A x \in 0..(made[id].chunks - 1) : IsReceived(rcv, e, made[id].chan, at[id] + x)
<1>1. snd.transfers[id].next = snd.transfers[id].chunks /\ OfTransfer(snd, id) = {key}
  BY AcknowledgedKeeps
<1>2. /\ Starts(made, at) /\ OfMade(made, snd) /\ InTurn(made, at, snd, sent)
      /\ PendingAt(made, at, snd, sent)
  BY DEF SenderAt
<1>3. AcksReceived(acks, rcv, sent, e) /\ NoneForgotten(snd, rcv, sent, e)
  BY DEF ReceiverAt
<1>4. /\ Len(at) \in Nat /\ Len(made) \in Nat
      /\ \A i \in 1..Len(made) : made[i].chan \in Channel /\ made[i].chunks \in Nat \ {0}
      /\ \A i \in 1..Len(at) : at[i] \in Nat /\ i \in 1..Len(made)
  BY <1>2, StartsAre
<1>5. PICK n \in Nat : InTurnFrom(made, at, snd, sent, n)
  BY <1>2 DEF InTurn
<1>6. PICK q, size : q = snd.queue /\ size = Len(q)
  OBVIOUS
<1>7. /\ size \in Nat /\ Len(made) = n + size /\ n <= Len(at)
      /\ \A i \in 1..size : q[i] = n + i /\ snd.transfers[q[i]].next < snd.transfers[q[i]].chunks
      /\ \A i \in 1..n : at[i] + made[i].chunks <= sent[made[i].chan]
  <2>1. /\ snd.queue \in Seq(DOMAIN snd.transfers)
        /\ \A i \in 1..Len(snd.queue) :
              snd.transfers[snd.queue[i]].next < snd.transfers[snd.queue[i]].chunks
    BY DEF SenderInvariant, Sending, QueueOK
  <2>2. size \in Nat
    BY <1>6, <2>1
  <2> QED
    BY <1>5, <1>6, <2>1, <2>2 DEF InTurnFrom
<1>8. id \in 1..Len(made) /\ TransferOK(snd, id)
  BY DEF SenderInvariant, Sending
<1>9. id \in 1..n
  <2>1. ASSUME ~(id <= n) PROVE FALSE
    <3>1. PICK i : i = id - n
      OBVIOUS
    <3>2. i \in 1..size /\ n + i = id
      BY <1>4, <1>7, <1>8, <2>1, <3>1
    <3>3. snd.transfers[id].next < snd.transfers[id].chunks
      BY <1>7, <3>2
    <3>4. snd.transfers[id].chunks \in Nat
      BY <1>8 DEF TransferOK
    <3> QED
      BY <1>1, <3>3, <3>4
  <2> QED
    BY <1>4, <1>8, <2>1
<1>10. id \in 1..Len(at) /\ at[id] + made[id].chunks <= sent[made[id].chan]
  BY <1>4, <1>7, <1>9
<1>11. PICK c : c = made[id].chan
  OBVIOUS
<1>12. c \in Channel /\ at[id] \in Nat /\ made[id].chunks \in Nat \ {0} /\ sent[c] \in Nat
  <2>1. c \in Channel /\ at[id] \in Nat /\ made[id].chunks \in Nat \ {0}
    BY <1>4, <1>8, <1>10, <1>11
  <2> QED
    BY <2>1 DEF SenderInvariant, Sending, NumbersOK
<1>13. ASSUME NEW x \in 0..(made[id].chunks - 1) PROVE IsReceived(rcv, e, c, at[id] + x)
  <2>1. PICK k : k = at[id] + x
    OBVIOUS
  <2>2. k \in Nat /\ k < sent[c]
    BY <1>10, <1>11, <1>12, <2>1
  <2>3. CASE IsOut(snd, c, k)
    <3>1. PICK h \in DOMAIN snd.pending : snd.pending[h].msg.chan = c /\ snd.pending[h].msg.n = k
      BY <2>3 DEF IsOut
    <3>2. PICK m : m = snd.pending[h].msg
      OBVIOUS
    <3>3. MessageAt(made, at, sent, m)
      BY <1>2, <3>1, <3>2 DEF PendingAt
    <3>4. /\ m.id \in 1..Len(at) /\ made[m.id].chan = c /\ m.chunk \in 0..(made[m.id].chunks - 1)
          /\ at[m.id] + m.chunk = at[id] + x
      BY <2>1, <3>1, <3>2, <3>3 DEF MessageAt
    <3>5. m.id = id
      BY <1>2, <1>10, <1>11, <3>4, SameChunk
    <3>6. h = key
      BY <1>1, <3>2, <3>5 DEF OfTransfer
    <3>7. m.chan = a.chan /\ m.n = a.n /\ IsReceived(rcv, e, m.chan, m.n)
      BY <1>3, <3>2, <3>6, AckedIs
    <3> QED
      BY <2>1, <3>1, <3>2, <3>7
  <2>4. CASE ~IsOut(snd, c, k)
    BY <1>3, <1>12, <2>1, <2>2, <2>4 DEF NoneForgotten
  <2> QED
    BY <2>3, <2>4
<1> QED
  BY <1>10, <1>11, <1>13

\* From at to next, whatever the receiver's numbers are.
StepTo(at, next) == SenderAt(next)' /\ \A e : ReceiverAt(at, e) => ReceiverAt(next, e)'

LEMMA ReceiveAckSteps ==
    ASSUME SenderInvariant, SenderInvariant', Timely, NEW at, SenderAt(at), NEW a \in acks, ReceiveAck(a)
    PROVE  \E next : StepTo(at, next)
<1>1. PICK key : key = <<a.chan, a.seq>>
  OBVIOUS
<1>2. PICK s : /\ s = IF key \in DOMAIN snd.pending THEN Acknowledged(snd, key) ELSE snd
               /\ NothingNew(s) /\ DOMAIN snd.pending \ {key} \subseteq DOMAIN s.pending
               /\ Grown(s, sent, snd', sent') /\ \E next : SenderStep(at, next)
  BY <1>1, ReceiveAckAt
<1>3. PICK next : SenderStep(at, next)
  BY <1>2
<1>4. SenderAt(next)'
  BY <1>3, SenderGoesOn
<1>5. /\ ~conn.closing /\ UNCHANGED <<rcv, got, expired>> /\ acks' \in SUBSET acks /\ made' = made
      /\ outcome' = [id \in DOMAIN outcome \cup (DOMAIN snd.transfers \ DOMAIN s.transfers) |->
                       IF id \in DOMAIN outcome THEN outcome[id] ELSE "ok"]
  BY <1>1, <1>2 DEF ReceiveAck, Live, peerVars
<1>6. ASSUME NEW e, ReceiverAt(at, e) PROVE ReceiverAt(next, e)'
  <2>1. AcksReceived(acks, rcv, sent, e) /\ NoneForgotten(snd, rcv, sent, e)
        /\ ToldTrue(made, at, outcome, rcv, e)
    BY <1>5, <1>6 DEF ReceiverAt
  <2>2. sent \in [Channel -> Nat]
    BY DEF SenderInvariant, Sending, NumbersOK
  <2>3. NoneForgotten(s, rcv, sent, e)
    <3>1. ASSUME NEW c \in Channel, NEW n \in Nat, n < sent[c], ~IsReceived(rcv, e, c, n)
          PROVE  IsOut(s, c, n)
      <4>1. PICK k \in DOMAIN snd.pending : snd.pending[k].msg.chan = c /\ snd.pending[k].msg.n = n
        BY <2>1, <3>1 DEF NoneForgotten, IsOut
      <4>2. k # key
        BY <1>1, <2>1, <3>1, <4>1, AckedIs
      <4>3. k \in DOMAIN s.pending
        BY <1>2, <4>1, <4>2
      <4>4. s.pending[k].msg = snd.pending[k].msg
        BY <1>2, <4>3 DEF NothingNew, IsPending
      <4> QED
        BY <4>1, <4>3, <4>4 DEF IsOut
    <3> QED
      BY <3>1 DEF NoneForgotten
  <2>4. NoneForgotten(snd', rcv, sent', e)
    BY <1>2, <2>2, <2>3, NoneForgottenGrows
  <2>5. ToldTrue(made, at, outcome', rcv, e)
    <3>1. ASSUME NEW id \in DOMAIN outcome', outcome'[id] = "ok"
          PROVE  /\ id \in 1..Len(at)
                 /\ \A x \in 0..(made[id].chunks - 1) : IsReceived(rcv, e, made[id].chan, at[id] + x)
      <4>1. CASE id \in DOMAIN outcome
        <5>1. outcome[id] = "ok"
          BY <1>5, <3>1, <4>1
        <5> QED
          BY <2>1, <4>1, <5>1 DEF ToldTrue
      <4>2. CASE id \notin DOMAIN outcome
        <5>1. id \in DOMAIN snd.transfers \ DOMAIN s.transfers
          BY <1>5, <3>1, <4>2
        <5>2. key \in DOMAIN snd.pending /\ s = Acknowledged(snd, key)
          BY <1>2, <5>1
        <5> QED
          BY <1>1, <1>5, <1>6, <5>1, <5>2, CompletedIs
      <4> QED
        BY <4>1, <4>2
    <3> QED
      BY <3>1 DEF ToldTrue
  <2>6. ToldTrue(made', next, outcome', rcv, e)
    <3>1. Starts(made, at) /\ Starts(made', next) /\ Further(made, at, sent, made', next, sent')
      BY <1>3 DEF SenderAt, SenderStep, Numbered
    <3> QED
      BY <2>5, <3>1, ToldStays
  <2> QED
    BY <1>3, <1>5, <1>6, <2>4, <2>6, ReceiverWaits
<1> QED
  BY <1>4, <1>6 DEF StepTo

\* The other handlers that flush the queue.
LEMMA GrownSteps ==
    ASSUME SenderInvariant, SenderInvariant', NEW at, SenderAt(at), ~conn.closing,
           Grown(snd, sent, snd', sent'), NEW next, SenderStep(at, next),
           UNCHANGED <<rcv, got, expired, acks, outcome>>
    PROVE  StepTo(at, next)
<1>1. SenderAt(next)'
  BY SenderGoesOn
<1>2. ASSUME NEW e, ReceiverAt(at, e) PROVE ReceiverAt(next, e)'
  <2>1. NoneForgotten(snd, rcv, sent, e) /\ ToldTrue(made, at, outcome, rcv, e)
    BY <1>2 DEF ReceiverAt
  <2>2. sent \in [Channel -> Nat]
    BY DEF SenderInvariant, Sending, NumbersOK
  <2>3. NoneForgotten(snd', rcv, sent', e)
    BY <2>1, <2>2, NoneForgottenGrows
  <2>4. ToldTrue(made', next, outcome', rcv, e)
    <3>1. Starts(made, at) /\ Starts(made', next) /\ Further(made, at, sent, made', next, sent')
      BY DEF SenderAt, SenderStep, Numbered
    <3>2. ToldTrue(made', next, outcome, rcv, e)
      BY <2>1, <3>1, ToldStays
    <3> QED
      BY <3>2
  <2> QED
    BY <1>2, <2>3, <2>4, ReceiverWaits
<1> QED
  BY <1>1, <1>2 DEF StepTo

\* A step that leaves the sender alone, or ends it, and the receiver alone.
LEMMA QuietSteps ==
    ASSUME SenderInvariant, NEW at, SenderAt(at), UNCHANGED <<rcv, got, expired, made, sent>>,
           acks' \in SUBSET acks, NetAt(made, at, net', sent),
           \/ UNCHANGED <<snd, outcome>> /\ (conn'.closing \/ ~conn.closing)
           \/ RejectReliable /\ conn'.closing
    PROVE  StepTo(at, at)
<1>1. /\ Starts(made, at) /\ OfMade(made, snd) /\ PendingAt(made, at, snd, sent)
      /\ ~conn.closing => InTurn(made, at, snd, sent)
  BY DEF SenderAt
<1>2. CASE UNCHANGED <<snd, outcome>> /\ (conn'.closing \/ ~conn.closing)
  <2>1. SenderAt(at)'
    BY <1>1, <1>2 DEF SenderAt
  <2>2. ASSUME NEW e, ReceiverAt(at, e) PROVE ReceiverAt(at, e)'
    <3>1. AcksReceived(acks', rcv, sent, e)
      BY <2>2 DEF ReceiverAt, AcksReceived
    <3> QED
      BY <1>2, <2>2, <3>1 DEF ReceiverAt
  <2> QED
    BY <2>1, <2>2 DEF StepTo
<1>3. CASE RejectReliable /\ conn'.closing
  <2>1. snd'.transfers = Empty /\ snd'.pending = Empty
    <3>1. DOMAIN snd = {"transfers", "queue", "seq", "pending"}
      BY DEF SenderInvariant, Sending
    <3> QED
      BY <1>3, <3>1 DEF RejectReliable
  <2>2. OfMade(made, snd') /\ PendingAt(made, at, snd', sent)
    BY <2>1 DEF OfMade, PendingAt, Empty
  <2>3. SenderAt(at)'
    BY <1>1, <1>3, <2>2 DEF SenderAt
  <2>4. ASSUME NEW e, ReceiverAt(at, e) PROVE ReceiverAt(at, e)'
    <3>1. AcksReceived(acks', rcv, sent, e)
      BY <2>4 DEF ReceiverAt, AcksReceived
    <3>2. ToldTrue(made, at, outcome', rcv, e)
      <4>1. ToldTrue(made, at, outcome, rcv, e)
        BY <2>4 DEF ReceiverAt
      <4>2. ASSUME NEW id \in DOMAIN outcome', outcome'[id] = "ok"
            PROVE  id \in DOMAIN outcome /\ outcome[id] = "ok"
        <5>1. outcome' = [x \in DOMAIN outcome \cup DOMAIN snd.transfers |->
                            IF x \in DOMAIN outcome THEN outcome[x] ELSE "error"]
          BY <1>3 DEF RejectReliable
        <5>2. "ok" # "error"
          OBVIOUS
        <5> QED
          BY <4>2, <5>1, <5>2
      <4> QED
        BY <4>1, <4>2 DEF ToldTrue
    <3> QED
      BY <1>3, <2>4, <3>1, <3>2 DEF ReceiverAt
  <2> QED
    BY <2>3, <2>4 DEF StepTo
<1> QED
  BY <1>2, <1>3

-----------------------------------------------------------------------------
(* Messages are released.                                                  *)

\* The numbers after the next message of channel c.
Advanced(e, c, count) == [e EXCEPT ![c] = @ + count]

\* For the other transfers nothing changes.
LEMMA OthersCameOut ==
    ASSUME NEW hist, NEW at, NEW to, NEW m, NEW r, NEW s, NEW gone, NEW e,
           Starts(hist, at), MessageAt(hist, at, to, m), e \in [Channel -> Nat], m.n = e[m.chan],
           NEW j \in 1..Len(at), j # m.id, CameOut(hist, at, r, gone, e[hist[j].chan], j),
           Chunks(s.rcv, j) = Chunks(r.rcv, j),
           j \in Range(s.got[hist[j].chan]) <=> j \in Range(r.got[hist[j].chan])
    PROVE  CameOut(hist, at, s, gone, Advanced(e, m.chan, 1)[hist[j].chan], j)
<1>1. PICK c, d, chunks : c = m.chan /\ d = hist[j].chan /\ chunks = hist[j].chunks
  OBVIOUS
<1>2. at[j] \in Nat /\ chunks \in Nat \ {0} /\ d \in Channel
  <2>1. j \in 1..Len(hist)
    BY StartsAre
  <2> QED
    BY <1>1, <2>1, StartsAre
<1>3. PICK next : next = Advanced(e, c, 1)[d]
  OBVIOUS
<1>4. c \in Channel /\ m.id \in 1..Len(at) /\ hist[m.id].chan = c
      /\ m.chunk \in 0..(hist[m.id].chunks - 1) /\ e[c] = at[m.id] + m.chunk
  BY <1>1 DEF MessageAt
<1>5. e[d] \in Nat /\ next = IF d = c THEN e[d] + 1 ELSE e[d]
  BY <1>2, <1>3, <1>4 DEF Advanced
<1>6. ASSUME NEW y \in 0..(chunks - 1), d = c PROVE at[j] + y # e[d]
  <2>1. ASSUME at[j] + y = e[d] PROVE FALSE
    <3>1. hist[m.id].chan = hist[j].chan
      BY <1>1, <1>4, <1>6
    <3>2. y \in 0..(hist[j].chunks - 1) /\ at[m.id] + m.chunk = at[j] + y
      BY <1>1, <1>4, <1>6, <2>1
    <3>3. m.id = j
      BY <1>4, <3>1, <3>2, SameChunk
    <3> QED
      BY <3>3
  <2> QED
    BY <2>1
<1>7. ASSUME NEW y \in 0..(chunks - 1) PROVE at[j] + y < next <=> at[j] + y < e[d]
  <2>1. PICK k, n : k = at[j] + y /\ n = e[d]
    OBVIOUS
  <2>2. k \in Nat /\ n \in Nat /\ next = IF d = c THEN n + 1 ELSE n
    BY <1>2, <1>5, <2>1
  <2>3. d = c => k # n
    BY <1>6, <2>1
  <2>4. k < next <=> k < n
    BY <2>2, <2>3
  <2> QED
    BY <2>1, <2>4
<1>8. at[j] + chunks > next <=> at[j] + chunks > e[d]
  <2>1. PICK y : y = chunks - 1
    OBVIOUS
  <2>2. y \in 0..(chunks - 1) /\ at[j] + chunks = at[j] + y + 1
    BY <1>2, <2>1
  <2>3. d = c => at[j] + y # e[d]
    BY <1>6, <2>2, Zenon
  <2>4. PICK k, n : k = at[j] + y /\ n = e[d]
    OBVIOUS
  <2>5. k \in Nat /\ n \in Nat /\ at[j] + chunks = k + 1 /\ next = IF d = c THEN n + 1 ELSE n
    BY <1>2, <1>5, <2>2, <2>4
  <2>6. d = c => k # n
    BY <2>3, <2>4, Zenon
  <2>7. k + 1 > next <=> k + 1 > n
    BY <2>5, <2>6
  <2> QED
    BY <2>4, <2>5, <2>7, Zenon
<1>9. at[j] + chunks <= next <=> at[j] + chunks <= e[d]
  BY <1>2, <1>5, <1>8
<1>10. PICK came, out : came = Chunks(r.rcv, j) /\ out = (j \in Range(r.got[d]))
  OBVIOUS
<1>11. /\ came \subseteq 0..(chunks - 1)
       /\ j \notin gone /\ at[j] + chunks > e[d] =>
             j \notin Range(r.got[d]) /\ came = {x \in 0..(chunks - 1) : at[j] + x < e[d]}
       /\ j \notin gone /\ at[j] + chunks <= e[d] => j \in Range(r.got[d]) /\ came = {}
       /\ j \in gone =>
             j \notin Range(r.got[d]) /\ \E x \in 0..(chunks - 1) : at[j] + x < e[d] /\ x \notin came
  BY <1>1, <1>10 DEF CameOut
<1>12. {x \in 0..(chunks - 1) : at[j] + x < e[d]} = {x \in 0..(chunks - 1) : at[j] + x < next}
  BY <1>7
<1>13. Chunks(s.rcv, j) = came /\ (j \in Range(s.got[d]) <=> j \in Range(r.got[d]))
  BY <1>1, <1>10
<1>14. /\ came \subseteq 0..(chunks - 1)
       /\ j \notin gone /\ at[j] + chunks > next =>
             j \notin Range(s.got[d]) /\ came = {x \in 0..(chunks - 1) : at[j] + x < next}
       /\ j \notin gone /\ at[j] + chunks <= next => j \in Range(s.got[d]) /\ came = {}
       /\ j \in gone =>
             j \notin Range(s.got[d]) /\ \E x \in 0..(chunks - 1) : at[j] + x < next /\ x \notin came
  <2>1. j \in gone => \E x \in 0..(chunks - 1) : at[j] + x < next /\ x \notin came
    BY <1>7, <1>11
  <2> QED
    BY <1>8, <1>9, <1>11, <1>12, <1>13, <2>1
<1>15. CameOut(hist, at, s, gone, next, j)
  <2>1. came = Chunks(s.rcv, j)
    BY <1>13
  <2> QED
    BY <1>1, <1>14, <2>1 DEF CameOut
<1> QED
  BY <1>1, <1>3, <1>15

\* What came out after one more message, if it is right for its transfer.
LEMMA DeliveredNext ==
    ASSUME NEW hist, NEW at, NEW to, NEW m, NEW r, NEW s, NEW gone, NEW e,
           Starts(hist, at), MessageAt(hist, at, to, m), e \in [Channel -> Nat], m.n = e[m.chan],
           Delivered(hist, at, r, gone, e),
           DOMAIN s = {"rcv", "got"}, DOMAIN s.rcv = {"open", "expected", "withheld", "fragments"},
           DOMAIN s.got = Channel, IsMapping(s.got), DOMAIN s.rcv.fragments \subseteq 1..Len(at),
           \A id \in DOMAIN s.rcv.fragments : s.rcv.fragments[id] # {},
           \A j \in 1..Len(at) \ {m.id} : Chunks(s.rcv, j) = Chunks(r.rcv, j),
           \A d \in Channel \ {m.chan} : s.got[d] = r.got[d],
           \A j \in 1..Len(at) \ {m.id} : j \in Range(s.got[m.chan]) <=> j \in Range(r.got[m.chan]),
           OutInOrder(hist, at, s, m.chan),
           CameOut(hist, at, s, gone, e[m.chan] + 1, m.id)
    PROVE  Delivered(hist, at, s, gone, Advanced(e, m.chan, 1))
<1>1. m.chan \in Channel /\ m.id \in 1..Len(at) /\ hist[m.id].chan = m.chan
  BY DEF MessageAt
<1>2. /\ gone \subseteq 1..Len(at)
      /\ \A id \in 1..Len(at) : CameOut(hist, at, r, gone, e[hist[id].chan], id)
      /\ \A c \in Channel : OutInOrder(hist, at, r, c)
  BY DEF Delivered
<1>3. ASSUME NEW j \in 1..Len(at)
      PROVE  CameOut(hist, at, s, gone, Advanced(e, m.chan, 1)[hist[j].chan], j)
  <2>1. CASE j = m.id
    <3>1. Advanced(e, m.chan, 1)[hist[j].chan] = e[m.chan] + 1
      BY <1>1, <2>1 DEF Advanced
    <3> QED
      BY <2>1, <3>1
  <2>2. CASE j # m.id
    <3>1. j \in Range(s.got[hist[j].chan]) <=> j \in Range(r.got[hist[j].chan])
      <4>1. hist[j].chan \in Channel
        BY StartsAre
      <4>2. CASE hist[j].chan = m.chan
        BY <2>2, <4>2
      <4>3. CASE hist[j].chan # m.chan
        BY <4>1, <4>3
      <4> QED
        BY <4>2, <4>3
    <3>2. Chunks(s.rcv, j) = Chunks(r.rcv, j) /\ CameOut(hist, at, r, gone, e[hist[j].chan], j)
      BY <1>2, <2>2
    <3> QED
      BY <2>2, <3>1, <3>2, OthersCameOut
  <2> QED
    BY <2>1, <2>2
<1>4. ASSUME NEW c \in Channel PROVE OutInOrder(hist, at, s, c)
  <2>1. CASE c = m.chan
    BY <2>1
  <2>2. CASE c # m.chan
    <3>1. s.got[c] = r.got[c] /\ OutInOrder(hist, at, r, c)
      BY <1>2, <2>2
    <3> QED
      BY <3>1 DEF OutInOrder
  <2> QED
    BY <2>1, <2>2
<1> QED
  BY <1>2, <1>3, <1>4 DEF Delivered

\* joined is what is there of a message's transfer, with its own chunk, the last so far.
JoinedUp(hist, at, r, gone, next, m, joined) ==
    LET chunks == hist[m.id].chunks
    IN  /\ joined \subseteq 0..(chunks - 1) /\ m.id \notin Range(r.got[m.chan])
        /\ m.id \notin gone =>
              /\ joined = {x \in 0..(chunks - 1) : at[m.id] + x < next + 1}
              /\ Cardinality(joined) = m.chunk + 1
              /\ chunks = 1 => Chunks(r.rcv, m.id) = {}
        /\ m.id \in gone =>
              /\ chunks # 1 /\ Cardinality(joined) # chunks
              /\ \E x \in 0..(chunks - 1) : at[m.id] + x < next + 1 /\ x \notin joined

\* The chunks of a message's transfer, with its own.
LEMMA JoinIs ==
    ASSUME NEW hist, NEW at, NEW to, NEW m, NEW r, NEW gone, NEW next \in Nat, NEW joined,
           Starts(hist, at), MessageAt(hist, at, to, m), m.n = next, CameOut(hist, at, r, gone, next, m.id),
           joined = Chunks(r.rcv, m.id) \cup {m.chunk}
    PROVE  JoinedUp(hist, at, r, gone, next, m, joined)
<1>1. PICK id, c, x, chunks, came :
        id = m.id /\ c = m.chan /\ x = m.chunk /\ chunks = hist[m.id].chunks /\ came = Chunks(r.rcv, m.id)
  OBVIOUS
<1>2. id \in 1..Len(at) /\ hist[id].chan = c /\ x \in 0..(chunks - 1) /\ next = at[id] + x
  BY <1>1 DEF MessageAt
<1>3. at[id] \in Nat /\ chunks \in Nat \ {0} /\ x \in Nat
  <2>1. at[id] \in Nat /\ id \in 1..Len(hist)
    BY <1>2, StartsAre
  <2>2. chunks \in Nat \ {0}
    BY <1>1, <2>1, StartsAre
  <2> QED
    BY <1>2, <2>1, <2>2
<1>4. at[id] + chunks > next
  BY <1>2, <1>3
<1>5. /\ came \subseteq 0..(chunks - 1)
      /\ id \notin gone => id \notin Range(r.got[c]) /\ came = {y \in 0..(chunks - 1) : at[id] + y < next}
      /\ id \in gone =>
            id \notin Range(r.got[c]) /\ \E y \in 0..(chunks - 1) : at[id] + y < next /\ y \notin came
  BY <1>1, <1>2, <1>4 DEF CameOut
<1>6. joined = came \cup {x} /\ joined \subseteq 0..(chunks - 1)
  BY <1>1, <1>2, <1>5
<1>7. ASSUME id \notin gone
      PROVE  /\ joined = {y \in 0..(chunks - 1) : at[id] + y < next + 1}
             /\ Cardinality(joined) = x + 1
             /\ chunks = 1 => came = {}
  <2>1. came = {y \in 0..(chunks - 1) : at[id] + y < next}
    BY <1>5, <1>7
  <2>2. joined = {y \in 0..(chunks - 1) : at[id] + y < next + 1}
    BY <1>2, <1>3, <1>6, <2>1
  <2>3. joined = 0..x
    BY <1>2, <1>3, <2>2
  <2>4. Cardinality(0..x) = x + 1
    <3>1. Cardinality(0..x) = IF 0 > x THEN 0 ELSE x - 0 + 1
      BY <1>3, FS_Interval
    <3> QED
      BY <1>3, <3>1
  <2>5. chunks = 1 => came = {}
    BY <1>2, <1>3, <2>1
  <2> QED
    BY <2>2, <2>3, <2>4, <2>5
<1>8. ASSUME id \in gone
      PROVE  /\ chunks # 1 /\ Cardinality(joined) # chunks
             /\ \E y \in 0..(chunks - 1) : at[id] + y < next + 1 /\ y \notin joined
  <2>1. PICK y \in 0..(chunks - 1) : at[id] + y < next /\ y \notin came
    BY <1>5, <1>8
  <2>2. y # x /\ y \in Nat
    BY <1>2, <1>3, <2>1
  <2>3. y \notin joined /\ at[id] + y < next + 1
    BY <1>2, <1>3, <1>6, <2>1, <2>2
  <2>4. chunks # 1
    BY <1>2, <1>3, <2>1, <2>2
  <2>5. PICK all, rest : all = 0..(chunks - 1) /\ rest = all \ {y}
    OBVIOUS
  <2>6. IsFiniteSet(all) /\ Cardinality(all) = chunks
    <3>1. PICK most : most = chunks - 1
      OBVIOUS
    <3>2. most \in Nat /\ all = 0..most /\ chunks = most + 1
      BY <1>3, <2>5, <3>1
    <3>3. IsFiniteSet(0..most) /\ Cardinality(0..most) = IF 0 > most THEN 0 ELSE most - 0 + 1
      BY <3>2, FS_Interval
    <3> QED
      BY <3>2, <3>3
  <2>7. IsFiniteSet(rest) /\ Cardinality(rest) = chunks - 1
    <3>1. y \in all
      BY <2>1, <2>5, Zenon
    <3>2. IsFiniteSet(all \ {y}) /\ Cardinality(all \ {y}) = Cardinality(all) - 1
      BY <2>6, <3>1, FS_RemoveElement, Zenon
    <3> QED
      BY <2>5, <2>6, <3>2, Zenon
  <2>8. joined \subseteq rest
    BY <1>6, <2>3, <2>5
  <2>9. Cardinality(joined) <= chunks - 1 /\ Cardinality(joined) \in Nat
    BY <2>7, <2>8, FS_Subset, FS_CardinalityType
  <2> QED
    BY <1>3, <2>1, <2>3, <2>4, <2>9
<1> QED
  BY <1>1, <1>5, <1>6, <1>7, <1>8 DEF JoinedUp

\* From r to s, transfer m.id comes out.
PushedAfter(hist, at, r, s, m) ==
    /\ OutInOrder(hist, at, s, m.chan)
    /\ Range(s.got[m.chan]) = Range(r.got[m.chan]) \cup {m.id}
    /\ Len(s.got[m.chan]) = Len(r.got[m.chan]) + 1
    /\ \A i \in 1..Len(r.got[m.chan]) : s.got[m.chan][i] = r.got[m.chan][i]

\* A transfer that comes out is later than those that came out before on its channel.
LEMMA PushedInOrder ==
    ASSUME NEW hist, NEW at, NEW to, NEW m, NEW r, NEW s, NEW gone, NEW e,
           Starts(hist, at), MessageAt(hist, at, to, m), e \in [Channel -> Nat], m.n = e[m.chan],
           Delivered(hist, at, r, gone, e), s.got[m.chan] = Append(r.got[m.chan], m.id)
    PROVE  PushedAfter(hist, at, r, s, m)
<1>1. PICK id, c, q, out : id = m.id /\ c = m.chan /\ q = r.got[c] /\ out = s.got[c]
  OBVIOUS
<1>2. /\ c \in Channel /\ id \in 1..Len(at) /\ hist[id].chan = c
      /\ m.chunk \in 0..(hist[id].chunks - 1) /\ e[c] = at[id] + m.chunk
  BY <1>1 DEF MessageAt
<1>3. /\ q \in Seq(1..Len(at)) /\ \A i \in 1..Len(q) : hist[q[i]].chan = c
      /\ \A i, j \in 1..Len(q) : i < j => q[i] < q[j]
  BY <1>1, <1>2 DEF Delivered, OutInOrder
<1>4. /\ Len(q) \in Nat /\ out = Append(q, id) /\ out \in Seq(1..Len(at)) /\ Len(out) = Len(q) + 1
      /\ out[Len(q) + 1] = id /\ \A i \in 1..Len(q) : out[i] = q[i]
  <2>1. out = Append(q, id) /\ Len(q) \in Nat
    BY <1>1, <1>3
  <2> QED
    BY <1>2, <1>3, <2>1, AppendProperties
<1>5. ASSUME NEW i \in 1..Len(q) PROVE q[i] < id
  <2>1. PICK j : j = q[i]
    OBVIOUS
  <2>2. j \in 1..Len(at) /\ hist[j].chan = c
    BY <1>3, <2>1, ElementOfSeq
  <2>3. j \in Range(r.got[c])
    BY <1>1, <1>3, <2>1 DEF Range
  <2>4. CameOut(hist, at, r, gone, e[c], j)
    BY <2>2 DEF Delivered
  <2>5. /\ at[j] \in Nat /\ hist[j].chunks \in Nat \ {0} /\ at[id] \in Nat /\ hist[id].chunks \in Nat \ {0}
        /\ e[c] \in Nat /\ j \in Nat /\ id \in Nat
    <3>1. at[j] \in Nat /\ at[id] \in Nat /\ j \in 1..Len(hist) /\ id \in 1..Len(hist)
      BY <1>2, <2>2, StartsAre
    <3>2. hist[j].chunks \in Nat \ {0} /\ hist[id].chunks \in Nat \ {0}
      BY <3>1, StartsAre
    <3> QED
      BY <1>2, <2>2, <3>1, <3>2
  <2>6. ~(at[j] + hist[j].chunks > e[c])
    <3>1. j \notin gone
      BY <2>2, <2>3, <2>4 DEF CameOut
    <3> QED
      BY <2>2, <2>3, <2>4, <3>1 DEF CameOut
  <2>7. ASSUME j >= id PROVE FALSE
    <3>1. CASE j = id
      BY <1>2, <2>5, <2>6, <3>1
    <3>2. CASE j # id
      <4>1. id < j /\ hist[id].chan = hist[j].chan
        BY <1>2, <2>2, <2>5, <2>7, <3>2
      <4>2. at[id] + hist[id].chunks <= at[j]
        BY <1>2, <2>2, <4>1 DEF Starts
      <4>3. PICK a, b, u, v, x : /\ a = at[id] /\ b = at[j] /\ u = hist[id].chunks
                                 /\ v = hist[j].chunks /\ x = m.chunk
        OBVIOUS
      <4>4. /\ a \in Nat /\ b \in Nat /\ u \in Nat /\ v \in Nat /\ v # 0 /\ x \in Nat /\ x < u
            /\ ~(b + v > a + x) /\ a + u <= b
        BY <1>2, <2>5, <2>6, <4>2, <4>3
      <4> QED
        BY <4>4
    <3> QED
      BY <3>1, <3>2
  <2> QED
    BY <2>1, <2>5, <2>7
<1>6. ASSUME NEW i \in 1..Len(out) PROVE i \in 1..Len(q) \/ i = Len(q) + 1
  BY <1>4
<1>7. \A i \in 1..Len(out) : hist[out[i]].chan = c
  BY <1>2, <1>3, <1>4, <1>6
<1>8. ASSUME NEW i \in 1..Len(out), NEW j \in 1..Len(out), i < j PROVE out[i] < out[j]
  <2>1. i \in 1..Len(q)
    BY <1>4, <1>8
  <2>2. CASE j = Len(q) + 1
    BY <1>4, <1>5, <2>1, <2>2
  <2>3. CASE j \in 1..Len(q)
    BY <1>3, <1>4, <1>8, <2>1, <2>3
  <2> QED
    BY <1>6, <2>2, <2>3
<1>9. Range(out) = Range(q) \cup {id}
  <2>1. DOMAIN q = 1..Len(q) /\ DOMAIN out = 1..Len(out) /\ Len(q) + 1 \in 1..Len(out)
    BY <1>3, <1>4
  <2>2. \A i \in 1..Len(q) : i \in 1..Len(out)
    BY <1>4
  <2>3. ASSUME NEW x \in Range(out) PROVE x \in Range(q) \cup {id}
    <3>1. PICK i \in 1..Len(out) : x = out[i]
      BY <2>1, <2>3 DEF Range
    <3> QED
      BY <1>4, <1>6, <2>1, <3>1 DEF Range
  <2>4. ASSUME NEW x \in Range(q) \cup {id} PROVE x \in Range(out)
    <3>1. CASE x = id
      BY <1>4, <2>1, <3>1 DEF Range
    <3>2. CASE x \in Range(q)
      <4>1. PICK i \in 1..Len(q) : x = q[i]
        BY <2>1, <3>2 DEF Range
      <4> QED
        BY <1>4, <2>1, <2>2, <4>1, SMTT(30) DEF Range
    <3> QED
      BY <2>4, <3>1, <3>2
  <2> QED
    BY <2>3, <2>4
<1>10. OutInOrder(hist, at, s, c)
  BY <1>1, <1>4, <1>7, <1>8 DEF OutInOrder
<1> QED
  BY <1>1, <1>4, <1>9, <1>10 DEF PushedAfter

\* Transfers come out at the end of channel c.
GotGrows(g, h, c) ==
    /\ DOMAIN h = Channel /\ \A d \in Channel \ {c} : h[d] = g[d]
    /\ Len(g[c]) <= Len(h[c]) /\ \A i \in 1..Len(g[c]) : h[c][i] = g[c][i]

\* The transfer of the message comes out, with its last chunk.
LEMMA PushedKeeps ==
    ASSUME NEW at, NEW to, NEW m, NEW r, NEW u, NEW gone, NEW e,
           Starts(made, at), MessageAt(made, at, to, m), e \in [Channel -> Nat], m.n = e[m.chan],
           Delivered(made, at, r, gone, e), m.id \notin gone, m.chunk + 1 = made[m.id].chunks,
           DOMAIN u = {"rcv", "got"}, DOMAIN u.rcv = {"open", "expected", "withheld", "fragments"},
           u.got = r.got, Chunks(u.rcv, m.id) = {},
           DOMAIN u.rcv.fragments \subseteq DOMAIN r.rcv.fragments,
           \A j \in DOMAIN u.rcv.fragments : u.rcv.fragments[j] = r.rcv.fragments[j],
           \A j \in DOMAIN r.rcv.fragments : j # m.id => j \in DOMAIN u.rcv.fragments
    PROVE  /\ Pushed(u, m.id).rcv = u.rcv
           /\ Delivered(made, at, Pushed(u, m.id), gone, Advanced(e, m.chan, 1))
           /\ GotGrows(r.got, Pushed(u, m.id).got, m.chan)
<1>1. PICK id, c, s : id = m.id /\ c = m.chan /\ s = Pushed(u, id)
  OBVIOUS
<1>2. /\ c \in Channel /\ id \in 1..Len(at) /\ made[id].chan = c
      /\ m.chunk \in 0..(made[id].chunks - 1) /\ e[c] = at[id] + m.chunk
  BY <1>1 DEF MessageAt
<1>3. DOMAIN r.got = Channel /\ DOMAIN r.rcv.fragments \subseteq 1..Len(at)
      /\ \A j \in DOMAIN r.rcv.fragments : r.rcv.fragments[j] # {}
  BY DEF Delivered
<1>4. DOMAIN s = {"rcv", "got"} /\ s.rcv = u.rcv /\ s.got = [r.got EXCEPT ![c] = Append(@, id)]
  <2>1. s = [u EXCEPT !.got[c] = Append(@, id)]
    BY <1>1, <1>2 DEF Pushed
  <2> QED
    BY <2>1
<1>5. /\ DOMAIN s.got = Channel /\ s.got[c] = Append(r.got[c], id)
      /\ \A d \in Channel \ {c} : s.got[d] = r.got[d]
  BY <1>2, <1>3, <1>4
<1>6. /\ OutInOrder(made, at, s, c) /\ Range(s.got[c]) = Range(r.got[c]) \cup {id}
      /\ Len(s.got[c]) = Len(r.got[c]) + 1 /\ \A i \in 1..Len(r.got[c]) : s.got[c][i] = r.got[c][i]
  <2>1. s.got[m.chan] = Append(r.got[m.chan], m.id)
    BY <1>1, <1>5
  <2>2. PushedAfter(made, at, r, s, m)
    BY <2>1, PushedInOrder
  <2> QED
    BY <1>1, <2>2 DEF PushedAfter
<1>7. CameOut(made, at, s, gone, e[c] + 1, id)
  <2>1. at[id] + made[id].chunks = e[c] + 1 /\ at[id] \in Nat /\ made[id].chunks \in Nat
    <3>1. at[id] \in Nat /\ id \in 1..Len(made)
      BY <1>2, StartsAre
    <3>2. made[id].chunks \in Nat
      BY <3>1, StartsAre
    <3> QED
      BY <1>1, <1>2, <3>1, <3>2
  <2>2. e[c] + 1 \in Nat
    BY <1>2
  <2>3. ~(at[id] + made[id].chunks > e[c] + 1) /\ at[id] + made[id].chunks <= e[c] + 1
    BY <2>1, <2>2
  <2>4. Chunks(s.rcv, id) = {} /\ id \in Range(s.got[c]) /\ id \notin gone
    BY <1>1, <1>4, <1>6
  <2> QED
    BY <1>2, <2>3, <2>4 DEF CameOut
<1>8. \A j \in 1..Len(at) \ {id} : Chunks(s.rcv, j) = Chunks(r.rcv, j)
  BY <1>1, <1>4 DEF Chunks
<1>9. \A j \in 1..Len(at) \ {id} : j \in Range(s.got[c]) <=> j \in Range(r.got[c])
  BY <1>6
<1>10. DOMAIN s.rcv.fragments \subseteq 1..Len(at) /\ \A j \in DOMAIN s.rcv.fragments : s.rcv.fragments[j] # {}
  BY <1>3, <1>4
<1>11. DOMAIN s.rcv = {"open", "expected", "withheld", "fragments"} /\ IsMapping(s.got)
  BY <1>4 DEF IsMapping
<1>12. Delivered(made, at, s, gone, Advanced(e, c, 1))
  BY <1>1, <1>4, <1>5, <1>6, <1>7, <1>8, <1>9, <1>10, <1>11, DeliveredNext
<1>13. GotGrows(r.got, s.got, c)
  <2>1. Len(r.got[c]) \in Nat
    BY <1>2 DEF Delivered, OutInOrder
  <2> QED
    BY <1>5, <1>6, <2>1 DEF GotGrows
<1> QED
  BY <1>1, <1>4, <1>12, <1>13

\* The next message is released.
LEMMA ReleasedKeeps ==
    ASSUME NEW at, NEW to, NEW m, NEW r, NEW gone, NEW e,
           Starts(made, at), MessageAt(made, at, to, m), e \in [Channel -> Nat], m.n = e[m.chan],
           Delivered(made, at, r, gone, e)
    PROVE  /\ Released(r, m).rcv.expected = r.rcv.expected
           /\ Released(r, m).rcv.withheld = r.rcv.withheld
           /\ Released(r, m).rcv.open =>
                 r.rcv.open /\ Delivered(made, at, Released(r, m), gone, Advanced(e, m.chan, 1))
           /\ ~Released(r, m).rcv.open => Delivered(made, at, Released(r, m), gone, e)
           /\ GotGrows(r.got, Released(r, m).got, m.chan)
<1>1. PICK id, c, s, joined :
        /\ id = m.id /\ c = m.chan /\ s = Released(r, m) /\ joined = Chunks(r.rcv, id) \cup {m.chunk}
  OBVIOUS
<1>2. /\ c \in Channel /\ id \in 1..Len(at) /\ made[id].chan = c
      /\ m.chunk \in 0..(made[id].chunks - 1) /\ e[c] = at[id] + m.chunk /\ e[c] \in Nat
  BY <1>1 DEF MessageAt
<1>3. /\ DOMAIN r = {"rcv", "got"} /\ DOMAIN r.rcv = {"open", "expected", "withheld", "fragments"}
      /\ DOMAIN r.got = Channel /\ IsMapping(r.got) /\ DOMAIN r.rcv.fragments \subseteq 1..Len(at)
      /\ \A j \in DOMAIN r.rcv.fragments : r.rcv.fragments[j] # {}
      /\ CameOut(made, at, r, gone, e[c], id) /\ OutInOrder(made, at, r, c)
  BY <1>2 DEF Delivered
<1>4. PICK chunks : chunks = made[id].chunks
  OBVIOUS
<1>5. at[id] \in Nat /\ chunks \in Nat \ {0} /\ m.chunk \in Nat /\ m.chunk < chunks
  <2>1. at[id] \in Nat /\ id \in 1..Len(made)
    BY <1>2, StartsAre
  <2>2. chunks \in Nat \ {0}
    BY <1>4, <2>1, StartsAre
  <2> QED
    BY <1>2, <1>4, <2>1, <2>2
<1>6. /\ joined \subseteq 0..(chunks - 1) /\ id \notin Range(r.got[c])
      /\ id \notin gone => /\ joined = {x \in 0..(chunks - 1) : at[id] + x < e[c] + 1}
                           /\ Cardinality(joined) = m.chunk + 1
                           /\ chunks = 1 => Chunks(r.rcv, id) = {}
      /\ id \in gone => /\ chunks # 1 /\ Cardinality(joined) # chunks
                        /\ \E x \in 0..(chunks - 1) : at[id] + x < e[c] + 1 /\ x \notin joined
  <2>1. PICK next \in Nat : next = e[c]
    BY <1>2
  <2>2. /\ m.n = next /\ CameOut(made, at, r, gone, next, m.id)
        /\ joined = Chunks(r.rcv, m.id) \cup {m.chunk}
    BY <1>1, <1>3, <2>1
  <2>3. JoinedUp(made, at, r, gone, next, m, joined)
    BY <2>2, JoinIs
  <2> QED
    BY <1>1, <1>4, <2>1, <2>3 DEF JoinedUp
<1>7. GotGrows(r.got, r.got, c)
  <2>1. Len(r.got[c]) \in Nat
    BY <1>3 DEF OutInOrder
  <2> QED
    BY <1>3, <2>1 DEF GotGrows
<1>8. CASE ~r.rcv.open
  <2>1. s = r
    BY <1>1, <1>8 DEF Released
  <2> QED
    BY <1>1, <1>7, <1>8, <2>1
<1>9. CASE r.rcv.open /\ chunks = 1
  <2>1. s = Pushed(r, id)
    BY <1>1, <1>4, <1>9 DEF Released
  <2>2. id \notin gone /\ m.chunk + 1 = chunks /\ Chunks(r.rcv, id) = {}
    BY <1>5, <1>6, <1>9
  <2>3. s.rcv = r.rcv /\ Delivered(made, at, s, gone, Advanced(e, c, 1)) /\ GotGrows(r.got, s.got, c)
    BY <1>1, <1>3, <1>4, <2>1, <2>2, PushedKeeps
  <2> QED
    BY <1>1, <1>9, <2>3
<1>10. CASE r.rcv.open /\ chunks # 1 /\ Cardinality(joined) = chunks
  <2>1. PICK u : u = [r EXCEPT !.rcv.fragments = Without(@, {id})]
    OBVIOUS
  <2>2. s = Pushed(u, id)
    BY <1>1, <1>4, <1>10, <2>1 DEF Released
  <2>3. /\ DOMAIN u = {"rcv", "got"} /\ DOMAIN u.rcv = {"open", "expected", "withheld", "fragments"}
        /\ u.got = r.got /\ u.rcv.fragments = Without(r.rcv.fragments, {id})
        /\ u.rcv.open = r.rcv.open /\ u.rcv.expected = r.rcv.expected /\ u.rcv.withheld = r.rcv.withheld
    BY <1>3, <2>1
  <2>4. /\ DOMAIN u.rcv.fragments = DOMAIN r.rcv.fragments \ {id}
        /\ \A j \in DOMAIN u.rcv.fragments : u.rcv.fragments[j] = r.rcv.fragments[j]
    BY <2>3 DEF Without
  <2>5. Chunks(u.rcv, id) = {}
    BY <2>4 DEF Chunks
  <2>6. id \notin gone /\ m.chunk + 1 = chunks
    BY <1>6, <1>10
  <2>7. s.rcv = u.rcv /\ Delivered(made, at, s, gone, Advanced(e, c, 1)) /\ GotGrows(r.got, s.got, c)
    <3>1. m.id \notin gone /\ m.chunk + 1 = made[m.id].chunks /\ Chunks(u.rcv, m.id) = {}
      BY <1>1, <1>4, <2>5, <2>6
    <3>2. /\ DOMAIN u.rcv.fragments \subseteq DOMAIN r.rcv.fragments
          /\ \A j \in DOMAIN r.rcv.fragments : j # m.id => j \in DOMAIN u.rcv.fragments
      BY <1>1, <2>4
    <3>3. /\ Pushed(u, m.id).rcv = u.rcv
          /\ Delivered(made, at, Pushed(u, m.id), gone, Advanced(e, m.chan, 1))
          /\ GotGrows(r.got, Pushed(u, m.id).got, m.chan)
      BY <2>3, <2>4, <3>1, <3>2, PushedKeeps
    <3> QED
      BY <1>1, <2>2, <3>3
  <2> QED
    BY <1>1, <1>10, <2>3, <2>7
<1>11. CASE /\ r.rcv.open /\ chunks # 1 /\ Cardinality(joined) # chunks
            /\ Cardinality(DOMAIN r.rcv.fragments \ {id}) >= MaxGroups
  <2>1. s = [r EXCEPT !.rcv.open = FALSE]
    BY <1>1, <1>4, <1>11 DEF Released
  <2>2. /\ DOMAIN s = {"rcv", "got"} /\ DOMAIN s.rcv = {"open", "expected", "withheld", "fragments"}
        /\ s.got = r.got /\ s.rcv.fragments = r.rcv.fragments /\ ~s.rcv.open
        /\ s.rcv.expected = r.rcv.expected /\ s.rcv.withheld = r.rcv.withheld
    BY <1>3, <2>1
  <2>3. Delivered(made, at, s, gone, e)
    BY <2>2 DEF Delivered, CameOut, OutInOrder, Chunks
  <2> QED
    BY <1>1, <1>7, <2>2, <2>3
<1>12. CASE /\ r.rcv.open /\ chunks # 1 /\ Cardinality(joined) # chunks
            /\ ~(Cardinality(DOMAIN r.rcv.fragments \ {id}) >= MaxGroups)
  <2>1. s = [r EXCEPT !.rcv.fragments = With(@, id, joined)]
    BY <1>1, <1>4, <1>12 DEF Released
  <2>2. /\ DOMAIN s = {"rcv", "got"} /\ DOMAIN s.rcv = {"open", "expected", "withheld", "fragments"}
        /\ s.got = r.got /\ s.rcv.fragments = With(r.rcv.fragments, id, joined) /\ s.rcv.open = r.rcv.open
        /\ s.rcv.expected = r.rcv.expected /\ s.rcv.withheld = r.rcv.withheld
    BY <1>3, <2>1
  <2>3. /\ DOMAIN s.rcv.fragments = DOMAIN r.rcv.fragments \cup {id} /\ s.rcv.fragments[id] = joined
        /\ \A j \in DOMAIN r.rcv.fragments : j # id => s.rcv.fragments[j] = r.rcv.fragments[j]
    BY <2>2 DEF With
  <2>4. Chunks(s.rcv, id) = joined /\ \A j : j # id => Chunks(s.rcv, j) = Chunks(r.rcv, j)
    BY <2>3 DEF Chunks
  <2>5. joined # {}
    BY <1>1
  <2>6. DOMAIN s.rcv.fragments \subseteq 1..Len(at) /\ \A j \in DOMAIN s.rcv.fragments : s.rcv.fragments[j] # {}
    BY <1>2, <1>3, <2>3, <2>5
  <2>7. CameOut(made, at, s, gone, e[c] + 1, id)
    <3>1. id \notin gone => ~(at[id] + chunks <= e[c] + 1)
      <4>1. ASSUME id \notin gone PROVE m.chunk + 1 # chunks
        BY <1>6, <1>12, <4>1
      <4> QED
        BY <1>2, <1>5, <4>1
    <3>2. Chunks(s.rcv, id) = joined /\ id \notin Range(s.got[c])
      BY <1>6, <2>2, <2>4
    <3> QED
      BY <1>2, <1>4, <1>6, <3>1, <3>2 DEF CameOut
  <2>8. OutInOrder(made, at, s, c)
    BY <1>3, <2>2 DEF OutInOrder
  <2>9. Delivered(made, at, s, gone, Advanced(e, c, 1))
    BY <1>1, <1>3, <2>2, <2>4, <2>6, <2>7, <2>8, DeliveredNext
  <2> QED
    BY <1>1, <1>7, <1>12, <2>2, <2>9
<1> QED
  BY <1>8, <1>9, <1>10, <1>11, <1>12

-----------------------------------------------------------------------------
(* A message is released with those that were withheld for it.             *)

LEMMA AdvancedTwice ==
    ASSUME NEW e \in [Channel -> Nat], NEW c \in Channel, NEW j \in Nat
    PROVE  /\ Advanced(e, c, j) \in [Channel -> Nat] /\ Advanced(e, c, j)[c] = e[c] + j
           /\ \A d \in Channel \ {c} : Advanced(e, c, j)[d] = e[d]
           /\ Advanced(Advanced(e, c, j), c, 1) = Advanced(e, c, j + 1)
<1>1. PICK f : f = Advanced(e, c, j)
  OBVIOUS
<1>2. f \in [Channel -> Nat] /\ f[c] = e[c] + j /\ \A d \in Channel \ {c} : f[d] = e[d]
  BY <1>1 DEF Advanced
<1>3. PICK g, h : g = Advanced(f, c, 1) /\ h = Advanced(e, c, j + 1)
  OBVIOUS
<1>4. /\ DOMAIN g = Channel /\ g[c] = f[c] + 1 /\ \A d \in Channel \ {c} : g[d] = f[d]
      /\ g = [d \in DOMAIN g |-> g[d]]
  BY <1>2, <1>3 DEF Advanced
<1>5. /\ DOMAIN h = Channel /\ h[c] = e[c] + (j + 1) /\ \A d \in Channel \ {c} : h[d] = e[d]
      /\ h = [d \in DOMAIN h |-> h[d]]
  BY <1>3 DEF Advanced
<1>6. e[c] \in Nat /\ e[c] + (j + 1) = (e[c] + j) + 1
  OBVIOUS
<1>7. \A d \in Channel : g[d] = h[d]
  BY <1>2, <1>4, <1>5, <1>6
<1>8. g = h
  BY <1>4, <1>5, <1>7
<1> QED
  BY <1>1, <1>2, <1>3, <1>8

\* More comes out after what came out.
LEMMA GotGrowsOn ==
    ASSUME NEW g, NEW h, NEW k, NEW c \in Channel, GotGrows(g, h, c), GotGrows(h, k, c),
           Len(g[c]) \in Nat, Len(h[c]) \in Nat, Len(k[c]) \in Nat
    PROVE  GotGrows(g, k, c)
<1>1. DOMAIN k = Channel /\ \A d \in Channel \ {c} : k[d] = g[d]
  BY DEF GotGrows
<1>2. PICK l, n, o : l = Len(g[c]) /\ n = Len(h[c]) /\ o = Len(k[c])
  OBVIOUS
<1>3. l \in Nat /\ n \in Nat /\ o \in Nat /\ l <= n /\ n <= o
  BY <1>2 DEF GotGrows
<1>4. l <= o /\ \A i \in 1..l : i \in 1..n
  BY <1>3
<1>5. \A i \in 1..l : k[c][i] = g[c][i]
  BY <1>2, <1>4 DEF GotGrows
<1> QED
  BY <1>1, <1>2, <1>4, <1>5 DEF GotGrows

\* f is the run of release over message m and those withheld under the keys run.
IsRelease(f, size, base, m, run, withheld) ==
    f = [k \in 0..size |-> IF k = 0 THEN Released(base, m) ELSE Released(f[k - 1], withheld[run[k]])]

LEMMA ReleaseExists ==
    ASSUME NEW base, NEW m, NEW run, NEW withheld, NEW size \in Nat
    PROVE  \E f : IsRelease(f, size, base, m, run, withheld)
<1>1. PICK T : T = {n \in Nat : ~ \E f : IsRelease(f, n, base, m, run, withheld)}
  OBVIOUS
<1> SUFFICES ASSUME T # {} PROVE FALSE
  BY <1>1
<1>2. PICK n \in T : \A l \in T : n <= l
  BY <1>1, LeastNat
<1>3. n \in Nat /\ ~ \E f : IsRelease(f, n, base, m, run, withheld)
  BY <1>1
<1>4. CASE n = 0
  <2>1. PICK f : f = [k \in 0..n |-> Released(base, m)]
    OBVIOUS
  <2>2. \A k \in 0..n : k = 0
    BY <1>4
  <2>3. f = [k \in 0..n |-> IF k = 0 THEN Released(base, m) ELSE Released(f[k - 1], withheld[run[k]])]
    BY <2>1, <2>2, Zenon
  <2> QED
    BY <1>3, <2>3 DEF IsRelease
<1>5. CASE n # 0
  <2>1. n - 1 \in Nat /\ n - 1 \notin T
    BY <1>2, <1>3, <1>5
  <2>2. PICK f : IsRelease(f, n - 1, base, m, run, withheld)
    BY <1>1, <2>1
  <2>3. PICK g : g = [k \in 0..n |-> IF k = 0 THEN Released(base, m)
                                     ELSE Released(f[k - 1], withheld[run[k]])]
    OBVIOUS
  <2>4. ASSUME NEW k \in 0..n, k # 0 PROVE f[k - 1] = g[k - 1]
    <3>1. k - 1 \in 0..(n - 1) /\ k - 1 \in 0..n
      BY <1>3, <2>4
    <3>2. f[k - 1] = IF k - 1 = 0 THEN Released(base, m) ELSE Released(f[k - 1 - 1], withheld[run[k - 1]])
      BY <2>2, <3>1, Zenon DEF IsRelease
    <3>3. g[k - 1] = IF k - 1 = 0 THEN Released(base, m) ELSE Released(f[k - 1 - 1], withheld[run[k - 1]])
      BY <2>3, <3>1, Zenon
    <3> QED
      BY <3>2, <3>3
  <2>5. g = [k \in 0..n |-> IF k = 0 THEN Released(base, m) ELSE Released(g[k - 1], withheld[run[k]])]
    BY <2>3, <2>4, Zenon
  <2> QED
    BY <1>3, <2>5 DEF IsRelease
<1> QED
  BY <1>4, <1>5

\* After round k of the run, from r0, the k + 1 next messages of channel c are released, unless
\* the receiver closed at one of them.
RoundOK(at, r0, r, gone, e, c, k) ==
    /\ r.rcv.expected = r0.rcv.expected /\ r.rcv.withheld = r0.rcv.withheld
    /\ GotGrows(r0.got, r.got, c)
    /\ \E j \in 0..(k + 1) :
          Delivered(made, at, r, gone, Advanced(e, c, j)) /\ (r.rcv.open => j = k + 1)

LEMMA RoundKeeps ==
    ASSUME NEW at, NEW to, NEW m, NEW r0, NEW r, NEW gone, NEW e, NEW k \in Nat,
           Starts(made, at), MessageAt(made, at, to, m), e \in [Channel -> Nat],
           m.n = e[m.chan] + (k + 1), Len(r0.got[m.chan]) \in Nat, RoundOK(at, r0, r, gone, e, m.chan, k)
    PROVE  RoundOK(at, r0, Released(r, m), gone, e, m.chan, k + 1)
<1>1. PICK c, s : c = m.chan /\ s = Released(r, m)
  OBVIOUS
<1>2. c \in Channel /\ RoundOK(at, r0, r, gone, e, c, k)
  BY <1>1 DEF MessageAt
<1>3. PICK j \in 0..(k + 1) : Delivered(made, at, r, gone, Advanced(e, c, j)) /\ (r.rcv.open => j = k + 1)
  BY <1>2 DEF RoundOK
<1>4. CASE ~r.rcv.open
  <2>1. s = r
    BY <1>1, <1>4 DEF Released
  <2>2. j \in 0..((k + 1) + 1)
    OBVIOUS
  <2> QED
    BY <1>1, <1>2, <1>3, <1>4, <2>1, <2>2 DEF RoundOK
<1>5. CASE r.rcv.open
  <2>1. PICK ahead : ahead = Advanced(e, c, k + 1)
    OBVIOUS
  <2>2. /\ ahead \in [Channel -> Nat] /\ ahead[c] = e[c] + (k + 1)
        /\ Advanced(ahead, c, 1) = Advanced(e, c, (k + 1) + 1)
    <3>1. PICK i \in Nat : i = k + 1
      OBVIOUS
    <3> QED
      BY <1>2, <2>1, <3>1, AdvancedTwice
  <2>3. Delivered(made, at, r, gone, ahead) /\ m.n = ahead[m.chan]
    BY <1>1, <1>3, <1>5, <2>1, <2>2
  <2>4. /\ Released(r, m).rcv.expected = r.rcv.expected
        /\ Released(r, m).rcv.withheld = r.rcv.withheld
        /\ Released(r, m).rcv.open =>
              r.rcv.open /\ Delivered(made, at, Released(r, m), gone, Advanced(ahead, m.chan, 1))
        /\ ~Released(r, m).rcv.open => Delivered(made, at, Released(r, m), gone, ahead)
        /\ GotGrows(r.got, Released(r, m).got, m.chan)
    BY <2>2, <2>3, ReleasedKeeps
  <2>5. /\ s.rcv.expected = r0.rcv.expected /\ s.rcv.withheld = r0.rcv.withheld
        /\ s.rcv.open => Delivered(made, at, s, gone, Advanced(e, c, (k + 1) + 1))
        /\ ~s.rcv.open => Delivered(made, at, s, gone, Advanced(e, c, k + 1))
    BY <1>1, <1>2, <2>1, <2>2, <2>4 DEF RoundOK
  <2>6. Len(r.got[c]) \in Nat /\ Len(s.got[c]) \in Nat
    BY <1>2, <1>3, <2>5 DEF Delivered, OutInOrder
  <2>7. GotGrows(r0.got, s.got, c)
    <3>1. GotGrows(r0.got, r.got, c) /\ GotGrows(r.got, s.got, c)
      BY <1>1, <1>2, <2>4 DEF RoundOK
    <3> QED
      BY <1>1, <1>2, <2>6, <3>1, GotGrowsOn
  <2>8. k + 1 \in 0..((k + 1) + 1) /\ (k + 1) + 1 \in 0..((k + 1) + 1)
    OBVIOUS
  <2> QED
    BY <1>1, <2>5, <2>7, <2>8 DEF RoundOK
<1> QED
  BY <1>4, <1>5

\* The messages withheld under the keys run are those that follow on m without a gap.
Follows(run, count, m, withheld) ==
    /\ count \in 0..ReceiveWindow /\ DOMAIN run = 1..count /\ Len(run) = count
    /\ \A k \in 1..count : /\ run[k] \in DOMAIN withheld
                           /\ withheld[run[k]].chan = m.chan /\ withheld[run[k]].n = m.n + k
    /\ \A key \in DOMAIN withheld \ Range(run) :
          withheld[key].chan = m.chan => m.n + count + 1 < withheld[key].n

\* The keys that are held up to the first gap.
LEMMA HeldIs ==
    ASSUME NEW window \in Nat, NEW key, NEW D
    PROVE  \E count \in 0..window :
              /\ {k \in 1..window : \A j \in 1..k : key[j] \in D} = 1..count
              /\ \A k \in 1..count : key[k] \in D
              /\ count < window => key[count + 1] \notin D
<1>1. PICK T : T = {k \in 1..(window + 1) : k = window + 1 \/ key[k] \notin D}
  OBVIOUS
<1>2. T \subseteq Nat /\ window + 1 \in T
  BY <1>1
<1>3. PICK n \in T : \A l \in T : n <= l
  BY <1>2, LeastNat
<1>4. PICK count : count = n - 1
  OBVIOUS
<1>5. n \in 1..(window + 1) /\ count \in 0..window /\ n = count + 1 /\ count \in Nat /\ (n = window + 1 \/ key[n] \notin D)
  BY <1>1, <1>4
<1>6. ASSUME NEW k \in 1..count PROVE key[k] \in D
  <2>1. k \in 1..(window + 1) /\ k # window + 1 /\ ~(n <= k)
    BY <1>5
  <2> QED
    BY <1>1, <1>3, <2>1
<1>7. count < window => key[count + 1] \notin D
  BY <1>5
<1>8. ASSUME NEW k \in 1..window, \A j \in 1..k : key[j] \in D PROVE k \in 1..count
  <2>1. CASE n \in 1..k
    <3>1. key[n] \in D
      BY <1>8, <2>1
    <3>2. n # window + 1
      BY <2>1
    <3> QED
      BY <1>5, <3>1, <3>2
  <2>2. CASE n \notin 1..k
    BY <1>5, <2>2
  <2> QED
    BY <2>1, <2>2
<1>9. ASSUME NEW k \in 1..count PROVE k \in 1..window /\ \A j \in 1..k : key[j] \in D
  <2>1. k \in 1..window /\ \A j \in 1..k : j \in 1..count
    BY <1>5
  <2> QED
    BY <1>6, <2>1
<1>10. {k \in 1..window : \A j \in 1..k : key[j] \in D} = 1..count
  BY <1>8, <1>9
<1> QED
  BY <1>5, <1>6, <1>7, <1>10

LEMMA FollowingIs ==
    ASSUME NEW at, NEW to, NEW e, NEW m, e \in [Channel -> Nat], MessageAt(made, at, to, m),
           m.n = e[m.chan], WithheldAt(made, at, rcv, to, e)
    PROVE  \E count : Follows(Following(m), count, m, rcv.withheld)
<1>1. PICK c, n, w, D : c = m.chan /\ n = m.n /\ w = rcv.withheld /\ D = DOMAIN rcv.withheld
  OBVIOUS
<1>2. PICK key : key = [k \in 1..(ReceiveWindow + 1) |-> <<m.chan, (m.seq + k) % Modulus>>]
  OBVIOUS
<1>3. n \in Nat /\ m.seq = n % Modulus /\ n = e[c] /\ ReceiveWindow \in Nat
  BY <1>1, ConstantsAre DEF MessageAt
<1>4. PICK count \in 0..ReceiveWindow :
        /\ {k \in 1..ReceiveWindow : \A j \in 1..k : key[j] \in D} = 1..count
        /\ \A k \in 1..count : key[k] \in D
        /\ count < ReceiveWindow => key[count + 1] \notin D
  BY <1>3, HeldIs
<1>5. /\ count \in Nat /\ count <= ReceiveWindow
      /\ \A k \in 1..ReceiveWindow : \A j \in 1..k : j \in 1..(ReceiveWindow + 1)
      /\ \A k \in 1..count : k \in 1..(ReceiveWindow + 1)
      /\ count + 1 \in 1..(ReceiveWindow + 1)
  BY <1>3
<1>6. {k \in 1..ReceiveWindow : \A j \in 1..k : <<m.chan, (m.seq + j) % Modulus>> \in DOMAIN rcv.withheld}
      = 1..count
  <2>1. \A k \in 1..ReceiveWindow : \A j \in 1..k : key[j] = <<m.chan, (m.seq + j) % Modulus>>
    BY <1>2, <1>5
  <2>2. {k \in 1..ReceiveWindow : \A j \in 1..k : <<m.chan, (m.seq + j) % Modulus>> \in DOMAIN rcv.withheld}
        = {k \in 1..ReceiveWindow : \A j \in 1..k : key[j] \in D}
    BY <1>1, <2>1, Zenon
  <2> QED
    BY <1>4, <2>2, Zenon
<1>7. Cardinality(1..count) = count
  <2>1. Cardinality(1..count) = IF 1 > count THEN 0 ELSE count - 1 + 1
    BY <1>5, FS_Interval
  <2> QED
    BY <1>5, <2>1
<1>8. PICK run : run = Following(m)
  OBVIOUS
<1>9. run = [k \in 1..count |-> <<m.chan, (m.seq + k) % Modulus>>]
  BY <1>6, <1>7, <1>8, Zenon DEF Following
<1>10. DOMAIN run = 1..count /\ \A k \in 1..count : run[k] = key[k]
  BY <1>2, <1>5, <1>9
<1>11. Len(run) = count
  <2>1. PICK S : S = {<<m.chan, (m.seq + k) % Modulus>> : k \in 1..count}
    OBVIOUS
  <2>2. run \in [1..count -> S]
    BY <1>9, <2>1
  <2>3. run \in Seq(S)
    BY <1>5, <2>2, SeqDef
  <2> QED
    BY <1>5, <1>10, <2>3, LenProperties
\* A message that is withheld under the key of number n + k has that number.
<1>12. ASSUME NEW k \in 1..(ReceiveWindow + 1), NEW h \in D, w[h].chan = c
       PROVE  /\ h = key[k] /\ k <= ReceiveWindow => w[h].n = n + k
              /\ w[h].n = n + k => h = key[k]
  <2>1. PICK a : a = w[h].n
    OBVIOUS
  <2>2. a \in Nat /\ h = <<c, a % Modulus>> /\ n < a /\ a <= n + ReceiveWindow
    BY <1>1, <1>3, <1>12, <2>1 DEF WithheldAt, MessageAt
  <2>3. k \in Nat /\ Modulus \in Nat \ {0} /\ ReceiveWindow < Modulus
    BY <1>3, WindowAssumption, ConstantsAre
  <2>4. key[k] = <<c, (n + k) % Modulus>>
    <3>1. key[k] = <<c, ((n % Modulus) + k) % Modulus>>
      BY <1>1, <1>2, <1>3
    <3>2. ((n % Modulus) + k) % Modulus = (n + k) % Modulus
      BY <1>3, <2>3, AddRemainder
    <3> QED
      BY <3>1, <3>2
  <2>5. ASSUME h = key[k], k <= ReceiveWindow PROVE a = n + k
    <3>1. PICK b : b = n + k
      OBVIOUS
    <3>2. b \in Nat /\ a - b < Modulus /\ b - a < Modulus
      BY <1>3, <1>12, <2>2, <2>3, <2>5, <3>1
    <3>3. a % Modulus = b % Modulus
      BY <2>2, <2>4, <2>5, <3>1
    <3>4. a = b
      BY <2>2, <2>3, <3>2, <3>3, NearSame
    <3> QED
      BY <3>1, <3>4
  <2>6. a = n + k => h = key[k]
    BY <2>2, <2>4
  <2> QED
    BY <2>1, <2>5, <2>6
<1>13. ASSUME NEW k \in 1..count
       PROVE  run[k] \in D /\ w[run[k]].chan = c /\ w[run[k]].n = n + k
  <2>1. run[k] \in D /\ run[k] = key[k] /\ k \in 1..(ReceiveWindow + 1) /\ k <= ReceiveWindow
    BY <1>4, <1>5, <1>10
  <2>2. w[run[k]].chan = c
    <3>1. run[k] = <<c, (m.seq + k) % Modulus>>
      BY <1>1, <1>9
    <3>2. run[k] = <<w[run[k]].chan, w[run[k]].seq>>
      BY <1>1, <2>1 DEF WithheldAt
    <3> QED
      BY <3>1, <3>2
  <2> QED
    BY <1>12, <2>1, <2>2
<1>14. ASSUME NEW h \in D \ Range(run), w[h].chan = c PROVE n + count + 1 < w[h].n
  <2>1. PICK a : a = w[h].n
    OBVIOUS
  <2>2. a \in Nat /\ n < a /\ a <= n + ReceiveWindow
    BY <1>1, <1>3, <1>14, <2>1 DEF WithheldAt, MessageAt
  <2>3. ASSUME ~(n + count + 1 < a) PROVE FALSE
    <3>1. PICK k : k = a - n
      OBVIOUS
    <3>2. k \in 1..(ReceiveWindow + 1) /\ a = n + k /\ k \in 1..(count + 1) /\ k <= ReceiveWindow
      BY <1>3, <1>5, <2>2, <2>3, <3>1
    <3>3. h = key[k]
      BY <1>12, <1>14, <2>1, <3>2
    <3>4. CASE k \in 1..count
      <4>1. h = run[k] /\ k \in DOMAIN run
        BY <1>10, <3>3, <3>4
      <4> QED
        BY <1>14, <4>1 DEF Range
    <3>5. CASE k = count + 1
      <4>1. count < ReceiveWindow
        BY <1>3, <1>5, <3>2, <3>5
      <4> QED
        BY <1>4, <1>14, <3>3, <3>5, <4>1
    <3> QED
      BY <1>5, <3>2, <3>4, <3>5
  <2> QED
    BY <2>1, <2>3
<1>15. Follows(run, count, m, rcv.withheld)
  BY <1>1, <1>10, <1>11, <1>13, <1>14 DEF Follows
<1> QED
  BY <1>8, <1>15

LEMMA FirstRound ==
    ASSUME NEW at, NEW to, NEW m, NEW r, NEW gone, NEW e,
           Starts(made, at), MessageAt(made, at, to, m), e \in [Channel -> Nat], m.n = e[m.chan],
           Delivered(made, at, r, gone, e)
    PROVE  RoundOK(at, r, Released(r, m), gone, e, m.chan, 0)
<1>1. PICK c, s : c = m.chan /\ s = Released(r, m)
  OBVIOUS
<1>2. c \in Channel
  BY <1>1 DEF MessageAt
<1>3. /\ s.rcv.expected = r.rcv.expected /\ s.rcv.withheld = r.rcv.withheld
      /\ s.rcv.open => Delivered(made, at, s, gone, Advanced(e, c, 1))
      /\ ~s.rcv.open => Delivered(made, at, s, gone, e)
      /\ GotGrows(r.got, s.got, c)
  <2>1. /\ Released(r, m).rcv.expected = r.rcv.expected
        /\ Released(r, m).rcv.withheld = r.rcv.withheld
        /\ Released(r, m).rcv.open =>
              r.rcv.open /\ Delivered(made, at, Released(r, m), gone, Advanced(e, m.chan, 1))
        /\ ~Released(r, m).rcv.open => Delivered(made, at, Released(r, m), gone, e)
        /\ GotGrows(r.got, Released(r, m).got, m.chan)
    BY ReleasedKeeps
  <2> QED
    BY <1>1, <2>1
<1>4. Advanced(e, c, 0) = e
  <2>1. PICK g : g = Advanced(e, c, 0)
    OBVIOUS
  <2>2. DOMAIN g = Channel /\ \A d \in Channel : g[d] = e[d]
    BY <1>2, <2>1 DEF Advanced
  <2>3. g = [d \in DOMAIN g |-> g[d]]
    BY <2>1 DEF Advanced
  <2>4. e = [d \in Channel |-> e[d]]
    OBVIOUS
  <2>5. g = e
    BY <2>2, <2>3, <2>4
  <2> QED
    BY <2>1, <2>5
<1>5. 0 \in 0..(0 + 1) /\ 1 \in 0..(0 + 1) /\ 1 = 0 + 1
  OBVIOUS
<1>6. CASE s.rcv.open
  BY <1>1, <1>3, <1>5, <1>6 DEF RoundOK
<1>7. CASE ~s.rcv.open
  BY <1>1, <1>3, <1>4, <1>5, <1>7 DEF RoundOK
<1> QED
  BY <1>6, <1>7

LEMMA RoundsKeep ==
    ASSUME NEW at, NEW to, NEW m, NEW r, NEW gone, NEW e, NEW run, NEW count, NEW f, NEW withheld,
           Starts(made, at), MessageAt(made, at, to, m), e \in [Channel -> Nat], m.n = e[m.chan],
           Delivered(made, at, r, gone, e), Follows(run, count, m, withheld),
           \A key \in DOMAIN withheld : MessageAt(made, at, to, withheld[key]),
           IsRelease(f, count, r, m, run, withheld)
    PROVE  RoundOK(at, r, f[count], gone, e, m.chan, count)
<1>1. PICK c : c = m.chan
  OBVIOUS
<1>2. c \in Channel /\ Len(r.got[c]) \in Nat /\ count \in Nat /\ count \in 0..count /\ e[c] \in Nat
  <2>1. c \in Channel
    BY <1>1 DEF MessageAt
  <2>2. Len(r.got[c]) \in Nat
    BY <2>1 DEF Delivered, OutInOrder
  <2>3. count \in Nat
    BY ConstantsAre DEF Follows
  <2> QED
    BY <2>1, <2>2, <2>3
<1>3. PICK T : T = {k \in 0..count : ~RoundOK(at, r, f[k], gone, e, c, k)}
  OBVIOUS
<1>4. CASE T = {}
  BY <1>1, <1>2, <1>3, <1>4
<1>5. CASE T # {}
  <2>1. T \subseteq Nat
    BY <1>3
  <2>2. PICK n \in T : \A l \in T : n <= l
    BY <1>5, <2>1, LeastNat
  <2>3. n \in 0..count /\ n \in Nat /\ ~RoundOK(at, r, f[n], gone, e, c, n)
    BY <1>3
  <2>4. f[n] = IF n = 0 THEN Released(r, m) ELSE Released(f[n - 1], withheld[run[n]])
    BY <2>3, Zenon DEF IsRelease
  <2>5. n # 0
    <3>1. CASE n = 0
      <4>1. f[n] = Released(r, m)
        BY <2>4, <3>1
      <4>2. RoundOK(at, r, Released(r, m), gone, e, m.chan, 0)
        BY FirstRound
      <4> QED
        BY <1>1, <2>3, <3>1, <4>1, <4>2
    <3> QED
      BY <3>1
  <2>6. PICK k : k = n - 1
    OBVIOUS
  <2>7. k \in Nat /\ k \in 0..count /\ k \notin T /\ n = k + 1 /\ n \in 1..count
    BY <1>2, <2>2, <2>3, <2>5, <2>6
  <2>8. RoundOK(at, r, f[k], gone, e, c, k)
    BY <1>3, <2>7
  <2>9. PICK o : o = withheld[run[n]]
    OBVIOUS
  <2>10. MessageAt(made, at, to, o) /\ o.chan = c /\ o.n = e[c] + (k + 1)
    <3>1. run[n] \in DOMAIN withheld /\ o.chan = m.chan /\ o.n = m.n + n
      BY <2>7, <2>9 DEF Follows
    <3>2. MessageAt(made, at, to, o)
      BY <2>9, <3>1
    <3> QED
      BY <1>1, <2>7, <3>1, <3>2
  <2>11. f[n] = Released(f[k], o)
    BY <2>4, <2>5, <2>6, <2>9
  <2>12. RoundOK(at, r, Released(f[k], o), gone, e, o.chan, k + 1)
    <3>1. o.n = e[o.chan] + (k + 1) /\ Len(r.got[o.chan]) \in Nat /\ RoundOK(at, r, f[k], gone, e, o.chan, k)
      BY <1>2, <2>8, <2>10
    <3>2. PICK g : g = f[k]
      OBVIOUS
    <3>3. RoundOK(at, r, Released(g, o), gone, e, o.chan, k + 1)
      BY <2>7, <2>10, <3>1, <3>2, RoundKeeps
    <3> QED
      BY <3>2, <3>3
  <2> QED
    BY <2>3, <2>7, <2>10, <2>11, <2>12
<1> QED
  BY <1>4, <1>5

\* The run of the source ends in a state end, from which the handler goes on.
AdvancedTo(end, run, m) ==
    /\ rcv' = IF end.rcv.open
              THEN [end.rcv EXCEPT
                      !.expected[m.chan] = (m.seq + Len(run) + 1) % Modulus,
                      !.withheld = Without(@, Range(run))]
              ELSE [end.rcv EXCEPT !.withheld = Empty, !.fragments = Empty]
    /\ got' = end.got

LEMMA AdvanceEnds ==
    ASSUME NEW at, NEW e, NEW m, Starts(made, at), MessageAt(made, at, sent, m),
           e \in [Channel -> Nat], m.n = e[m.chan], WithheldAt(made, at, rcv, sent, e),
           Delivered(made, at, [rcv |-> rcv, got |-> got], expired, e), Advance(m)
    PROVE  \E run, count, end :
              /\ Follows(run, count, m, rcv.withheld)
              /\ RoundOK(at, [rcv |-> rcv, got |-> got], end, expired, e, m.chan, count)
              /\ AdvancedTo(end, run, m)
<1>1. PICK base, run, withheld :
        base = [rcv |-> rcv, got |-> got] /\ run = Following(m) /\ withheld = rcv.withheld
  OBVIOUS
<1>2. PICK count : Follows(run, count, m, withheld)
  BY <1>1, FollowingIs
<1>3. PICK size : size = Len(run)
  OBVIOUS
<1>4. size = count /\ size \in Nat
  <2>1. size = count
    BY <1>2, <1>3 DEF Follows
  <2>2. count \in Nat
    BY <1>2, ConstantsAre DEF Follows
  <2> QED
    BY <2>1, <2>2
<1>5. PICK f : f = CHOOSE g : IsRelease(g, size, base, m, run, withheld)
  OBVIOUS
<1>6. IsRelease(f, size, base, m, run, withheld)
  BY <1>4, <1>5, ReleaseExists, ZenonT(60)
<1>7. AdvancedTo(f[size], run, m)
  BY <1>1, <1>3, <1>5 DEF Advance, AdvancedTo, IsRelease
<1>8. \A key \in DOMAIN withheld : MessageAt(made, at, sent, withheld[key])
  BY <1>1 DEF WithheldAt
<1>9. RoundOK(at, base, f[size], expired, e, m.chan, size)
  <2>1. Delivered(made, at, base, expired, e) /\ Follows(run, size, m, withheld)
    BY <1>1, <1>2, <1>4
  <2> QED
    BY <1>6, <1>8, <2>1, RoundsKeep
<1> QED
  BY <1>1, <1>2, <1>4, <1>7, <1>9

-----------------------------------------------------------------------------
(* The steps of the receiver.                                              *)

\* The transfers that came out are those that end before the numbers e.
GotUpTo(hist, at, g, gone, e) ==
    /\ DOMAIN g = Channel /\ IsMapping(g)
    /\ \A id \in 1..Len(at) :
          id \in Range(g[hist[id].chan]) <=>
              id \notin gone /\ at[id] + hist[id].chunks <= e[hist[id].chan]
    /\ \A c \in Channel :
          /\ g[c] \in Seq(1..Len(at)) /\ \A i \in 1..Len(g[c]) : hist[g[c][i]].chan = c
          /\ \A i, j \in 1..Len(g[c]) : i < j => g[c][i] < g[c][j]

LEMMA DeliveredOut ==
    ASSUME NEW hist, NEW at, NEW r, NEW gone, NEW e,
           Starts(hist, at), e \in [Channel -> Nat], Delivered(hist, at, r, gone, e)
    PROVE  GotUpTo(hist, at, r.got, gone, e)
<1>1. ASSUME NEW id \in 1..Len(at)
      PROVE  id \in Range(r.got[hist[id].chan]) <=>
                 id \notin gone /\ at[id] + hist[id].chunks <= e[hist[id].chan]
  <2>1. at[id] + hist[id].chunks \in Nat /\ e[hist[id].chan] \in Nat
    <3>1. at[id] \in Nat /\ id \in 1..Len(hist)
      BY StartsAre
    <3>2. hist[id].chunks \in Nat /\ hist[id].chan \in Channel
      BY <3>1, StartsAre
    <3> QED
      BY <3>1, <3>2
  <2>2. at[id] + hist[id].chunks > e[hist[id].chan] \/ at[id] + hist[id].chunks <= e[hist[id].chan]
    BY <2>1
  <2>3. ~(at[id] + hist[id].chunks > e[hist[id].chan] /\ at[id] + hist[id].chunks <= e[hist[id].chan])
    BY <2>1
  <2>4. CameOut(hist, at, r, gone, e[hist[id].chan], id)
    BY DEF Delivered
  <2> QED
    BY <2>2, <2>3, <2>4 DEF CameOut
<1>2. DOMAIN r.got = Channel /\ IsMapping(r.got) /\ \A c \in Channel : OutInOrder(hist, at, r, c)
  BY DEF Delivered
<1> QED
  BY <1>1, <1>2 DEF GotUpTo, OutInOrder

\* The receiver goes on from the numbers e to the numbers next, having received message m.
ReceiverMoves(at, e, next, m) ==
    /\ ReceiverNumbers(rcv', sent, next) /\ WithheldAt(made, at, rcv', sent, next)
    /\ Delivered(made, at, [rcv |-> rcv', got |-> got'], expired, next)
    /\ \A c \in Channel : \A n \in Nat : IsReceived(rcv, e, c, n) => IsReceived(rcv', next, c, n)
    /\ IsReceived(rcv', next, m.chan, m.n)

\* What came out so far came out in order, and if the receiver goes on it is right.
DeliverSteps(at, e, m) ==
    /\ GotGrows(got, got', m.chan)
    /\ \E next \in [Channel -> Nat] : /\ GotUpTo(made, at, got', expired, next)
                                      /\ rcv'.open => ReceiverMoves(at, e, next, m)

\* The state of the receiver after the run.
LEMMA AdvancedIs ==
    ASSUME NEW end, NEW run, NEW m, AdvancedTo(end, run, m), m.chan \in Channel,
           DOMAIN end.rcv = {"open", "expected", "withheld", "fragments"}
    PROVE  /\ rcv'.open = end.rcv.open /\ got' = end.got
           /\ end.rcv.open =>
                 /\ DOMAIN rcv' = {"open", "expected", "withheld", "fragments"}
                 /\ rcv'.expected = [end.rcv.expected EXCEPT ![m.chan] = (m.seq + Len(run) + 1) % Modulus]
                 /\ rcv'.withheld = Without(end.rcv.withheld, Range(run))
                 /\ rcv'.fragments = end.rcv.fragments
<1>1. PICK r, q, seq, held : /\ r = end.rcv /\ q = Range(run) /\ seq = (m.seq + Len(run) + 1) % Modulus
                             /\ held = Without(end.rcv.withheld, Range(run))
  OBVIOUS
<1>2. CASE ~r.open
  <2>1. rcv' = [r EXCEPT !.withheld = Empty, !.fragments = Empty]
    BY <1>1, <1>2 DEF AdvancedTo
  <2> QED
    BY <1>1, <1>2, <2>1 DEF AdvancedTo
<1>3. CASE r.open
  <2>1. rcv' = [r EXCEPT !.expected[m.chan] = seq, !.withheld = held]
    BY <1>1, <1>3 DEF AdvancedTo
  <2> QED
    BY <1>1, <1>3, <2>1 DEF AdvancedTo
<1> QED
  BY <1>2, <1>3

\* The expected message arrives.
LEMMA AdvanceSteps ==
    ASSUME NEW at, NEW e, NEW m, Starts(made, at), MessageAt(made, at, sent, m), sent \in [Channel -> Nat],
           m.n = e[m.chan], ReceiverNumbers(rcv, sent, e), WithheldAt(made, at, rcv, sent, e),
           Delivered(made, at, [rcv |-> rcv, got |-> got], expired, e), Advance(m)
    PROVE  DeliverSteps(at, e, m)
<1>1. e \in [Channel -> Nat] /\ m.chan \in Channel /\ m.n \in Nat /\ m.seq = m.n % Modulus /\ m.n < sent[m.chan]
  BY DEF ReceiverNumbers, MessageAt
<1>2. PICK run, count, end :
        /\ Follows(run, count, m, rcv.withheld)
        /\ RoundOK(at, [rcv |-> rcv, got |-> got], end, expired, e, m.chan, count)
        /\ AdvancedTo(end, run, m)
  BY <1>1, AdvanceEnds
<1>3. PICK c, n, w : c = m.chan /\ n = m.n /\ w = rcv.withheld
  OBVIOUS
<1>4. count \in Nat /\ count <= ReceiveWindow /\ Len(run) = count /\ ReceiveWindow \in Nat
  BY <1>2, ConstantsAre DEF Follows
<1>5. end.rcv.expected = rcv.expected /\ end.rcv.withheld = w /\ GotGrows(got, end.got, c)
  BY <1>2, <1>3 DEF RoundOK
<1>6. PICK j \in 0..(count + 1) :
        Delivered(made, at, end, expired, Advanced(e, c, j)) /\ (end.rcv.open => j = count + 1)
  BY <1>2, <1>3 DEF RoundOK
<1>7. PICK next : next = Advanced(e, c, j)
  OBVIOUS
<1>8. j \in Nat /\ next \in [Channel -> Nat] /\ next[c] = e[c] + j /\ \A d \in Channel \ {c} : next[d] = e[d]
  <2>1. j \in Nat
    BY <1>4
  <2>2. c \in Channel
    BY <1>1, <1>3
  <2>3. /\ Advanced(e, c, j) \in [Channel -> Nat] /\ Advanced(e, c, j)[c] = e[c] + j
        /\ \A d \in Channel \ {c} : Advanced(e, c, j)[d] = e[d]
    BY <1>1, <2>1, <2>2, AdvancedTwice, ZenonT(60)
  <2> QED
    BY <1>7, <2>1, <2>3
<1>9. Delivered(made, at, end, expired, next) /\ GotUpTo(made, at, end.got, expired, next)
  BY <1>6, <1>7, <1>8, DeliveredOut
<1>10. DOMAIN end.rcv = {"open", "expected", "withheld", "fragments"}
  BY <1>9 DEF Delivered
<1>11. /\ rcv'.open = end.rcv.open /\ got' = end.got
       /\ end.rcv.open =>
             /\ DOMAIN rcv' = {"open", "expected", "withheld", "fragments"}
             /\ rcv'.expected = [end.rcv.expected EXCEPT ![m.chan] = (m.seq + Len(run) + 1) % Modulus]
             /\ rcv'.withheld = Without(end.rcv.withheld, Range(run))
             /\ rcv'.fragments = end.rcv.fragments
  BY <1>1, <1>2, <1>10, AdvancedIs
<1>12. ASSUME rcv'.open PROVE ReceiverMoves(at, e, next, m)
  <2>1. PICK r, D : r = rcv' /\ D = DOMAIN r.withheld
    OBVIOUS
  <2>2. /\ end.rcv.open /\ r.open /\ j = count + 1
        /\ DOMAIN r = {"open", "expected", "withheld", "fragments"}
        /\ r.expected = [rcv.expected EXCEPT ![c] = (m.seq + count + 1) % Modulus]
        /\ r.withheld = Without(w, Range(run)) /\ r.fragments = end.rcv.fragments
    BY <1>3, <1>4, <1>5, <1>6, <1>11, <1>12, <2>1
  <2>3. D = DOMAIN w \ Range(run) /\ \A k \in D : r.withheld[k] = w[k]
    BY <2>1, <2>2 DEF Without
  <2>4. n \in Nat /\ n = e[c] /\ c \in Channel /\ n < sent[c] /\ next[c] = n + count + 1
    <3>1. n \in Nat /\ n = e[c] /\ c \in Channel /\ n < sent[c]
      BY <1>1, <1>3
    <3>2. PICK i : i = next[c]
      OBVIOUS
    <3>3. i = n + j
      BY <1>8, <3>1, <3>2
    <3>4. i = n + count + 1
      BY <1>4, <2>2, <3>1, <3>3
    <3> QED
      BY <3>1, <3>2, <3>4
  <2>5. (m.seq + count + 1) % Modulus = next[c] % Modulus
    <3>1. PICK k : k = count + 1
      OBVIOUS
    <3>2. k \in Nat /\ Modulus \in Nat \ {0}
      BY <1>4, <3>1, ConstantsAre
    <3>3. ((n % Modulus) + k) % Modulus = (n + k) % Modulus
      BY <2>4, <3>2, AddRemainder
    <3>4. PICK x : x = m.seq
      OBVIOUS
    <3>5. x = n % Modulus /\ x \in Nat
      BY <1>1, <1>3, <2>4, <3>2, <3>4
    <3>6. x + count + 1 = x + k
      BY <1>4, <3>1, <3>5
    <3>7. n + count + 1 = n + k
      BY <1>4, <2>4, <3>1
    <3> QED
      BY <2>4, <3>3, <3>4, <3>5, <3>6, <3>7
  <2>6. next[c] <= sent[c]
    <3>1. CASE count = 0
      BY <2>4, <3>1
    <3>2. CASE count # 0
      <4>1. PICK o : o = w[run[count]]
        OBVIOUS
      <4>2. count \in 1..count
        BY <1>4, <3>2
      <4>3. run[count] \in DOMAIN w /\ o.chan = c /\ o.n = n + count
        BY <1>2, <1>3, <4>1, <4>2 DEF Follows
      <4>4. o.n < sent[c]
        BY <1>3, <4>1, <4>3 DEF WithheldAt, MessageAt
      <4> QED
        BY <1>4, <2>4, <4>3, <4>4
    <3> QED
      BY <3>1, <3>2
  <2>7. ReceiverNumbers(r, sent, next)
    <3>1. r.expected \in [Channel -> Nat] /\ \A d \in Channel : r.expected[d] = next[d] % Modulus
      <4>1. rcv.expected \in [Channel -> Nat] /\ \A d \in Channel : rcv.expected[d] = e[d] % Modulus
        BY DEF ReceiverNumbers
      <4>2. next[c] % Modulus \in Nat
        <5>1. next[c] \in Nat /\ Modulus \in Nat \ {0}
          BY <1>8, <2>4, ConstantsAre
        <5> QED
          BY <5>1
      <4> QED
        BY <1>8, <2>2, <2>4, <2>5, <4>1, <4>2
    <3>2. \A d \in Channel : next[d] <= sent[d] /\ sent[d] - next[d] <= ReceiveWindow + 1
      <4>1. \A d \in Channel : e[d] <= sent[d] /\ sent[d] - e[d] <= ReceiveWindow + 1
        BY DEF ReceiverNumbers
      <4>2. sent[c] - next[c] <= ReceiveWindow + 1
        <5>1. sent[c] - e[c] <= ReceiveWindow + 1 /\ sent[c] \in Nat
          BY <2>4, <4>1
        <5> QED
          BY <1>4, <2>4, <5>1
      <4> QED
        BY <1>8, <2>6, <4>1, <4>2
    <3> QED
      BY <1>8, <3>1, <3>2 DEF ReceiverNumbers
  <2>8. WithheldAt(made, at, r, sent, next)
    <3>1. ASSUME NEW k \in D
          PROVE  /\ MessageAt(made, at, sent, w[k]) /\ k = <<w[k].chan, w[k].seq>>
                 /\ next[w[k].chan] < w[k].n /\ w[k].n <= next[w[k].chan] + ReceiveWindow
      <4>1. PICK o : o = w[k]
        OBVIOUS
      <4>2. /\ MessageAt(made, at, sent, o) /\ k = <<o.chan, o.seq>>
            /\ e[o.chan] < o.n /\ o.n <= e[o.chan] + ReceiveWindow /\ o.chan \in Channel /\ o.n \in Nat
        BY <1>3, <2>3, <3>1, <4>1 DEF WithheldAt, MessageAt
      <4>3. CASE o.chan = c
        <5>1. n + count + 1 < o.n
          BY <1>2, <1>3, <2>3, <3>1, <4>1, <4>3 DEF Follows
        <5>2. next[c] < o.n /\ o.n <= next[c] + ReceiveWindow
          BY <1>4, <2>4, <4>2, <4>3, <5>1
        <5> QED
          BY <4>1, <4>2, <4>3, <5>2
      <4>4. CASE o.chan # c
        BY <1>8, <4>1, <4>2, <4>4
      <4> QED
        BY <4>3, <4>4
    <3> QED
      BY <2>1, <2>3, <3>1 DEF WithheldAt
  <2>9. Delivered(made, at, [rcv |-> rcv', got |-> got'], expired, next)
    <3>1. PICK u : u = [rcv |-> r, got |-> got']
      OBVIOUS
    <3>2. DOMAIN u = {"rcv", "got"} /\ u.rcv = r /\ u.got = end.got
      BY <1>11, <3>1
    <3>3. \A id : Chunks(u.rcv, id) = Chunks(end.rcv, id)
      BY <2>2, <3>2 DEF Chunks
    <3>4. \A id \in 1..Len(at) : CameOut(made, at, u, expired, next[made[id].chan], id)
      BY <1>9, <3>2, <3>3 DEF Delivered, CameOut
    <3>5. \A d \in Channel : OutInOrder(made, at, u, d)
      BY <1>9, <3>2 DEF Delivered, OutInOrder
    <3>6. Delivered(made, at, u, expired, next)
      BY <1>9, <2>2, <3>2, <3>4, <3>5 DEF Delivered
    <3> QED
      BY <2>1, <3>1, <3>6
  <2>10. ASSUME NEW d \in Channel, NEW i \in Nat, IsReceived(rcv, e, d, i) PROVE IsReceived(r, next, d, i)
    <3>1. e[d] \in Nat /\ next[d] \in Nat /\ e[d] <= next[d]
      <4>1. e[d] \in Nat /\ next[d] \in Nat
        BY <1>1, <1>8
      <4>2. CASE d = c
        <5>1. PICK x, y : x = e[d] /\ y = next[d]
          OBVIOUS
        <5>2. x \in Nat /\ y = x + count + 1
          BY <2>4, <4>2, <5>1
        <5>3. x <= y
          BY <1>4, <5>2
        <5> QED
          BY <4>1, <5>1, <5>3
      <4>3. CASE d # c
        BY <1>8, <4>1, <4>3
      <4> QED
        BY <4>1, <4>2, <4>3
    <3>2. CASE i < e[d]
      BY <3>1, <3>2 DEF IsReceived
    <3>3. CASE ~(i < e[d])
      <4>1. PICK k \in DOMAIN w : w[k].chan = d /\ w[k].n = i
        BY <1>3, <2>10, <3>3 DEF IsReceived
      <4>2. CASE k \in D
        BY <2>1, <2>3, <4>1, <4>2 DEF IsReceived
      <4>3. CASE k \notin D
        <5>1. PICK o \in 1..count : k = run[o]
          BY <1>2, <2>3, <4>1, <4>3 DEF Follows, Range
        <5>2. d = c /\ i = n + o
          BY <1>2, <1>3, <4>1, <5>1 DEF Follows
        <5>3. i < next[d]
          BY <1>4, <2>4, <5>2
        <5> QED
          BY <5>3 DEF IsReceived
      <4> QED
        BY <4>2, <4>3
    <3> QED
      BY <3>2, <3>3
  <2>11. IsReceived(r, next, c, n)
    <3>1. n < next[c]
      BY <1>4, <2>4
    <3> QED
      BY <3>1 DEF IsReceived
  <2> QED
    BY <1>3, <2>1, <2>7, <2>8, <2>9, <2>10, <2>11 DEF ReceiverMoves
<1> QED
  BY <1>3, <1>5, <1>8, <1>9, <1>11, <1>12 DEF DeliverSteps

\* What comes out is about the fragments and what came out alone.
LEMMA DeliveredSame ==
    ASSUME NEW hist, NEW at, NEW r, NEW s, NEW gone, NEW e, Delivered(hist, at, r, gone, e),
           DOMAIN s = {"rcv", "got"}, DOMAIN s.rcv = {"open", "expected", "withheld", "fragments"},
           s.got = r.got, s.rcv.fragments = r.rcv.fragments
    PROVE  Delivered(hist, at, s, gone, e)
<1>1. \A id : Chunks(s.rcv, id) = Chunks(r.rcv, id)
  BY DEF Chunks
<1>2. \A id \in 1..Len(at) : CameOut(hist, at, s, gone, e[hist[id].chan], id)
  BY <1>1 DEF Delivered, CameOut
<1>3. \A d \in Channel : OutInOrder(hist, at, s, d)
  BY DEF Delivered, OutInOrder
<1> QED
  BY <1>2, <1>3 DEF Delivered

\* Nothing came out.
LEMMA NothingOut ==
    ASSUME NEW at, NEW e, NEW m, Starts(made, at), e \in [Channel -> Nat], m.chan \in Channel,
           Delivered(made, at, [rcv |-> rcv, got |-> got], expired, e), got' = got,
           rcv'.open => ReceiverMoves(at, e, e, m)
    PROVE  DeliverSteps(at, e, m)
<1>1. PICK r : r = [rcv |-> rcv, got |-> got]
  OBVIOUS
<1>2. Delivered(made, at, r, expired, e) /\ r.got = got
  BY <1>1
<1>3. GotUpTo(made, at, got', expired, e)
  BY <1>2, DeliveredOut
<1>4. DOMAIN got = Channel /\ Len(got[m.chan]) \in Nat
  BY <1>2 DEF Delivered, OutInOrder
<1>5. GotGrows(got, got', m.chan)
  BY <1>4 DEF GotGrows
<1> QED
  BY <1>3, <1>5 DEF DeliverSteps

\* A message ahead of the expected one arrives.
LEMMA WithholdSteps ==
    ASSUME NEW at, NEW e, NEW m, Starts(made, at), MessageAt(made, at, sent, m),
           e[m.chan] < m.n, m.n <= e[m.chan] + ReceiveWindow,
           ReceiverNumbers(rcv, sent, e), WithheldAt(made, at, rcv, sent, e),
           Delivered(made, at, [rcv |-> rcv, got |-> got], expired, e), Withhold(m)
    PROVE  DeliverSteps(at, e, m)
<1>1. PICK c, n, key, w, r : /\ c = m.chan /\ n = m.n /\ key = <<m.chan, m.seq>> /\ w = rcv.withheld
                             /\ r = rcv'
  OBVIOUS
<1>2. e \in [Channel -> Nat] /\ c \in Channel /\ n \in Nat /\ m.seq = n % Modulus
      /\ e[c] < n /\ n <= e[c] + ReceiveWindow /\ e[c] \in Nat
  BY <1>1 DEF ReceiverNumbers, MessageAt
<1>3. DOMAIN rcv = {"open", "expected", "withheld", "fragments"}
  <2>1. PICK s : s = [rcv |-> rcv, got |-> got]
    OBVIOUS
  <2>2. Delivered(made, at, s, expired, e) /\ s.rcv = rcv
    BY <2>1
  <2> QED
    BY <2>2 DEF Delivered
<1>4. /\ DOMAIN r = {"open", "expected", "withheld", "fragments"} /\ r.expected = rcv.expected
      /\ r.fragments = rcv.fragments /\ r.withheld = With(w, key, m) /\ got' = got
  <2>1. r = [rcv EXCEPT !.withheld = With(@, <<m.chan, m.seq>>, m)] /\ got' = got
    BY <1>1 DEF Withhold
  <2> QED
    BY <1>1, <1>3, <2>1
<1>5. /\ DOMAIN r.withheld = DOMAIN w \cup {key} /\ r.withheld[key] = m
      /\ \A k \in DOMAIN w : k # key => r.withheld[k] = w[k]
  BY <1>4 DEF With
<1>6. \A k \in DOMAIN w : /\ MessageAt(made, at, sent, w[k]) /\ k = <<w[k].chan, w[k].seq>>
                          /\ e[w[k].chan] < w[k].n /\ w[k].n <= e[w[k].chan] + ReceiveWindow
  BY <1>1 DEF WithheldAt
<1>7. WithheldAt(made, at, r, sent, e)
  <2>1. ASSUME NEW k \in DOMAIN r.withheld
        PROVE  LET o == r.withheld[k]
               IN  /\ MessageAt(made, at, sent, o) /\ k = <<o.chan, o.seq>>
                   /\ e[o.chan] < o.n /\ o.n <= e[o.chan] + ReceiveWindow
    <3>1. CASE k = key
      BY <1>1, <1>5, <3>1
    <3>2. CASE k # key
      BY <1>5, <1>6, <2>1, <3>2
    <3> QED
      BY <3>1, <3>2
  <2> QED
    BY <2>1 DEF WithheldAt
<1>8. ReceiverNumbers(r, sent, e)
  BY <1>4 DEF ReceiverNumbers
<1>9. Delivered(made, at, [rcv |-> rcv', got |-> got'], expired, e)
  <2>1. PICK s, u : s = [rcv |-> rcv, got |-> got] /\ u = [rcv |-> r, got |-> got']
    OBVIOUS
  <2>2. Delivered(made, at, s, expired, e) /\ s.rcv = rcv /\ s.got = got
    BY <2>1
  <2>3. DOMAIN u = {"rcv", "got"} /\ u.rcv = r /\ u.got = s.got /\ u.rcv.fragments = s.rcv.fragments
        /\ DOMAIN u.rcv = {"open", "expected", "withheld", "fragments"}
    BY <1>4, <2>1, <2>2
  <2>4. Delivered(made, at, u, expired, e)
    BY <2>2, <2>3, DeliveredSame
  <2> QED
    BY <1>1, <2>1, <2>4
<1>10. IsReceived(r, e, c, n)
  BY <1>1, <1>5 DEF IsReceived
<1>11. ASSUME NEW d \in Channel, NEW i \in Nat, IsReceived(rcv, e, d, i) PROVE IsReceived(r, e, d, i)
  <2>1. CASE i < e[d]
    BY <2>1 DEF IsReceived
  <2>2. CASE ~(i < e[d])
    <3>1. PICK k \in DOMAIN w : w[k].chan = d /\ w[k].n = i
      BY <1>1, <1>11, <2>2 DEF IsReceived
    <3>2. CASE k # key
      BY <1>5, <3>1, <3>2 DEF IsReceived
    <3>3. CASE k = key
      <4>1. k = <<d, w[k].seq>> /\ w[k].seq = i % Modulus /\ e[d] < i /\ i <= e[d] + ReceiveWindow
        BY <1>6, <3>1 DEF MessageAt
      <4>2. d = c /\ i % Modulus = n % Modulus
        BY <1>1, <1>2, <3>3, <4>1
      <4>3. Modulus \in Nat \ {0} /\ ReceiveWindow \in Nat /\ ReceiveWindow < Modulus
        BY WindowAssumption, ConstantsAre
      <4>4. i - n < Modulus /\ n - i < Modulus
        <5>1. PICK x : x = e[c]
          OBVIOUS
        <5>2. x \in Nat /\ x < i /\ i <= x + ReceiveWindow /\ x < n /\ n <= x + ReceiveWindow
          BY <1>2, <4>1, <4>2, <5>1
        <5> QED
          BY <1>2, <4>3, <5>2
      <4>5. i = n
        BY <1>2, <4>2, <4>3, <4>4, NearSame
      <4> QED
        BY <1>10, <4>2, <4>5
    <3> QED
      BY <3>2, <3>3
  <2> QED
    BY <2>1, <2>2
<1>12. ReceiverMoves(at, e, e, m)
  BY <1>1, <1>7, <1>8, <1>9, <1>10, <1>11 DEF ReceiverMoves
<1> QED
  BY <1>1, <1>2, <1>4, <1>12, NothingOut

\* A message that was released, or is in nobody's window, arrives.
LEMMA DiscardSteps ==
    ASSUME NEW at, NEW e, NEW m, Starts(made, at), MessageAt(made, at, sent, m), m.n < e[m.chan],
           ReceiverNumbers(rcv, sent, e), WithheldAt(made, at, rcv, sent, e),
           Delivered(made, at, [rcv |-> rcv, got |-> got], expired, e), Discard
    PROVE  DeliverSteps(at, e, m)
<1>1. rcv' = rcv /\ got' = got
  BY DEF Discard
<1>2. IsReceived(rcv, e, m.chan, m.n)
  BY DEF IsReceived
<1>3. ReceiverMoves(at, e, e, m)
  BY <1>1, <1>2 DEF ReceiverMoves
<1>4. e \in [Channel -> Nat] /\ m.chan \in Channel
  BY DEF ReceiverNumbers, MessageAt
<1> QED
  BY <1>1, <1>3, <1>4, NothingOut

\* receiveReliableOrdered: the number a message has on the wire tells how far it is ahead.
LEMMA DeliverIs ==
    ASSUME SenderInvariant, Timely, NEW at, SenderAt(at), NEW e, ReceiverAt(at, e), NEW m \in net, Deliver(m)
    PROVE  DeliverSteps(at, e, m)
<1>1. /\ Starts(made, at) /\ MessageAt(made, at, sent, m)
      /\ ReceiverNumbers(rcv, sent, e) /\ WithheldAt(made, at, rcv, sent, e)
      /\ Delivered(made, at, [rcv |-> rcv, got |-> got], expired, e)
  BY DEF SenderAt, ReceiverAt, NetAt
<1>2. sent \in [Channel -> Nat]
  BY DEF SenderInvariant, Sending, NumbersOK
<1>3. PICK c, n, x, y, half : c = m.chan /\ n = m.n /\ x = e[m.chan] /\ y = sent[m.chan] /\ half = Modulus \div 2
  OBVIOUS
<1>4. /\ c \in Channel /\ n \in Nat /\ x \in Nat /\ y \in Nat /\ n < y /\ m.seq = n % Modulus
      /\ rcv.expected[c] = x % Modulus /\ x <= y /\ y - x <= ReceiveWindow + 1
  BY <1>1, <1>2, <1>3 DEF MessageAt, ReceiverNumbers
<1>5. y - n <= half
  BY <1>3 DEF Timely
<1>6. half \in Nat /\ ReceiveWindow \in Nat /\ ReceiveWindow < half
  BY <1>3, WindowAssumption
<1>7. n - x < half /\ x - n <= half /\ n - x <= ReceiveWindow
  BY <1>4, <1>5, <1>6
<1>8. PICK ahead : ahead = Relative(m.seq, rcv.expected[c])
  OBVIOUS
<1>9. ahead = n - x
  BY <1>3, <1>4, <1>7, <1>8, RelativeIs
<1>10. \/ ahead = 0 /\ Advance(m)
       \/ ahead \in 1..ReceiveWindow /\ Withhold(m)
       \/ ahead \notin 0..ReceiveWindow /\ Discard
  BY <1>3, <1>8 DEF Deliver
<1>11. CASE ahead = 0 /\ Advance(m)
  <2>1. m.n = e[m.chan]
    BY <1>3, <1>4, <1>9, <1>11
  <2> QED
    BY <1>1, <1>2, <1>11, <2>1, AdvanceSteps
<1>12. CASE ahead \in 1..ReceiveWindow /\ Withhold(m)
  <2>1. x < n /\ n <= x + ReceiveWindow
    BY <1>4, <1>6, <1>9, <1>12
  <2> QED
    BY <1>1, <1>3, <1>12, <2>1, WithholdSteps
<1>13. CASE ahead \notin 0..ReceiveWindow /\ Discard
  <2>1. n < x
    BY <1>4, <1>6, <1>7, <1>9, <1>13
  <2> QED
    BY <1>1, <1>3, <1>13, <2>1, DiscardSteps
<1> QED
  BY <1>10, <1>11, <1>12, <1>13

LEMMA DeliverKeeps ==
    ASSUME SenderInvariant, Timely, NEW at, SenderAt(at), NEW e, ReceiverAt(at, e), NEW m \in net, Deliver(m)
    PROVE  SenderAt(at)' /\ (rcv'.open => \E next : ReceiverAt(at, next)')
<1>1. /\ UNCHANGED <<conn, snd, made, sent, outcome, expired>>
      /\ net' \subseteq net /\ acks' = acks \cup {AckOf(m)}
  BY DEF Deliver
<1>2. SenderAt(at)'
  BY <1>1 DEF SenderAt, NetAt
<1>3. ASSUME rcv'.open PROVE \E next : ReceiverAt(at, next)'
  <2>1. PICK next : ReceiverMoves(at, e, next, m)
    BY <1>3, DeliverIs DEF DeliverSteps
  <2>2. /\ ReceiverNumbers(rcv', sent, next) /\ WithheldAt(made, at, rcv', sent, next)
        /\ Delivered(made, at, [rcv |-> rcv', got |-> got'], expired, next)
        /\ \A c \in Channel : \A n \in Nat : IsReceived(rcv, e, c, n) => IsReceived(rcv', next, c, n)
        /\ IsReceived(rcv', next, m.chan, m.n)
    BY <2>1 DEF ReceiverMoves
  <2>3. MessageAt(made, at, sent, m) /\ Starts(made, at)
    BY DEF SenderAt, NetAt
  <2>4. AcksReceived(acks', rcv', sent, next)
    <3>1. ASSUME NEW a \in acks'
          PROVE  /\ a.chan \in Channel /\ a.n \in Nat /\ a.n < sent[a.chan] /\ a.seq = a.n % Modulus
                 /\ IsReceived(rcv', next, a.chan, a.n)
      <4>1. CASE a \in acks
        BY <2>2, <4>1 DEF ReceiverAt, AcksReceived
      <4>2. CASE a = AckOf(m)
        <5>1. a.chan = m.chan /\ a.n = m.n /\ a.seq = m.seq
          BY <4>2 DEF AckOf
        <5> QED
          BY <2>2, <2>3, <5>1 DEF MessageAt
      <4> QED
        BY <1>1, <3>1, <4>1, <4>2
    <3> QED
      BY <3>1 DEF AcksReceived
  <2>5. ToldTrue(made, at, outcome, rcv', next)
    <3>1. ASSUME NEW id \in DOMAIN outcome, outcome[id] = "ok"
          PROVE  /\ id \in 1..Len(at)
                 /\ \A x \in 0..(made[id].chunks - 1) : IsReceived(rcv', next, made[id].chan, at[id] + x)
      <4>1. /\ id \in 1..Len(at)
            /\ \A x \in 0..(made[id].chunks - 1) : IsReceived(rcv, e, made[id].chan, at[id] + x)
        BY <3>1 DEF ReceiverAt, ToldTrue
      <4>2. at[id] \in Nat /\ made[id].chan \in Channel
        BY <2>3, <4>1, StartsAre
      <4>3. \A x \in 0..(made[id].chunks - 1) : at[id] + x \in Nat
        BY <4>2
      <4> QED
        BY <2>2, <4>1, <4>2, <4>3
    <3> QED
      BY <3>1 DEF ToldTrue
  <2>6. ~conn.closing => NoneForgotten(snd, rcv', sent, next)
    <3>1. ~conn.closing => NoneForgotten(snd, rcv, sent, e)
      BY DEF ReceiverAt
    <3> QED
      BY <2>2, <3>1 DEF NoneForgotten
  <2> QED
    BY <1>1, <2>2, <2>4, <2>5, <2>6 DEF ReceiverAt
<1> QED
  BY <1>2, <1>3

\* A group of fragments expires: the first chunks of its transfer are there and will be missed.
LEMMA ExpireIs ==
    ASSUME NEW hist, NEW at, NEW r, NEW s, NEW gone, NEW e, NEW id \in DOMAIN r.rcv.fragments,
           Starts(hist, at), e \in [Channel -> Nat], Delivered(hist, at, r, gone, e),
           DOMAIN s = {"rcv", "got"}, DOMAIN s.rcv = {"open", "expected", "withheld", "fragments"},
           s.got = r.got, s.rcv.fragments = Without(r.rcv.fragments, {id})
    PROVE  /\ Delivered(hist, at, s, gone \cup {id}, e)
           /\ id \in 1..Len(at) /\ id \notin Range(r.got[hist[id].chan])
<1>1. PICK new : new = gone \cup {id}
  OBVIOUS
<1>2. /\ DOMAIN s.rcv.fragments = DOMAIN r.rcv.fragments \ {id}
      /\ \A j \in DOMAIN r.rcv.fragments : j # id => s.rcv.fragments[j] = r.rcv.fragments[j]
  BY DEF Without
<1>3. Chunks(s.rcv, id) = {} /\ \A j : j # id => Chunks(s.rcv, j) = Chunks(r.rcv, j)
  BY <1>2 DEF Chunks
<1>4. /\ id \in 1..Len(at) /\ Chunks(r.rcv, id) # {} /\ gone \subseteq 1..Len(at)
      /\ CameOut(hist, at, r, gone, e[hist[id].chan], id)
  BY DEF Delivered, Chunks
<1>5. PICK c, chunks : c = hist[id].chan /\ chunks = hist[id].chunks
  OBVIOUS
<1>6. at[id] + chunks \in Nat /\ e[c] \in Nat
  <2>1. at[id] \in Nat /\ id \in 1..Len(hist)
    BY <1>4, StartsAre
  <2>2. chunks \in Nat /\ c \in Channel
    BY <1>5, <2>1, StartsAre
  <2> QED
    BY <2>1, <2>2
<1>7. /\ id \notin Range(r.got[c])
      /\ \E x \in 0..(chunks - 1) : at[id] + x < e[c]
  <2>1. at[id] + chunks > e[c] \/ at[id] + chunks <= e[c]
    BY <1>6
  <2>2. CASE id \in gone
    BY <1>4, <1>5, <2>2 DEF CameOut
  <2>3. CASE id \notin gone /\ at[id] + chunks > e[c]
    BY <1>4, <1>5, <2>3 DEF CameOut
  <2>4. CASE id \notin gone /\ at[id] + chunks <= e[c]
    BY <1>4, <1>5, <2>4 DEF CameOut
  <2> QED
    BY <2>1, <2>2, <2>3, <2>4
<1>8. CameOut(hist, at, s, new, e[c], id)
  <2>1. id \in new /\ id \notin Range(s.got[c])
    BY <1>1, <1>7
  <2> QED
    BY <1>3, <1>5, <1>7, <2>1 DEF CameOut
<1>9. \A j \in 1..Len(at) \ {id} : CameOut(hist, at, s, new, e[hist[j].chan], j)
  BY <1>1, <1>3 DEF Delivered, CameOut
<1>10. \A j \in 1..Len(at) : CameOut(hist, at, s, new, e[hist[j].chan], j)
  BY <1>5, <1>8, <1>9
<1>11. \A d \in Channel : OutInOrder(hist, at, s, d)
  BY DEF Delivered, OutInOrder
<1>12. new \subseteq 1..Len(at) /\ DOMAIN s.got = Channel /\ IsMapping(s.got) /\ DOMAIN s.rcv.fragments \subseteq 1..Len(at)
       /\ \A j \in DOMAIN s.rcv.fragments : s.rcv.fragments[j] # {}
  BY <1>1, <1>2, <1>4 DEF Delivered
<1>13. Delivered(hist, at, s, new, e)
  BY <1>10, <1>11, <1>12 DEF Delivered
<1> QED
  BY <1>1, <1>4, <1>5, <1>7, <1>13

LEMMA ExpireKeeps ==
    ASSUME NEW at, SenderAt(at), NEW e, ReceiverAt(at, e), NEW id \in DOMAIN rcv.fragments, ExpireFragments(id)
    PROVE  /\ SenderAt(at)' /\ ReceiverAt(at, e)'
           /\ id \in 1..Len(at) /\ id \notin Range(got[made[id].chan])
<1>1. PICK r, s : r = [rcv |-> rcv, got |-> got] /\ s = [rcv |-> rcv', got |-> got']
  OBVIOUS
<1>2. Delivered(made, at, r, expired, e) /\ Starts(made, at) /\ e \in [Channel -> Nat]
  BY <1>1 DEF ReceiverAt, SenderAt, ReceiverNumbers
<1>3. r.rcv = rcv /\ r.got = got /\ s.rcv = rcv' /\ s.got = got' /\ DOMAIN s = {"rcv", "got"}
  BY <1>1
<1>4. DOMAIN rcv = {"open", "expected", "withheld", "fragments"}
  BY <1>2, <1>3 DEF Delivered
<1>5. /\ DOMAIN rcv' = {"open", "expected", "withheld", "fragments"} /\ rcv'.expected = rcv.expected
      /\ rcv'.withheld = rcv.withheld /\ rcv'.fragments = Without(rcv.fragments, {id})
      /\ expired' = expired \cup {id}
      /\ UNCHANGED <<conn, snd, net, acks, made, sent, outcome, got>>
  BY <1>4 DEF ExpireFragments
<1>6. /\ Delivered(made, at, s, expired', e)
      /\ id \in 1..Len(at) /\ id \notin Range(got[made[id].chan])
  <2>1. id \in DOMAIN r.rcv.fragments
    BY <1>3
  <2>2. /\ s.got = r.got /\ s.rcv.fragments = Without(r.rcv.fragments, {id})
        /\ DOMAIN s.rcv = {"open", "expected", "withheld", "fragments"}
    BY <1>3, <1>5
  <2>3. /\ Delivered(made, at, s, expired \cup {id}, e)
        /\ id \in 1..Len(at) /\ id \notin Range(r.got[made[id].chan])
    BY <1>2, <1>3, <2>1, <2>2, ExpireIs
  <2> QED
    BY <1>3, <1>5, <2>3
<1>7. SenderAt(at)'
  BY <1>5 DEF SenderAt
<1>8. ReceiverNumbers(rcv', sent, e) /\ WithheldAt(made, at, rcv', sent, e)
  BY <1>5 DEF ReceiverAt, ReceiverNumbers, WithheldAt
<1>9. \A c, n : IsReceived(rcv, e, c, n) <=> IsReceived(rcv', e, c, n)
  BY <1>5 DEF IsReceived
<1>10. AcksReceived(acks, rcv', sent, e) /\ ToldTrue(made, at, outcome, rcv', e)
  BY <1>9 DEF ReceiverAt, AcksReceived, ToldTrue
<1>11. ~conn.closing => NoneForgotten(snd, rcv', sent, e)
  BY <1>9 DEF ReceiverAt, NoneForgotten
<1>12. ReceiverAt(at, e)'
  BY <1>1, <1>5, <1>6, <1>8, <1>10, <1>11 DEF ReceiverAt
<1> QED
  BY <1>6, <1>7, <1>12

-----------------------------------------------------------------------------
(* The invariant of the channel.                                           *)

LEMMA RefusedIs ==
    ASSUME NEW c, DOMAIN c = {"socket", "connected", "closing", "flushing", "closed", "attempts", "told"}
    PROVE  /\ DOMAIN Refused(c) = DOMAIN c /\ Refused(c).closing = c.closing
           /\ Refused(c).flushing = c.flushing /\ Refused(c).socket = c.socket
BY DEF Refused

LEMMA FailCloses ==
    ASSUME ConnOK, Fail
    PROVE  ConnOK' /\ conn'.closing /\ ~conn.closing
<1>1. PICK c : c = [conn EXCEPT !.closing = TRUE, !.socket = "shut"]
  OBVIOUS
<1>2. DOMAIN c = {"socket", "connected", "closing", "flushing", "closed", "attempts", "told"} /\ c.closing = TRUE
  BY <1>1 DEF ConnOK
<1>3. conn' = Refused(c) /\ ~conn.closing
  BY <1>1 DEF Fail
<1>4. DOMAIN conn' = DOMAIN c /\ conn'.closing = TRUE
  BY <1>2, <1>3, RefusedIs
<1> QED
  BY <1>2, <1>3, <1>4 DEF ConnOK

LEMMA CloseCloses ==
    ASSUME ConnOK, Close
    PROVE  ConnOK' /\ conn'.closing
<1>1. PICK socket, flushing, closed :
        /\ socket = IF conn.socket = "none" \/ conn.connected THEN conn.socket ELSE "shut"
        /\ flushing = conn.connected /\ closed = (conn.socket = "none")
  OBVIOUS
<1>2. PICK c : c = [conn EXCEPT !.closing = TRUE, !.flushing = flushing, !.closed = closed, !.socket = socket]
  OBVIOUS
<1>3. DOMAIN c = {"socket", "connected", "closing", "flushing", "closed", "attempts", "told"} /\ c.closing = TRUE
  BY <1>2 DEF ConnOK
<1>4. conn' = Refused(c)
  BY <1>1, <1>2 DEF Close
<1>5. DOMAIN conn' = DOMAIN c /\ conn'.closing = TRUE
  BY <1>3, <1>4, RefusedIs
<1> QED
  BY <1>3, <1>5 DEF ConnOK

\* A connection that has ended or is about to is closing, and remains so.
LEMMA ConnKeeps ==
    ASSUME ConnOK, [Next]_vars
    PROVE  ConnOK'
<1>1. ASSUME UNCHANGED conn PROVE ConnOK'
  BY <1>1 DEF ConnOK
<1>2. CASE UNCHANGED vars
  BY <1>1, <1>2 DEF vars
<1>3. CASE Connect
  <2>1. conn' = [conn EXCEPT !.socket = "open", !.told = "pending"] /\ ~conn.closing
    BY <1>3 DEF Connect
  <2>2. "open" # "shut"
    OBVIOUS
  <2> QED
    BY <2>1, <2>2 DEF ConnOK
<1>4. CASE SendConnect
  <2>1. conn' = [conn EXCEPT !.attempts = conn.attempts + 1]
    BY <1>4 DEF SendConnect
  <2> QED
    BY <2>1 DEF ConnOK
<1>5. CASE HandshakeTimeout \/ Disconnected \/ \E due : SendTimeout(due)
  <2>1. Fail
    BY <1>5 DEF HandshakeTimeout, Disconnected, SendTimeout
  <2> QED
    BY <2>1, FailCloses
<1>6. CASE ConnectResponse
  <2>1. conn' = [conn EXCEPT !.connected = TRUE, !.attempts = 0, !.told = "ok"]
    BY <1>6 DEF ConnectResponse
  <2> QED
    BY <2>1 DEF ConnOK
<1>7. CASE Close
  BY <1>7, CloseCloses
<1>8. CASE FlushEnds
  <2>1. conn' = [conn EXCEPT !.flushing = FALSE, !.socket = "shut"] /\ conn.flushing
    BY <1>8 DEF FlushEnds
  <2> QED
    BY <2>1 DEF ConnOK
<1>9. CASE FinishClosed
  <2>1. conn' = [conn EXCEPT !.closed = TRUE]
    BY <1>9 DEF FinishClosed
  <2> QED
    BY <2>1 DEF ConnOK
<1>10. CASE \E c \in Channel, count \in ChunkCounts : EnqueueTransfer(c, count)
  BY <1>1, <1>10 DEF EnqueueTransfer
<1>11. CASE \E a \in acks : ReceiveAck(a)
  BY <1>1, <1>11 DEF ReceiveAck
<1>12. CASE \E due : Resend(due)
  BY <1>1, <1>12 DEF Resend
<1>13. CASE \E m \in net : Deliver(m)
  BY <1>1, <1>13 DEF Deliver
<1>14. CASE \E id \in DOMAIN rcv.fragments : ExpireFragments(id)
  BY <1>1, <1>14 DEF ExpireFragments
<1>15. CASE Lose
  BY <1>1, <1>15 DEF Lose
<1>16. CASE Maintain
  BY <1>5, <1>12, <1>16 DEF Maintain
<1> QED
  BY <1>2, <1>3, <1>4, <1>5, <1>6, <1>7, <1>8, <1>9, <1>10, <1>11, <1>13, <1>14, <1>15, <1>16 DEF Next

\* The part of the invariant that is about the messages, in the next state.
MessagesKept == \E next : SenderAt(next)' /\ (rcv'.open => \E e : ReceiverAt(next, e)')

LEMMA MessagesKeep ==
    ASSUME ChannelInvariant, SenderInvariant', [Next]_vars
    PROVE  MessagesKept
<1>1. SenderInvariant /\ Timely /\ ConnOK
  BY DEF ChannelInvariant
<1>2. PICK at : SenderAt(at) /\ (rcv.open => \E e : ReceiverAt(at, e))
  BY DEF ChannelInvariant
<1>3. ASSUME NEW next, StepTo(at, next), rcv' = rcv PROVE MessagesKept
  <2>1. SenderAt(next)' /\ \A e : ReceiverAt(at, e) => ReceiverAt(next, e)'
    BY <1>3 DEF StepTo
  <2> QED
    BY <1>2, <1>3, <2>1 DEF MessagesKept
<1>4. ASSUME UNCHANGED <<rcv, got, expired, made, sent>>, acks' \in SUBSET acks, NetAt(made, at, net', sent),
             \/ UNCHANGED <<snd, outcome>> /\ (conn'.closing \/ ~conn.closing)
             \/ RejectReliable /\ conn'.closing
      PROVE  MessagesKept
  <2>1. StepTo(at, at)
    BY <1>1, <1>2, <1>4, QuietSteps
  <2> QED
    BY <1>3, <1>4, <2>1
<1>5. NetAt(made, at, net, sent) /\ acks \in SUBSET acks
  BY <1>2 DEF SenderAt
<1>6. ASSUME UNCHANGED <<snd, peerVars, net, acks, made, sent, outcome>>, conn'.closing \/ ~conn.closing
      PROVE  MessagesKept
  BY <1>4, <1>5, <1>6 DEF peerVars
<1>7. CASE UNCHANGED vars
  <2>1. conn'.closing \/ ~conn.closing
    BY <1>7 DEF vars
  <2> QED
    BY <1>6, <1>7, <2>1 DEF vars
<1>8. CASE Connect
  BY <1>6, <1>8 DEF Connect
<1>9. CASE SendConnect
  BY <1>6, <1>9 DEF SendConnect, Connecting
<1>10. CASE HandshakeTimeout \/ Disconnected
  <2>1. Fail /\ UNCHANGED <<peerVars, net, acks, made, sent>>
    BY <1>10 DEF HandshakeTimeout, Disconnected
  <2>2. RejectReliable /\ conn'.closing
    BY <1>1, <2>1, FailCloses DEF Fail
  <2> QED
    BY <1>4, <1>5, <2>1, <2>2 DEF peerVars
<1>11. CASE ConnectResponse
  BY <1>6, <1>11 DEF ConnectResponse, Connecting
<1>12. CASE Close
  BY <1>1, <1>6, <1>12, CloseCloses DEF Close
<1>13. CASE FlushEnds
  <2>1. conn.closing /\ conn' = [conn EXCEPT !.flushing = FALSE, !.socket = "shut"]
    BY <1>1, <1>13 DEF FlushEnds, ConnOK
  <2>2. conn'.closing
    BY <1>1, <2>1 DEF ConnOK
  <2> QED
    BY <1>6, <1>13, <2>2 DEF FlushEnds
<1>14. CASE FinishClosed
  <2>1. conn.closing /\ conn' = [conn EXCEPT !.closed = TRUE]
    BY <1>1, <1>14 DEF FinishClosed, ConnOK
  <2>2. conn'.closing
    BY <1>1, <2>1 DEF ConnOK
  <2> QED
    BY <1>4, <1>5, <1>14, <2>2 DEF FinishClosed, peerVars
<1>15. CASE \E c \in Channel, count \in ChunkCounts : EnqueueTransfer(c, count)
  <2>1. PICK c \in Channel, count \in ChunkCounts : EnqueueTransfer(c, count)
    BY <1>15
  <2>2. Grown(snd, sent, snd', sent') /\ \E next : SenderStep(at, next)
    BY <1>1, <1>2, <2>1, EnqueueAt
  <2>3. PICK next : SenderStep(at, next)
    BY <2>2
  <2>4. ~conn.closing /\ UNCHANGED <<rcv, got, expired, acks, outcome>>
    BY <2>1 DEF EnqueueTransfer, Live, peerVars
  <2>5. StepTo(at, next)
    BY <1>1, <1>2, <2>2, <2>3, <2>4, GrownSteps
  <2> QED
    BY <1>3, <2>4, <2>5
<1>16. CASE \E a \in acks : ReceiveAck(a)
  <2>1. PICK a \in acks : ReceiveAck(a)
    BY <1>16
  <2>2. PICK next : StepTo(at, next)
    BY <1>1, <1>2, <2>1, ReceiveAckSteps
  <2>3. rcv' = rcv
    BY <2>1 DEF ReceiveAck, peerVars
  <2> QED
    BY <1>3, <2>2, <2>3
<1>17. ASSUME NEW due \in (SUBSET DOMAIN snd.pending) \ {{}}, Resend(due) PROVE MessagesKept
  <2>1. Grown(snd, sent, snd', sent') /\ \E next : SenderStep(at, next)
    BY <1>1, <1>2, <1>17, ResendAt
  <2>2. PICK next : SenderStep(at, next)
    BY <2>1
  <2>3. ~conn.closing /\ UNCHANGED <<rcv, got, expired, acks, outcome>>
    BY <1>17 DEF Resend, Live, peerVars
  <2>4. StepTo(at, next)
    BY <1>1, <1>2, <2>1, <2>2, <2>3, GrownSteps
  <2> QED
    BY <1>3, <2>3, <2>4
<1>18. ASSUME NEW due \in (SUBSET DOMAIN snd.pending) \ {{}}, SendTimeout(due) PROVE MessagesKept
  <2>1. Fail /\ UNCHANGED <<peerVars, acks, made, sent>>
    BY <1>18 DEF SendTimeout
  <2>2. RejectReliable /\ conn'.closing
    BY <1>1, <2>1, FailCloses DEF Fail
  <2>3. PICK resent \in SUBSET (due \ Spent(due)) : net' = net \cup MessagesOf(resent)
    BY <1>18 DEF SendTimeout
  <2>4. NetAt(made, at, net', sent)
    <3>1. resent \subseteq DOMAIN snd.pending
      BY <1>18, <2>3
    <3>2. \A m \in MessagesOf(resent) : MessageAt(made, at, sent, m)
      BY <1>2, <3>1 DEF SenderAt, PendingAt, MessagesOf
    <3> QED
      BY <1>5, <2>3, <3>2 DEF NetAt
  <2> QED
    BY <1>4, <1>5, <2>1, <2>2, <2>4 DEF peerVars
<1>19. CASE Maintain
  BY <1>17, <1>18, <1>19 DEF Maintain
<1>20. CASE \E m \in net : Deliver(m)
  <2>1. PICK m \in net : Deliver(m)
    BY <1>20
  <2>2. PICK e : ReceiverAt(at, e)
    BY <1>2, <2>1 DEF Deliver
  <2> QED
    BY <1>1, <1>2, <2>1, <2>2, DeliverKeeps DEF MessagesKept
<1>21. CASE \E id \in DOMAIN rcv.fragments : ExpireFragments(id)
  <2>1. PICK id \in DOMAIN rcv.fragments : ExpireFragments(id)
    BY <1>21
  <2>2. PICK e : ReceiverAt(at, e)
    BY <1>2, <2>1 DEF ExpireFragments
  <2> QED
    BY <1>2, <2>1, <2>2, ExpireKeeps DEF MessagesKept
<1>22. CASE Lose
  <2>1. net' \subseteq net /\ acks' \subseteq acks
    BY <1>22 DEF Lose
  <2>2. NetAt(made, at, net', sent)
    BY <1>5, <2>1 DEF NetAt
  <2>3. UNCHANGED <<conn, snd, peerVars, made, sent, outcome>>
    BY <1>22 DEF Lose
  <2>4. conn'.closing \/ ~conn.closing
    BY <2>3
  <2> QED
    BY <1>4, <2>1, <2>2, <2>3, <2>4 DEF peerVars
<1> QED
  BY <1>7, <1>8, <1>9, <1>10, <1>11, <1>12, <1>13, <1>14, <1>15, <1>16, <1>19, <1>20, <1>21, <1>22 DEF Next

LEMMA ChannelInvariantKeeps ==
    ASSUME ChannelInvariant, [Next /\ Timely']_vars
    PROVE  ChannelInvariant'
<1>1. SenderInvariant'
  BY SenderInvariantKeeps DEF ChannelInvariant
<1>2. Timely'
  <2>1. CASE UNCHANGED vars
    <3>1. Timely
      BY DEF ChannelInvariant
    <3> QED
      BY <2>1, <3>1 DEF Timely, vars
  <2> QED
    BY <2>1
<1>3. ConnOK'
  BY ConnKeeps DEF ChannelInvariant
<1>4. MessagesKept
  BY <1>1, MessagesKeep
<1> QED
  BY <1>1, <1>2, <1>3, <1>4 DEF ChannelInvariant, MessagesKept

LEMMA ChannelInvariantInit ==
    ASSUME Init
    PROVE  ChannelInvariant
<1>1. PICK s, r, at, e, both :
        s = snd /\ r = rcv /\ at = <<>> /\ e = [c \in Channel |-> 0] /\ both = [rcv |-> rcv, got |-> got]
  OBVIOUS
<1>2. /\ s.transfers = Empty /\ s.queue = <<>> /\ s.pending = Empty
      /\ DOMAIN r = {"open", "expected", "withheld", "fragments"}
      /\ r.expected = [c \in Channel |-> 0] /\ r.withheld = Empty /\ r.fragments = Empty
      /\ net = {} /\ acks = {} /\ made = <<>> /\ sent = [c \in Channel |-> 0] /\ outcome = Empty
      /\ got = [c \in Channel |-> <<>>] /\ expired = {}
  BY <1>1 DEF Init
<1>3. DOMAIN Empty = {}
  BY DEF Empty
<1>4. SenderInvariant
  BY SenderInvariantInit
<1>5. Timely
  BY <1>1, <1>2, <1>3 DEF Timely
<1>6. ConnOK
  <2>1. conn = [socket |-> "none", connected |-> FALSE, closing |-> FALSE, flushing |-> FALSE,
                closed |-> FALSE, attempts |-> 0, told |-> "none"]
    BY DEF Init
  <2>2. "none" # "shut"
    OBVIOUS
  <2> QED
    BY <2>1, <2>2 DEF ConnOK
<1>7. Len(at) = 0 /\ at \in Seq(Nat) /\ \A i \in 1..Len(at) : FALSE
  <2>1. Len(at) = 0 /\ at \in Seq(Nat)
    BY <1>1, EmptySeq
  <2> QED
    BY <2>1
<1>8. Starts(made, at)
  <2>1. made \in Seq([chan : Channel, chunks : ChunkCounts]) /\ Len(made) = 0
    BY <1>2, EmptySeq
  <2> QED
    BY <1>7, <2>1 DEF Starts
<1>9. OfMade(made, s) /\ PendingAt(made, at, s, sent) /\ NetAt(made, at, net, sent)
  BY <1>2, <1>3 DEF OfMade, PendingAt, NetAt
<1>10. InTurn(made, at, s, sent)
  <2>1. Len(made) = 0 /\ Len(s.queue) = 0 /\ Len(at) = 0
    BY <1>2, <1>7, EmptySeq
  <2>2. InTurnFrom(made, at, s, sent, 0)
    <3>1. \A i \in 1..Len(s.queue) : FALSE
      BY <2>1
    <3>2. \A i \in 1..0 : FALSE
      OBVIOUS
    <3>3. Len(made) = 0 + Len(s.queue) /\ 0 <= Len(at)
      BY <2>1
    <3> QED
      BY <1>2, <2>1, <3>1, <3>2, <3>3 DEF InTurnFrom
  <2> QED
    BY <2>2 DEF InTurn
<1>11. SenderAt(at)
  BY <1>1, <1>8, <1>9, <1>10 DEF SenderAt
<1>12. ReceiverNumbers(r, sent, e)
  <2>1. 0 % Modulus = 0 /\ ReceiveWindow \in Nat
    BY ConstantsAre
  <2>2. e \in [Channel -> Nat] /\ r.expected \in [Channel -> Nat]
    BY <1>1, <1>2
  <2>3. \A c \in Channel : r.expected[c] = 0 /\ e[c] = 0 /\ sent[c] = 0
    BY <1>1, <1>2
  <2>4. 0 <= 0 /\ 0 - 0 <= ReceiveWindow + 1
    BY <2>1
  <2> QED
    BY <2>1, <2>2, <2>3, <2>4 DEF ReceiverNumbers
<1>13. WithheldAt(made, at, r, sent, e) /\ AcksReceived(acks, r, sent, e) /\ ToldTrue(made, at, outcome, r, e)
  BY <1>2, <1>3 DEF WithheldAt, AcksReceived, ToldTrue
<1>14. NoneForgotten(s, r, sent, e)
  <2>1. \A c \in Channel : \A n \in Nat : ~(n < sent[c])
    BY <1>2
  <2> QED
    BY <2>1 DEF NoneForgotten
<1>15. Delivered(made, at, both, expired, e)
  <2>1. DOMAIN both = {"rcv", "got"} /\ both.rcv = r /\ both.got = [c \in Channel |-> <<>>]
    BY <1>1, <1>2
  <2>2. IsMapping(both.got)
    BY <2>1 DEF IsMapping
  <2>3. ASSUME NEW c \in Channel PROVE OutInOrder(made, at, both, c)
    <3>1. both.got[c] = <<>>
      BY <2>1
    <3>2. both.got[c] \in Seq(1..Len(at)) /\ Len(both.got[c]) = 0
      BY <3>1, EmptySeq
    <3>3. \A i \in 1..Len(both.got[c]) : FALSE
      BY <3>2
    <3> QED
      BY <3>2, <3>3 DEF OutInOrder
  <2> QED
    BY <1>2, <1>3, <1>7, <2>1, <2>2, <2>3 DEF Delivered
<1>16. ReceiverAt(at, e)
  BY <1>1, <1>12, <1>13, <1>14, <1>15 DEF ReceiverAt
<1> QED
  BY <1>4, <1>5, <1>6, <1>11, <1>16 DEF ChannelInvariant

\* release and the acknowledgements: a caller who was told that its payload was sent can
\* rely on it, since every acknowledged chunk was released, waits to be, or is with those of
\* its payload, for any windows, limits, transfers and channels.
THEOREM AckedWhenTimely == TimelySpec => []AckedIsReceived
<1>1. Init => ChannelInvariant
  BY ChannelInvariantInit
<1>2. ChannelInvariant /\ [Next /\ Timely']_vars => ChannelInvariant'
  BY ChannelInvariantKeeps
<1>3. ASSUME ChannelInvariant PROVE AckedIsReceived
  <2> SUFFICES ASSUME NEW id \in DOMAIN outcome, outcome[id] = "ok", rcv.open,
                      id \notin expired \cup Range(got[made[id].chan])
               PROVE  Chunks(rcv, id)
                        \cup {rcv.withheld[k].chunk :
                                k \in {h \in DOMAIN rcv.withheld : rcv.withheld[h].id = id}}
                      = 0..(made[id].chunks - 1)
    BY DEF AckedIsReceived
  <2>1. PICK at : SenderAt(at) /\ (rcv.open => \E e : ReceiverAt(at, e))
    BY <1>3 DEF ChannelInvariant
  <2>2. PICK e : ReceiverAt(at, e)
    BY <2>1
  <2>3. PICK c, chunks, w, all :
          /\ c = made[id].chan /\ chunks = made[id].chunks /\ w = rcv.withheld
          /\ all = {rcv.withheld[k].chunk : k \in {h \in DOMAIN rcv.withheld : rcv.withheld[h].id = id}}
    OBVIOUS
  <2>4. Starts(made, at) /\ e \in [Channel -> Nat]
    BY <2>1, <2>2 DEF SenderAt, ReceiverAt, ReceiverNumbers
  <2>5. id \in 1..Len(at) /\ \A x \in 0..(chunks - 1) : IsReceived(rcv, e, c, at[id] + x)
    BY <2>2, <2>3 DEF ReceiverAt, ToldTrue
  <2>6. at[id] \in Nat /\ chunks \in Nat /\ c \in Channel /\ e[c] \in Nat
    <3>1. at[id] \in Nat /\ id \in 1..Len(made)
      BY <2>4, <2>5, StartsAre
    <3>2. chunks \in Nat /\ c \in Channel
      BY <2>3, <2>4, <3>1, StartsAre
    <3> QED
      BY <2>4, <3>1, <3>2
  <2>7. Chunks(rcv, id) = {x \in 0..(chunks - 1) : at[id] + x < e[c]}
    <3>1. PICK r : r = [rcv |-> rcv, got |-> got]
      OBVIOUS
    <3>2. Delivered(made, at, r, expired, e) /\ r.rcv = rcv /\ r.got = got
      BY <2>2, <3>1 DEF ReceiverAt
    <3>3. CameOut(made, at, r, expired, e[c], id)
      BY <2>3, <2>5, <3>2 DEF Delivered
    <3>4. id \notin expired /\ id \notin Range(r.got[c])
      BY <2>3, <3>2
    <3>5. at[id] + chunks > e[c] \/ at[id] + chunks <= e[c]
      BY <2>6
    <3> QED
      BY <2>3, <3>2, <3>3, <3>4, <3>5 DEF CameOut
  <2>8. \A k \in DOMAIN w : MessageAt(made, at, sent, w[k])
    BY <2>2, <2>3 DEF ReceiverAt, WithheldAt
  <2>9. ASSUME NEW x \in all PROVE x \in 0..(chunks - 1)
    <3>1. PICK k \in DOMAIN w : w[k].id = id /\ x = w[k].chunk
      BY <2>3
    <3> QED
      BY <2>3, <2>8, <3>1 DEF MessageAt
  <2>10. ASSUME NEW x \in 0..(chunks - 1), ~(at[id] + x < e[c]) PROVE x \in all
    <3>1. PICK k \in DOMAIN w : w[k].chan = c /\ w[k].n = at[id] + x
      BY <2>3, <2>5, <2>10 DEF IsReceived
    <3>2. PICK m : m = w[k]
      OBVIOUS
    <3>3. /\ m.id \in 1..Len(at) /\ made[m.id].chan = c /\ m.chunk \in 0..(made[m.id].chunks - 1)
          /\ at[id] + x = at[m.id] + m.chunk
      BY <2>8, <3>1, <3>2 DEF MessageAt
    <3>4. id = m.id /\ x = m.chunk
      BY <2>3, <2>4, <2>5, <3>3, SameChunk
    <3> QED
      BY <2>3, <3>1, <3>2, <3>4
  <2>11. Chunks(rcv, id) \cup all = 0..(chunks - 1)
    BY <2>7, <2>9, <2>10
  <2> QED
    BY <2>3, <2>11
<1> QED
  BY <1>1, <1>2, <1>3, PTL DEF TimelySpec

-----------------------------------------------------------------------------
(* The channel keeps the promise of OrderedChannel.tla.                    *)

\* What came out on channel c is nothing, or the first of what waited.
LEMMA ReleasedInTurn ==
    ASSUME NEW at, NEW e, NEW next, NEW c \in Channel, Starts(made, at),
           e \in [Channel -> Nat], next \in [Channel -> Nat],
           GotUpTo(made, at, got, expired, e), GotUpTo(made, at, got', expired, next),
           GotGrows(got, got', c), UNCHANGED <<made, expired>>
    PROVE  [A!Next]_<<made, got, expired>>
<1>1. PICK g, h, q, p, old, new, out :
        /\ g = got /\ h = got' /\ q = got[c] /\ p = got'[c] /\ old = 1..Len(got[c])
        /\ new = DOMAIN got'[c] \ (1..Len(got[c]))
        /\ out = {got'[c][i] : i \in DOMAIN got'[c] \ (1..Len(got[c]))}
  OBVIOUS
<1>2. /\ q \in Seq(1..Len(at)) /\ p \in Seq(1..Len(at))
      /\ \A i \in 1..Len(p) : made[p[i]].chan = c
      /\ \A i, j \in 1..Len(p) : i < j => p[i] < p[j]
  BY <1>1 DEF GotUpTo
<1>3. /\ DOMAIN h = Channel /\ DOMAIN g = Channel /\ IsMapping(h) /\ IsMapping(g)
      /\ \A d \in Channel \ {c} : h[d] = g[d]
      /\ Len(q) <= Len(p) /\ \A i \in 1..Len(q) : p[i] = q[i]
  BY <1>1 DEF GotUpTo, GotGrows
<1>4. Len(q) \in Nat /\ Len(p) \in Nat /\ DOMAIN q = 1..Len(q) /\ DOMAIN p = 1..Len(p)
  BY <1>2
<1>5. \A i \in old : i \in DOMAIN p /\ p[i] = q[i] /\ i \in 1..Len(p)
  BY <1>1, <1>3, <1>4
<1>6. h = [g EXCEPT ![c] = p]
  BY <1>1, <1>3 DEF IsMapping
<1>7. CASE new = {}
  <2>1. Len(p) = Len(q)
    <3>1. PICK a, b : a = Len(q) /\ b = Len(p)
      OBVIOUS
    <3>2. a \in Nat /\ b \in Nat /\ a <= b
      BY <1>3, <1>4, <3>1
    <3>3. ~(a < b)
      <4>1. ASSUME a < b PROVE FALSE
        <5>1. b \in DOMAIN p /\ b \notin 1..Len(q)
          BY <1>4, <3>1, <3>2, <4>1
        <5> QED
          BY <1>1, <1>7, <5>1
      <4> QED
        BY <4>1
    <3> QED
      BY <3>1, <3>2, <3>3
  <2>2. p = q
    <3>1. \A i \in 1..Len(q) : p[i] = q[i]
      BY <1>3
    <3> QED
      BY <1>2, <2>1, <3>1, SeqEqual
  <2>3. \A d \in Channel : h[d] = g[d]
    BY <1>1, <1>3, <2>2
  <2>4. h = g
    BY <1>3, <2>3 DEF IsMapping
  <2> QED
    BY <1>1, <2>4
<1>8. CASE new # {}
  <2>1. \A i \in new : i \in 1..Len(p) /\ i > Len(q) /\ i \in Nat
    BY <1>1, <1>4
  <2>2. \A i, j \in new : i < j => p[i] < p[j]
    BY <1>2, <2>1
  \* Those that came out waited.
  <2>3. ASSUME NEW i \in new
        PROVE  /\ p[i] \in 1..Len(at) /\ made[p[i]].chan = c /\ p[i] \in Range(p)
               /\ p[i] \in A!Waiting(c)
    <3>1. PICK id : id = p[i]
      OBVIOUS
    <3>2. i \in 1..Len(p) /\ i \in DOMAIN p /\ i > Len(q) /\ i \in Nat
      BY <1>4, <2>1
    <3>3. id \in 1..Len(at) /\ made[id].chan = c /\ id \in Range(p)
      BY <1>2, <3>1, <3>2, ElementOfSeq DEF Range
    <3>4. id \notin expired
      BY <1>1, <3>3 DEF GotUpTo
    <3>5. id \notin Range(q)
      <4>1. ASSUME id \in Range(q) PROVE FALSE
        <5>1. PICK j \in 1..Len(q) : id = q[j]
          BY <1>4, <4>1 DEF Range
        <5>2. j \in 1..Len(p) /\ p[j] = id /\ j < i
          BY <1>3, <1>4, <3>2, <5>1
        <5>3. p[j] < p[i]
          BY <1>2, <3>2, <5>2
        <5> QED
          BY <3>1, <3>3, <5>2, <5>3
      <4> QED
        BY <4>1
    <3>6. id \in DOMAIN made
      <4>1. id \in 1..Len(made) /\ DOMAIN made = 1..Len(made)
        BY <3>3, StartsAre DEF Starts
      <4> QED
        BY <4>1
    <3> QED
      BY <1>1, <3>1, <3>3, <3>4, <3>5, <3>6 DEF A!Waiting, A!Range, Range
  <2>4. out \subseteq A!Waiting(c)
    BY <1>1, <2>3
  \* Those that still wait are later.
  <2>5. ASSUME NEW id \in A!Waiting(c) \ out, NEW later \in out PROVE later < id
    <3>1. PICK i \in new : later = p[i]
      BY <1>1
    <3>2. later \in 1..Len(at) /\ made[later].chan = c /\ later \in Range(p)
      BY <2>3, <3>1
    <3>3. id \in DOMAIN made /\ made[id].chan = c /\ id \notin expired /\ id \notin Range(q)
      BY <1>1 DEF A!Waiting, A!Range, Range
    <3>4. id \in Nat /\ id # 0 /\ later \in Nat /\ Len(at) \in Nat
      <4>1. DOMAIN made = 1..Len(made) /\ Len(made) \in Nat /\ Len(at) \in Nat
        BY DEF Starts
      <4> QED
        BY <3>2, <3>3, <4>1
    <3>5. CASE id > Len(at)
      BY <3>2, <3>4, <3>5
    <3>6. CASE id \in 1..Len(at)
      <4>1. id \notin Range(p)
        <5>1. ASSUME id \in Range(p) PROVE FALSE
          <6>1. PICK j \in 1..Len(p) : id = p[j]
            BY <1>4, <5>1 DEF Range
          <6>2. CASE j \in 1..Len(q)
            <7>1. id = q[j] /\ j \in DOMAIN q
              BY <1>3, <1>4, <6>1, <6>2
            <7> QED
              BY <3>3, <7>1 DEF Range
          <6>3. CASE j \notin 1..Len(q)
            <7>1. id \in out
              BY <1>1, <1>4, <6>1, <6>3
            <7> QED
              BY <7>1
          <6> QED
            BY <6>2, <6>3
        <5> QED
          BY <5>1
      <4>2. ~(at[id] + made[id].chunks <= next[c])
        BY <1>1, <3>3, <3>6, <4>1 DEF GotUpTo
      <4>3. at[later] + made[later].chunks <= next[c]
        BY <1>1, <3>2 DEF GotUpTo
      <4>4. /\ at[id] \in Nat /\ at[later] \in Nat
            /\ made[id].chunks \in Nat /\ made[later].chunks \in Nat
        <5>1. at[id] \in Nat /\ at[later] \in Nat /\ id \in 1..Len(made) /\ later \in 1..Len(made)
          BY <3>2, <3>6, StartsAre
        <5> QED
          BY <5>1, StartsAre
      <4>5. ASSUME id < later PROVE FALSE
        <5>1. at[id] + made[id].chunks <= at[later]
          BY <3>2, <3>3, <3>6, <4>5 DEF Starts
        <5>2. next[c] \in Nat
          OBVIOUS
        <5> QED
          BY <4>2, <4>3, <4>4, <5>1, <5>2
      <4>6. id # later
        BY <3>2, <4>1
      <4> QED
        BY <3>4, <4>5, <4>6
    <3> QED
      BY <3>4, <3>5, <3>6
  <2>6. A!Release(c)
    BY <1>1, <1>5, <1>6, <1>8, <2>2, <2>4, <2>5 DEF A!Release
  <2> QED
    BY <2>6 DEF A!Next
<1> QED
  BY <1>7, <1>8

\* Every step of the channel is one that the promise allows.
LEMMA OrderedSteps ==
    ASSUME ChannelInvariant, [Next]_vars
    PROVE  [A!Next]_<<made, got, expired>>
<1>1. SenderInvariant /\ Timely
  BY DEF ChannelInvariant
<1>2. PICK at : SenderAt(at) /\ (rcv.open => \E e : ReceiverAt(at, e))
  BY DEF ChannelInvariant
<1>3. ASSUME UNCHANGED <<made, peerVars>> PROVE [A!Next]_<<made, got, expired>>
  BY <1>3 DEF peerVars
<1>4. CASE UNCHANGED vars
  BY <1>3, <1>4 DEF vars
<1>5. CASE \/ Connect \/ SendConnect \/ HandshakeTimeout \/ ConnectResponse \/ Disconnected \/ Close
           \/ FlushEnds \/ FinishClosed \/ Lose
  BY <1>3, <1>5 DEF Connect, SendConnect, HandshakeTimeout, ConnectResponse, Disconnected, Close,
       FlushEnds, FinishClosed, Lose
<1>6. CASE Maintain
  BY <1>3, <1>6 DEF Maintain, Resend, SendTimeout
<1>7. CASE \E a \in acks : ReceiveAck(a)
  BY <1>3, <1>7 DEF ReceiveAck
<1>8. CASE \E c \in Channel, count \in ChunkCounts : EnqueueTransfer(c, count)
  <2>1. PICK new, longer : longer = made' /\ longer = Append(made, new)
    BY <1>8 DEF EnqueueTransfer
  <2>2. UNCHANGED <<got, expired>>
    BY <1>8 DEF EnqueueTransfer, peerVars
  <2>3. made \in Seq([chan : Channel, chunks : ChunkCounts])
    BY <1>1 DEF SenderInvariant
  <2>4. PICK n : n = Len(made)
    OBVIOUS
  <2>5. /\ n \in Nat /\ Len(longer) = n + 1 /\ \A i \in 1..n : longer[i] = made[i]
    BY <2>1, <2>3, <2>4
  <2>6. SubSeq(made, 1, n) = SubSeq(longer, 1, n)
    <3>1. /\ SubSeq(made, 1, n) = [i \in 1..n |-> made[i]]
          /\ SubSeq(longer, 1, n) = [i \in 1..n |-> longer[i]]
      BY <2>3, <2>4, <2>5
    <3> QED
      BY <2>5, <3>1
  <2>7. A!Make
    BY <2>1, <2>2, <2>4, <2>5, <2>6 DEF A!Make, A!IsPrefix, IsPrefix
  <2> QED
    BY <2>7 DEF A!Next
<1>9. CASE \E m \in net : Deliver(m)
  <2>1. PICK m \in net : Deliver(m)
    BY <1>9
  <2>2. PICK e : ReceiverAt(at, e)
    BY <1>2, <2>1 DEF Deliver
  <2>3. DeliverSteps(at, e, m)
    BY <1>1, <1>2, <2>1, <2>2, DeliverIs
  <2>4. PICK next \in [Channel -> Nat] : GotUpTo(made, at, got', expired, next)
    BY <2>3 DEF DeliverSteps
  <2>5. GotGrows(got, got', m.chan)
    BY <2>3 DEF DeliverSteps
  <2>6. Starts(made, at) /\ m.chan \in Channel /\ e \in [Channel -> Nat]
    BY <1>2, <2>2 DEF SenderAt, NetAt, MessageAt, ReceiverAt, ReceiverNumbers
  <2>7. GotUpTo(made, at, got, expired, e)
    <3>1. PICK r : r = [rcv |-> rcv, got |-> got]
      OBVIOUS
    <3>2. Delivered(made, at, r, expired, e) /\ r.got = got
      BY <2>2, <3>1 DEF ReceiverAt
    <3> QED
      BY <2>6, <3>2, DeliveredOut
  <2>8. UNCHANGED <<made, expired>>
    BY <2>1 DEF Deliver
  <2>9. PICK c \in Channel : c = m.chan
    BY <2>6
  <2> QED
    BY <2>4, <2>5, <2>6, <2>7, <2>8, <2>9, ReleasedInTurn
<1>10. CASE \E id \in DOMAIN rcv.fragments : ExpireFragments(id)
  <2>1. PICK id \in DOMAIN rcv.fragments : ExpireFragments(id)
    BY <1>10
  <2>2. PICK e : ReceiverAt(at, e)
    BY <1>2, <2>1 DEF ExpireFragments
  <2>3. id \in 1..Len(at) /\ id \notin Range(got[made[id].chan])
    BY <1>2, <2>1, <2>2, ExpireKeeps
  <2>4. UNCHANGED <<made, got>> /\ expired' = expired \cup {id}
    BY <2>1 DEF ExpireFragments
  <2>5. CASE id \in expired
    <3>1. expired' = expired
      BY <2>4, <2>5
    <3> QED
      BY <2>4, <3>1
  <2>6. CASE id \notin expired
    <3>1. PICK c : c = made[id].chan
      OBVIOUS
    <3>2. id \in 1..Len(made) /\ DOMAIN made = 1..Len(made) /\ c \in Channel
      <4>1. Starts(made, at)
        BY <1>2 DEF SenderAt
      <4>2. id \in 1..Len(made)
        BY <2>3, <4>1, StartsAre
      <4>3. made[id].chan \in Channel
        BY <4>1, <4>2, StartsAre
      <4>4. DOMAIN made = 1..Len(made)
        BY <4>1 DEF Starts
      <4> QED
        BY <3>1, <4>2, <4>3, <4>4
    <3>3. id \in A!Waiting(c)
      BY <2>3, <2>6, <3>1, <3>2 DEF A!Waiting, A!Range, Range
    <3>4. A!GiveUp
      BY <2>4, <3>2, <3>3 DEF A!GiveUp
    <3> QED
      BY <3>4 DEF A!Next
  <2> QED
    BY <2>5, <2>6
<1> QED
  BY <1>4, <1>5, <1>6, <1>7, <1>8, <1>9, <1>10 DEF Next

\* sendReliableOrdered and receiveReliableOrdered: payloads come out in the order in which
\* they were handed over, each once, none missing but those that the receiver gave up,
\* whatever is lost, repeated and reordered, and for any windows, limits and channels.
THEOREM OrderedWhenTimely == TimelySpec => Ordered
<1>1. Init => ChannelInvariant
  BY ChannelInvariantInit
<1>2. ChannelInvariant /\ [Next /\ Timely']_vars => ChannelInvariant'
  BY ChannelInvariantKeeps
<1>3. Init => A!Init
  BY DEF Init, A!Init
<1>4. ChannelInvariant /\ [Next /\ Timely']_vars => [A!Next]_<<made, got, expired>>
  BY OrderedSteps
<1> QED
  BY <1>1, <1>2, <1>3, <1>4, PTL DEF TimelySpec, Ordered, A!Spec
=============================================================================
