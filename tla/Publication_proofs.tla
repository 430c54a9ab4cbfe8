-------------------------- MODULE Publication_proofs --------------------------
(***************************************************************************)
(* What Publication.tla promises for any players, tasks, times, capacity,  *)
(* levels and publications.                                                *)
(***************************************************************************)
EXTENDS Publication, TLAPS, SequenceTheorems, WellFoundedInduction

-----------------------------------------------------------------------------
(* The elements of a sequence that are in a set.                           *)

\* Each set of natural numbers has a least one.
LEMMA LeastNat ==
    ASSUME NEW T, T \subseteq Nat, T # {}
    PROVE  \E n \in T : \A m \in T : n <= m
<1>1. PICK R : R = {ss \in Nat \X Nat : ss[1] < ss[2]}
  OBVIOUS
<1>2. IsWellFoundedOn(R, Nat)
  BY <1>1, NatLessThanWellFounded, Zenon DEF OpToRel
<1>3. \E n \in T : \A m \in T : ~(<<m, n>> \in R)
  BY <1>2, WFMin, Zenon
<1>4. \A m, n \in Nat : m < n => <<m, n>> \in R
  BY <1>1
<1>5. PICK n \in T : \A m \in T : ~(<<m, n>> \in R)
  BY <1>3
<1>6. ASSUME NEW m \in T PROVE n <= m
  <2>1. m \in Nat /\ n \in Nat
    OBVIOUS
  <2>2. ~(m < n)
    BY <1>4, <1>5, <2>1
  <2> QED
    BY <2>1, <2>2
<1> QED
  BY <1>6

\* One more element.
More(r, x, set) == IF x \in set THEN Append(r, x) ELSE r

\* f has, for each i up to n, what is chosen of the first i elements.
IsUpTo(f, n, seq, set) ==
    f = [i \in 0..n |-> IF i = 0 THEN <<>> ELSE More(f[i - 1], seq[i], set)]

\* There is such a function.
LEMMA UpToExists ==
    ASSUME NEW seq, NEW set, NEW size \in Nat
    PROVE  \E f : IsUpTo(f, size, seq, set)
<1>1. PICK T : T = {n \in Nat : ~ \E f : IsUpTo(f, n, seq, set)}
  OBVIOUS
<1> SUFFICES ASSUME T # {} PROVE FALSE
  BY <1>1
<1>2. PICK n \in T : \A m \in T : n <= m
  BY <1>1, LeastNat
<1>3. n \in Nat /\ ~ \E f : IsUpTo(f, n, seq, set)
  BY <1>1
<1>4. CASE n = 0
  <2>1. PICK f : f = [i \in 0..n |-> <<>>]
    OBVIOUS
  <2>2. \A i \in 0..n : i = 0
    BY <1>4
  <2>3. f = [i \in 0..n |-> IF i = 0 THEN <<>> ELSE More(f[i - 1], seq[i], set)]
    BY <2>1, <2>2, Zenon
  <2> QED
    BY <1>3, <2>3 DEF IsUpTo
<1>5. CASE n # 0
  <2>1. n - 1 \in Nat /\ n - 1 \notin T
    BY <1>2, <1>3, <1>5
  <2>2. PICK f : IsUpTo(f, n - 1, seq, set)
    BY <1>1, <2>1
  <2>3. PICK g : g = [i \in 0..n |-> IF i = 0 THEN <<>> ELSE More(f[i - 1], seq[i], set)]
    OBVIOUS
  <2>4. ASSUME NEW i \in 0..n, i # 0 PROVE f[i - 1] = g[i - 1]
    <3>1. i - 1 \in 0..(n - 1) /\ i - 1 \in 0..n
      BY <1>3, <2>4
    <3>2. f[i - 1] = IF i - 1 = 0 THEN <<>> ELSE More(f[i - 1 - 1], seq[i - 1], set)
      BY <2>2, <3>1 DEF IsUpTo
    <3>3. g[i - 1] = IF i - 1 = 0 THEN <<>> ELSE More(f[i - 1 - 1], seq[i - 1], set)
      BY <2>3, <3>1
    <3> QED
      BY <3>2, <3>3
  <2>5. g = [i \in 0..n |-> IF i = 0 THEN <<>> ELSE More(g[i - 1], seq[i], set)]
    BY <2>3, <2>4, Zenon
  <2> QED
    BY <1>3, <2>5 DEF IsUpTo
<1> QED
  BY <1>4, <1>5

\* r is the sequence of those of the first n elements of seq that are in set.
Chosen(r, n, seq, set) ==
    /\ Len(r) <= n
    /\ \A k \in 1..Len(r) : \E i \in 1..n : r[k] = seq[i] /\ seq[i] \in set
    /\ \A i \in 1..n : seq[i] \in set => \E k \in 1..Len(r) : r[k] = seq[i]
    /\ r # <<>> => \E i \in 1..n : /\ r[Len(r)] = seq[i]
                                   /\ \A j \in (i + 1)..n : seq[j] \notin set

\* One more element keeps that.
LEMMA MoreChosen ==
    ASSUME NEW S, NEW seq \in Seq(S), NEW set, NEW n \in 1..Len(seq), NEW r \in Seq(S),
           Chosen(r, n - 1, seq, set)
    PROVE  More(r, seq[n], set) \in Seq(S) /\ Chosen(More(r, seq[n], set), n, seq, set)
<1>1. n \in Nat /\ Len(seq) \in Nat /\ n <= Len(seq) /\ 1 <= n /\ Len(r) \in Nat
  BY LenProperties
<1>2. PICK x : x = seq[n]
  OBVIOUS
<1>3. x \in S
  BY <1>2, ElementOfSeq
<1>4. \A i \in 1..n : i = n \/ i \in 1..(n - 1)
  BY <1>1
<1>5. n \in 1..n /\ \A i \in 1..(n - 1) : i \in 1..n
  BY <1>1
<1>6. CASE x \in set
  <2>1. PICK s : s = Append(r, x)
    OBVIOUS
  <2>2. /\ s \in Seq(S) /\ Len(s) = Len(r) + 1 /\ s[Len(r) + 1] = x
        /\ \A k \in 1..Len(r) : s[k] = r[k]
    BY <1>3, <2>1, AppendProperties
  <2>3. Len(s) \in 1..Len(s) /\ s[Len(s)] = seq[n]
    BY <1>1, <1>2, <2>2
  <2>4. ASSUME NEW k \in 1..Len(s) PROVE \E i \in 1..n : s[k] = seq[i] /\ seq[i] \in set
    <3>1. k = Len(s) \/ k \in 1..Len(r)
      BY <1>1, <2>2
    <3>2. CASE k = Len(s)
      BY <1>2, <1>5, <1>6, <2>3, <3>2
    <3>3. CASE k \in 1..Len(r)
      BY <1>5, <2>2, <3>3 DEF Chosen
    <3> QED
      BY <3>1, <3>2, <3>3
  <2>5. ASSUME NEW i \in 1..n, seq[i] \in set PROVE \E k \in 1..Len(s) : s[k] = seq[i]
    <3>1. CASE i = n
      BY <2>3, <3>1
    <3>2. CASE i \in 1..(n - 1)
      <4>1. PICK k \in 1..Len(r) : r[k] = seq[i]
        BY <2>5, <3>2 DEF Chosen
      <4>2. k \in 1..Len(s)
        BY <1>1, <2>2
      <4> QED
        BY <2>2, <4>1, <4>2
    <3> QED
      BY <1>4, <3>1, <3>2
  <2>6. \E i \in 1..n : s[Len(s)] = seq[i] /\ \A j \in (i + 1)..n : seq[j] \notin set
    <3>1. \A j \in (n + 1)..n : FALSE
      BY <1>1
    <3> QED
      BY <1>5, <2>3, <3>1
  <2>7. More(r, seq[n], set) = s
    BY <1>2, <1>6, <2>1 DEF More
  <2>8. Len(s) <= n
    BY <1>1, <2>2 DEF Chosen
  <2> QED
    BY <2>2, <2>4, <2>5, <2>6, <2>7, <2>8 DEF Chosen
<1>7. CASE x \notin set
  <2>1. More(r, seq[n], set) = r
    BY <1>2, <1>7 DEF More
  <2>2. \A k \in 1..Len(r) : \E i \in 1..n : r[k] = seq[i] /\ seq[i] \in set
    BY <1>5 DEF Chosen
  <2>3. \A i \in 1..n : seq[i] \in set => \E k \in 1..Len(r) : r[k] = seq[i]
    BY <1>2, <1>4, <1>7 DEF Chosen
  <2>4. ASSUME r # <<>>
        PROVE  \E i \in 1..n : r[Len(r)] = seq[i] /\ \A j \in (i + 1)..n : seq[j] \notin set
    <3>1. PICK i \in 1..(n - 1) : r[Len(r)] = seq[i] /\ \A j \in (i + 1)..(n - 1) : seq[j] \notin set
      BY <2>4 DEF Chosen
    <3>2. \A j \in (i + 1)..n : j = n \/ j \in (i + 1)..(n - 1)
      BY <1>1
    <3>3. \A j \in (i + 1)..n : seq[j] \notin set
      BY <1>2, <1>7, <3>1, <3>2
    <3> QED
      BY <1>5, <3>1, <3>3
  <2>5. Len(r) <= n
    BY <1>1 DEF Chosen
  <2> QED
    BY <2>1, <2>2, <2>3, <2>4, <2>5 DEF Chosen
<1> QED
  BY <1>6, <1>7

\* What Only returns.
LEMMA OnlyIsChosen ==
    ASSUME NEW S, NEW seq \in Seq(S), NEW set
    PROVE  Only(seq, set) \in Seq(S) /\ Chosen(Only(seq, set), Len(seq), seq, set)
<1>1. PICK size : size = Len(seq)
  OBVIOUS
<1>2. size \in Nat
  BY <1>1, LenProperties
<1>3. PICK f : f = CHOOSE g : IsUpTo(g, size, seq, set)
  OBVIOUS
<1>4. IsUpTo(f, size, seq, set)
  BY <1>2, <1>3, UpToExists, Zenon
<1>5. Only(seq, set) = f[size]
  BY <1>1, <1>3 DEF Only, IsUpTo, More
<1>6. PICK T : T = {n \in 0..size : ~(f[n] \in Seq(S) /\ Chosen(f[n], n, seq, set))}
  OBVIOUS
<1>7. CASE T = {}
  <2>1. size \in 0..size
    BY <1>2
  <2> QED
    BY <1>1, <1>5, <1>6, <1>7, <2>1
<1>8. CASE T # {}
  <2>1. T \subseteq Nat
    BY <1>6
  <2>2. PICK n \in T : \A m \in T : n <= m
    BY <1>8, <2>1, LeastNat
  <2>3. n \in 0..size /\ n \in Nat
    BY <1>6
  <2>4. f[n] = IF n = 0 THEN <<>> ELSE More(f[n - 1], seq[n], set)
    BY <1>4, <2>3 DEF IsUpTo
  <2>5. n # 0
    <3>1. ASSUME n = 0 PROVE FALSE
      <4>1. f[n] = <<>>
        BY <2>4, <3>1
      <4>2. f[n] \in Seq(S) /\ Len(f[n]) = 0
        BY <4>1, EmptySeq
      <4>3. Chosen(f[n], n, seq, set)
        <5>1. Len(f[n]) <= n /\ ~(f[n] # <<>>)
          BY <3>1, <4>1, <4>2
        <5>2. (\A k \in 1..Len(f[n]) : FALSE) /\ (\A i \in 1..n : FALSE)
          BY <3>1, <4>2
        <5> QED
          BY <5>1, <5>2 DEF Chosen
      <4> QED
        BY <1>6, <4>2, <4>3
    <3> QED
      BY <3>1
  <2>6. n - 1 \in 0..size /\ n - 1 \notin T /\ n \in 1..Len(seq)
    BY <1>1, <2>2, <2>3, <2>5
  <2>7. f[n - 1] \in Seq(S) /\ Chosen(f[n - 1], n - 1, seq, set)
    BY <1>6, <2>6
  <2>8. f[n] = More(f[n - 1], seq[n], set)
    BY <2>4, <2>5
  <2> QED
    BY <1>6, <2>6, <2>7, <2>8, MoreChosen
<1> QED
  BY <1>7, <1>8

\* The elements of a sequence are those at its places.
LEMMA Places ==
    ASSUME NEW S, NEW seq \in Seq(S)
    PROVE  /\ ToSet(seq) = {seq[i] : i \in 1..Len(seq)} /\ ToSet(seq) \subseteq S
           /\ seq = <<>> <=> ToSet(seq) = {}
<1>1. Len(seq) \in Nat /\ DOMAIN seq = 1..Len(seq)
  BY LenProperties
<1>2. ToSet(seq) = {seq[i] : i \in 1..Len(seq)}
  BY <1>1 DEF ToSet
<1>3. ToSet(seq) \subseteq S
  BY <1>2, ElementOfSeq
<1>4. ASSUME seq # <<>> PROVE ToSet(seq) # {}
  <2>1. 1 \in 1..Len(seq)
    BY <1>4, EmptySeq
  <2> QED
    BY <1>2, <2>1
<1>5. ASSUME seq = <<>> PROVE ToSet(seq) = {}
  <2>1. Len(seq) = 0
    BY <1>5
  <2>2. \A i \in 1..Len(seq) : FALSE
    BY <2>1
  <2> QED
    BY <1>2, <2>2
<1> QED
  BY <1>2, <1>3, <1>4, <1>5

\* The elements that are chosen.
LEMMA OnlyElements ==
    ASSUME NEW S, NEW seq \in Seq(S), NEW set
    PROVE  /\ Only(seq, set) \in Seq(S) /\ Len(Only(seq, set)) <= Len(seq)
           /\ ToSet(Only(seq, set)) = ToSet(seq) \cap set
<1>1. PICK r : r = Only(seq, set)
  OBVIOUS
<1>2. r \in Seq(S) /\ Chosen(r, Len(seq), seq, set)
  BY <1>1, OnlyIsChosen
<1>3. ToSet(seq) = {seq[i] : i \in 1..Len(seq)} /\ ToSet(r) = {r[i] : i \in 1..Len(r)}
  BY <1>2, Places
<1>4. ASSUME NEW x \in ToSet(r) PROVE x \in ToSet(seq) /\ x \in set
  <2>1. PICK k \in 1..Len(r) : x = r[k]
    BY <1>3
  <2>2. PICK i \in 1..Len(seq) : r[k] = seq[i] /\ seq[i] \in set
    BY <1>2 DEF Chosen
  <2> QED
    BY <1>3, <2>1, <2>2
<1>5. ASSUME NEW x \in ToSet(seq), x \in set PROVE x \in ToSet(r)
  <2>1. PICK i \in 1..Len(seq) : x = seq[i]
    BY <1>3
  <2>2. PICK k \in 1..Len(r) : r[k] = seq[i]
    BY <1>2, <1>5, <2>1 DEF Chosen
  <2> QED
    BY <1>3, <2>1, <2>2
<1>6. Len(r) <= Len(seq)
  BY <1>2 DEF Chosen
<1> QED
  BY <1>1, <1>2, <1>4, <1>5, <1>6

\* The elements of two sequences, one after the other.
LEMMA ConcatElements ==
    ASSUME NEW S, NEW s \in Seq(S), NEW t \in Seq(S)
    PROVE  s \o t \in Seq(S) /\ Len(s \o t) = Len(s) + Len(t) /\ ToSet(s \o t) = ToSet(s) \cup ToSet(t)
<1>1. PICK m, n : m = Len(s) /\ n = Len(t)
  OBVIOUS
<1>2. m \in Nat /\ n \in Nat
  BY <1>1, LenProperties
<1>3. PICK c : c = s \o t
  OBVIOUS
<1>4. c \in Seq(S) /\ Len(c) = m + n /\ \A i \in 1..(m + n) : c[i] = IF i <= m THEN s[i] ELSE t[i - m]
  BY <1>1, <1>3, ConcatProperties
<1>5. ToSet(c) = {c[i] : i \in 1..(m + n)} /\ ToSet(s) = {s[i] : i \in 1..m} /\ ToSet(t) = {t[i] : i \in 1..n}
  BY <1>1, <1>4, Places
<1>6. ASSUME NEW i \in 1..(m + n) PROVE c[i] \in ToSet(s) \cup ToSet(t)
  <2>1. CASE i <= m
    <3>1. i \in 1..m /\ c[i] = s[i]
      BY <1>2, <1>4, <2>1
    <3> QED
      BY <1>5, <3>1
  <2>2. CASE ~(i <= m)
    <3>1. i - m \in 1..n /\ c[i] = t[i - m]
      BY <1>2, <1>4, <2>2
    <3> QED
      BY <1>5, <3>1
  <2> QED
    BY <2>1, <2>2
<1>7. ASSUME NEW i \in 1..m PROVE s[i] \in ToSet(c)
  <2>1. i \in 1..(m + n) /\ c[i] = s[i]
    BY <1>2, <1>4
  <2> QED
    BY <1>5, <2>1
<1>8. ASSUME NEW i \in 1..n PROVE t[i] \in ToSet(c)
  <2>1. PICK j : j = i + m
    OBVIOUS
  <2>2. j \in 1..(m + n) /\ ~(j <= m) /\ j - m = i
    BY <1>2, <2>1
  <2>3. c[j] = t[j - m]
    BY <1>4, <2>2
  <2> QED
    BY <1>5, <2>2, <2>3
<1> QED
  BY <1>1, <1>3, <1>4, <1>5, <1>6, <1>7, <1>8

\* The last element that is chosen of two sequences.
LEMMA LastChosen ==
    ASSUME NEW S, NEW s \in Seq(S), NEW t \in Seq(S), NEW set, Only(s \o t, set) # <<>>
    PROVE  LET last == Last(Only(s \o t, set))
           IN  /\ last \in set
               /\ last \in ToSet(t) \/ (last \in ToSet(s) /\ ToSet(t) \cap set = {})
<1>1. PICK c, r, m, n : c = s \o t /\ r = Only(c, set) /\ m = Len(s) /\ n = Len(t)
  OBVIOUS
<1>2. m \in Nat /\ n \in Nat
  BY <1>1, LenProperties
<1>3. c \in Seq(S) /\ Len(c) = m + n /\ \A i \in 1..(m + n) : c[i] = IF i <= m THEN s[i] ELSE t[i - m]
  BY <1>1, ConcatProperties
<1>4. r \in Seq(S) /\ Chosen(r, m + n, c, set) /\ r # <<>>
  BY <1>1, <1>3, OnlyIsChosen
<1>5. PICK i \in 1..(m + n) : r[Len(r)] = c[i] /\ \A j \in (i + 1)..(m + n) : c[j] \notin set
  BY <1>4 DEF Chosen
<1>6. r[Len(r)] \in set
  <2>1. Len(r) \in 1..Len(r)
    BY <1>4, EmptySeq
  <2> QED
    BY <1>4, <2>1 DEF Chosen
<1>7. ToSet(s) = {s[k] : k \in 1..m} /\ ToSet(t) = {t[k] : k \in 1..n}
  BY <1>1, Places
<1>8. CASE i <= m
  <2>1. c[i] \in ToSet(s)
    BY <1>2, <1>3, <1>7, <1>8
  <2>2. ASSUME NEW k \in 1..n PROVE t[k] \notin set
    <3>1. PICK j : j = k + m
      OBVIOUS
    <3>2. j \in (i + 1)..(m + n) /\ j \in 1..(m + n) /\ ~(j <= m) /\ j - m = k
      BY <1>2, <1>8, <3>1
    <3>3. c[j] = t[j - m]
      BY <1>3, <3>2
    <3> QED
      BY <1>5, <3>2, <3>3
  <2> QED
    BY <1>1, <1>5, <1>6, <1>7, <2>1, <2>2 DEF Last
<1>9. CASE ~(i <= m)
  <2>1. i - m \in 1..n /\ c[i] = t[i - m]
    BY <1>2, <1>3, <1>9
  <2> QED
    BY <1>1, <1>5, <1>6, <1>7, <2>1 DEF Last
<1> QED
  BY <1>8, <1>9

-----------------------------------------------------------------------------
(* The inductive invariant.                                                *)

\* A packet, and one that is queued.  A time is a player's, and a line of chat
\* has its number for who and for value.
Well(q) == (q.field = "time" => q.who \in Player) /\ (q.field = "chat" => q.value = q.who)
Packet == {q \in [who : Player \cup Nat, field : {"time", "style", "chat"}, value : Nat] : Well(q)}
Queued == {q \in [who : Player \cup Nat, field : {"time", "style", "chat"}, value : Nat,
                  generation : Nat, standings : BOOLEAN] : Well(q)}

PubTypeOK ==
    /\ room \in [generation : Nat, stopped : BOOLEAN, session : {"none", "up", "stopping", "stopped"}]
    /\ outbox \in [waiting : Seq(Queued), count : Int, generation : Nat,
                   native : [Player -> SUBSET Nat]]
    /\ call \in [Publishing -> Nat \cup {NoCall}]
    /\ run \in [at : {"off", "top", "take", "wait", "taken", "sending", "sent", "ended"},
                waiter : {"none", "armed", "one", "all"}, permit : BOOLEAN, packet : Seq(Queued)]
    /\ history \in [published : Nat, finishes : Nat, latest : SUBSET Packet, sent : SUBSET Packet,
                    native : [Player -> SUBSET Nat], crossed : BOOLEAN]

\* Nothing is of a level that is yet to begin.
Begun ==
    /\ outbox.generation <= room.generation
    /\ \A q \in ToSet(outbox.waiting) \cup ToSet(run.packet) : q.generation <= room.generation
    /\ \A c \in Publishing : call[c] # NoCall => call[c] <= room.generation

\* The task has one packet between taking and counting it, and none otherwise.
Placed ==
    /\ Len(run.packet) = IF run.at \in {"taken", "sending", "sent"} THEN 1 ELSE 0
    /\ room.session = "none" => run.at = "off"
    /\ room.session \in {"stopping", "stopped"} => room.stopped

\* The counter.
Counted ==
    /\ outbox.count = Len(outbox.waiting) + Len(run.packet)
    /\ outbox.count <= Capacity

\* A packet of this level that has been sent, and is yet to be counted.
Delivered ==
    run.at = "sent" =>
        \A w \in ToSet(run.packet) :
            w.generation = room.generation => PacketOf(w.who, w.field, w.value) \in history.sent

\* The packets of this level with the key of q.
Due(seq, q) == {w \in ToSet(seq) : w.generation = room.generation /\ Key(w) = Key(q)}

\* What was published last is what waits; or, if nothing waits, what is on its
\* way; or it has been sent.
Settled(q) ==
    /\ \A w \in Due(outbox.waiting, q) : w.value = q.value
    /\ Due(outbox.waiting, q) = {} =>
          /\ \A w \in Due(run.packet, q) : w.value = q.value
          /\ Due(run.packet, q) = {} => q \in history.sent

\* The times that the publisher knows are those of this level, if there are any.
Remembered ==
    history.native = IF outbox.generation = room.generation THEN outbox.native ELSE NoTimes

\* No time that waits is slower than one the server has measured.
Undone ==
    \A q \in ToSet(outbox.waiting) :
        q.generation = room.generation => ~Outdone(q, history.native)

Uncrossed == ~history.crossed => Remembered /\ Undone /\ \A q \in history.latest : Settled(q)

PubInv ==
    /\ PubTypeOK /\ Begun /\ Placed
    /\ ~room.stopped => Counted /\ Delivered /\ Uncrossed

-----------------------------------------------------------------------------
(* What the operators of the module return.                                *)

\* The faster one of a time and another is a time.
LEMMA FasterTyped ==
    ASSUME NEW times \in SUBSET Nat, NEW t \in Nat
    PROVE  Faster(times, t) \in SUBSET Nat
<1>1. PICK T : T = times \cup {t}
  OBVIOUS
<1>2. T \subseteq Nat /\ T # {}
  BY <1>1
<1>3. \E s \in T : \A r \in T : s <= r
  BY <1>2, LeastNat
<1>4. (CHOOSE s \in T : \A r \in T : s <= r) \in T
  BY <1>3, Zenon
<1>5. Faster(times, t) = {CHOOSE s \in T : \A r \in T : s <= r}
  BY <1>1 DEF Faster
<1> QED
  BY <1>2, <1>4, <1>5

\* The times the server has measured are times, and of other players than p
\* there are no new ones.
LEMMA MeasuredTyped ==
    ASSUME NEW native \in [Player -> SUBSET Nat], NEW p \in Player, NEW t \in Nat, NEW players
    PROVE  /\ Measured(native, p, t, players) \in [Player -> SUBSET Nat]
           /\ \A q \in Player : q # p => Measured(native, p, t, players)[q] \subseteq native[q]
<1>1. PICK f : f = Faster(native[p], t)
  OBVIOUS
<1>2. f \in SUBSET Nat
  BY <1>1, FasterTyped
<1>3. Measured(native, p, t, players) =
          [q \in Player |-> IF q \notin players THEN {} ELSE IF q = p THEN f ELSE native[q]]
  BY <1>1 DEF Measured
<1> QED
  BY <1>2, <1>3

\* There are no times to begin with.
LEMMA NoTimesTyped == NoTimes \in [Player -> SUBSET Nat]
BY DEF NoTimes

\* A publication is a sequence of packets of different keys.
LEMMA PublicationTyped ==
    ASSUME NEW n \in Nat, NEW publication \in Publications(n)
    PROVE  /\ publication.standings \in BOOLEAN
           /\ publication.packets \in Seq(Packet)
           /\ \A a, b \in ToSet(publication.packets) : Key(a) = Key(b) => a = b
<1>1. Times \subseteq Nat
  BY PublicationAssumption
<1>2. ASSUME NEW x \in Packet
      PROVE  <<x>> \in Seq(Packet) /\ \A a, b \in ToSet(<<x>>) : a = b
  <2>1. <<x>> \in Seq(Packet) /\ Len(<<x>>) = 1 /\ <<x>>[1] = x
    BY SMT
  <2>2. ToSet(<<x>>) = {<<x>>[i] : i \in 1..Len(<<x>>)}
    BY <2>1, Places
  <2>3. \A i \in 1..Len(<<x>>) : i = 1
    BY <2>1
  <2> QED
    BY <2>1, <2>2, <2>3
<1>3. ASSUME NEW p \in Player, NEW t \in Nat
      PROVE  PacketOf(p, "time", t) \in Packet /\ PacketOf(p, "style", t) \in Packet
  BY DEF PacketOf, Packet, Well
<1>4. PacketOf(n, "chat", n) \in Packet
  BY DEF PacketOf, Packet, Well
<1>5. ASSUME NEW x \in Packet, NEW y \in Packet, Key(x) # Key(y)
      PROVE  /\ <<x, y>> \in Seq(Packet)
             /\ \A a, b \in ToSet(<<x, y>>) : Key(a) = Key(b) => a = b
  <2>1. <<x, y>> \in Seq(Packet) /\ Len(<<x, y>>) = 2 /\ <<x, y>>[1] = x /\ <<x, y>>[2] = y
    BY SMT
  <2>2. ToSet(<<x, y>>) = {<<x, y>>[i] : i \in 1..Len(<<x, y>>)}
    BY <2>1, Places
  <2>3. \A i \in 1..Len(<<x, y>>) : i = 1 \/ i = 2
    BY <2>1
  <2>4. \A a \in ToSet(<<x, y>>) : a = x \/ a = y
    BY <2>1, <2>2, <2>3
  <2> QED
    BY <1>5, <2>1, <2>4
<1>6. ASSUME NEW p \in Player, NEW t \in Nat
      PROVE  Key(PacketOf(p, "time", t)) # Key(PacketOf(p, "style", n))
  BY DEF Key, PacketOf
<1>14. PICK line : line = <<PacketOf(n, "chat", n)>>
  OBVIOUS
<1>15. publication \in [standings : BOOLEAN, packets : Standing(n)]
                           \cup [standings : {FALSE}, packets : {<<PacketOf(n, "chat", n)>>}]
  BY DEF Publications
<1>16. publication.packets \in Standing(n) \/ publication.packets = line
  BY <1>14, <1>15
<1>7. publication.standings \in BOOLEAN
  BY <1>15
<1>8. \/ \E p \in Player, t \in Times : publication.packets = <<PacketOf(p, "time", t)>>
      \/ \E p \in Player : publication.packets = <<PacketOf(p, "style", n)>>
      \/ \E p \in Player, t \in Times :
             publication.packets = <<PacketOf(p, "time", t), PacketOf(p, "style", n)>>
      \/ publication.packets = <<PacketOf(n, "chat", n)>>
  <2>1. CASE publication.packets \in Standing(n)
    BY <2>1 DEF Standing
  <2>2. CASE publication.packets = line
    BY <1>14, <2>2, Zenon
  <2> QED
    BY <1>16, <2>1, <2>2
<1>9. CASE \E p \in Player, t \in Times : publication.packets = <<PacketOf(p, "time", t)>>
  BY <1>1, <1>2, <1>3, <1>7, <1>9
<1>10. CASE \E p \in Player : publication.packets = <<PacketOf(p, "style", n)>>
  BY <1>2, <1>3, <1>7, <1>10
<1>11. CASE \E p \in Player, t \in Times :
             publication.packets = <<PacketOf(p, "time", t), PacketOf(p, "style", n)>>
  <2>1. PICK p \in Player, t \in Times :
            publication.packets = <<PacketOf(p, "time", t), PacketOf(p, "style", n)>>
    BY <1>11
  <2>2. PICK x, y : x = PacketOf(p, "time", t) /\ y = PacketOf(p, "style", n)
    OBVIOUS
  <2>3. x \in Packet /\ y \in Packet /\ Key(x) # Key(y)
    BY <1>1, <1>3, <1>6, <2>2
  <2> QED
    BY <1>5, <1>7, <2>1, <2>2, <2>3
<1>12. CASE publication.packets = <<PacketOf(n, "chat", n)>>
  BY <1>2, <1>4, <1>7, <1>12
<1> QED
  BY <1>8, <1>9, <1>10, <1>11, <1>12

\* What waits on is what is of the generation and not published anew.
Kept(waiting, b, keys) == {q \in ToSet(waiting) : q.generation = b.generation /\ Key(q) \notin keys}

\* It is what Coalesced returns, in an order of its own.
LEMMA CoalescedElements ==
    ASSUME NEW waiting \in Seq(Queued), NEW b, NEW keys
    PROVE  /\ Coalesced(waiting, b, keys) \in Seq(Queued)
           /\ ToSet(Coalesced(waiting, b, keys)) = Kept(waiting, b, keys)
<1>1. PICK kept : kept = Kept(waiting, b, keys)
  OBVIOUS
<1>2. PICK refreshes : refreshes = {q \in kept : b.standings /\ q.standings}
  OBVIOUS
<1>3. PICK s, t : s = Only(waiting, kept \ refreshes) /\ t = Only(waiting, refreshes)
  OBVIOUS
<1>4. Coalesced(waiting, b, keys) = s \o t
  BY <1>1, <1>2, <1>3 DEF Coalesced, Kept
<1>5. s \in Seq(Queued) /\ ToSet(s) = ToSet(waiting) \cap (kept \ refreshes)
  BY <1>3, OnlyElements
<1>6. t \in Seq(Queued) /\ ToSet(t) = ToSet(waiting) \cap refreshes
  BY <1>3, OnlyElements
<1>7. s \o t \in Seq(Queued) /\ ToSet(s \o t) = ToSet(s) \cup ToSet(t)
  BY <1>5, <1>6, ConcatElements
<1>8. kept \subseteq ToSet(waiting) /\ refreshes \subseteq kept
  BY <1>1, <1>2 DEF Kept
<1>9. ToSet(s) \cup ToSet(t) = kept
  BY <1>5, <1>6, <1>8
<1> QED
  BY <1>1, <1>4, <1>7, <1>9

\* A packet with what its batch says of it.
Tag(q, b) == [who |-> q.who, field |-> q.field, value |-> q.value,
              generation |-> b.generation, standings |-> b.standings]

\* What is done to each element is done to the set of them.
LEMMA ElementsMapped ==
    ASSUME NEW S, NEW T, NEW s \in Seq(S), NEW t \in Seq(T), NEW b, Len(s) = Len(t),
           \A i \in 1..Len(t) : s[i] = Tag(t[i], b)
    PROVE  ToSet(s) = {Tag(q, b) : q \in ToSet(t)}
<1>1. ToSet(s) = {s[i] : i \in 1..Len(s)} /\ ToSet(t) = {t[i] : i \in 1..Len(t)}
  BY Places
<1> QED
  BY <1>1

IsTagged(tagged, fresh, b) == tagged = [i \in 1..Len(fresh) |-> Tag(fresh[i], b)]

\* The packets of a batch that are queued.
LEMMA TaggedElements ==
    ASSUME NEW fresh \in Seq(Packet), NEW b, b.generation \in Nat, b.standings \in BOOLEAN,
           NEW tagged, IsTagged(tagged, fresh, b)
    PROVE  /\ tagged \in Seq(Queued) /\ Len(tagged) = Len(fresh)
           /\ ToSet(tagged) = {Tag(q, b) : q \in ToSet(fresh)}
<1>1. PICK n : n = Len(fresh)
  OBVIOUS
<1>2. n \in Nat
  BY <1>1, LenProperties
<1>3. \A q \in Packet : Tag(q, b) \in Queued
  BY DEF Tag, Queued, Packet, Well
<1>4. \A i \in 1..n : fresh[i] \in Packet
  BY <1>1, ElementOfSeq
<1>5. tagged \in [1..n -> Queued]
  BY <1>1, <1>3, <1>4 DEF IsTagged
<1>6. tagged \in Seq(Queued) /\ Len(tagged) = n
  BY <1>2, <1>5, SeqDef, LenProperties
<1>8. \A i \in 1..n : tagged[i] = Tag(fresh[i], b)
  BY <1>1 DEF IsTagged
<1>9. ToSet(tagged) = {Tag(q, b) : q \in ToSet(fresh)}
  BY <1>1, <1>6, <1>8, ElementsMapped
<1> QED
  BY <1>1, <1>6, <1>9

\* The keys of those packets that have one.
KeysOf(packets) == {Key(q) : q \in {r \in packets : r.field # "chat"}}

\* The times a call of enqueue goes by, and the packets it does not drop.
Going(o, b) == IF o.generation = b.generation THEN o.native ELSE NoTimes
Fresh(b, native) == {q \in ToSet(b.packets) : ~Outdone(q, native)}

Outboxes == [waiting : Seq(Queued), count : Int, generation : Nat, native : [Player -> SUBSET Nat]]
IsBatch(b) == b.packets \in Seq(Packet) /\ b.generation \in Nat /\ b.standings \in BOOLEAN

\* What a call of enqueue makes of the queue.
LEMMA EnqueuedElements ==
    ASSUME NEW o \in Outboxes, NEW b, IsBatch(b)
    PROVE  LET after == Enqueued(o, b)
               fresh == Fresh(b, Going(o, b))
           IN  /\ after \in Outboxes
               /\ after.generation = b.generation /\ after.native = Going(o, b)
               /\ ToSet(after.waiting) =
                      Kept(o.waiting, b, KeysOf(fresh)) \cup {Tag(q, b) : q \in fresh}
               /\ after.count - Len(after.waiting) = o.count - Len(o.waiting)
<1>1. PICK native : native = Going(o, b)
  OBVIOUS
<1>2. native \in [Player -> SUBSET Nat]
  BY <1>1, NoTimesTyped DEF Outboxes, Going
<1>3. PICK fresh : fresh = Only(b.packets, Fresh(b, native))
  OBVIOUS
<1>4. fresh \in Seq(Packet) /\ ToSet(fresh) = Fresh(b, native)
  <2>1. b.packets \in Seq(Packet)
    BY DEF IsBatch
  <2>2. fresh \in Seq(Packet) /\ ToSet(fresh) = ToSet(b.packets) \cap Fresh(b, native)
    BY <1>3, <2>1, OnlyElements
  <2> QED
    BY <2>2 DEF Fresh
<1>5. PICK tagged : tagged = [i \in 1..Len(fresh) |-> Tag(fresh[i], b)]
  OBVIOUS
<1>6. IsTagged(tagged, fresh, b)
  BY <1>5 DEF IsTagged
<1>7. b.generation \in Nat /\ b.standings \in BOOLEAN
  BY DEF IsBatch
<1>8. /\ tagged \in Seq(Queued) /\ Len(tagged) = Len(fresh)
      /\ ToSet(tagged) = {Tag(q, b) : q \in Fresh(b, native)}
  BY <1>4, <1>6, <1>7, TaggedElements
<1>9. PICK kept : kept = Coalesced(o.waiting, b, Keys(fresh))
  OBVIOUS
<1>10. Keys(fresh) = KeysOf(Fresh(b, native))
  BY <1>4 DEF Keys, KeysOf
<1>11. o.waiting \in Seq(Queued)
  BY DEF Outboxes
<1>12. kept \in Seq(Queued) /\ ToSet(kept) = Kept(o.waiting, b, KeysOf(Fresh(b, native)))
  BY <1>9, <1>10, <1>11, CoalescedElements
<1>13. PICK w : w = kept \o tagged
  OBVIOUS
<1>14. w \in Seq(Queued) /\ Len(w) = Len(kept) + Len(tagged) /\ ToSet(w) = ToSet(kept) \cup ToSet(tagged)
  BY <1>8, <1>12, <1>13, ConcatElements
<1>15. PICK n : n = o.count - (Len(o.waiting) - Len(kept)) + Len(fresh)
  OBVIOUS
<1>16. Enqueued(o, b) = [waiting |-> w, generation |-> b.generation, native |-> native, count |-> n]
  BY <1>1, <1>3, <1>5, <1>9, <1>13, <1>15 DEF Enqueued, Fresh, Going, Tag
<1>17. n \in Int /\ n - Len(w) = o.count - Len(o.waiting)
  <2>1. Len(o.waiting) \in Nat /\ Len(kept) \in Nat /\ Len(fresh) \in Nat /\ o.count \in Int
    BY <1>4, <1>11, <1>12, LenProperties DEF Outboxes
  <2> QED
    BY <1>8, <1>14, <1>15, <2>1
<1>18. Enqueued(o, b) \in Outboxes
  BY <1>2, <1>7, <1>14, <1>16, <1>17 DEF Outboxes
<1>19. PICK after : after = Enqueued(o, b)
  OBVIOUS
<1>20. after.waiting = w /\ after.generation = b.generation /\ after.native = native /\ after.count = n
  BY <1>16, <1>19
<1>21. ToSet(after.waiting) = Kept(o.waiting, b, KeysOf(Fresh(b, native)))
                                 \cup {Tag(q, b) : q \in Fresh(b, native)}
  BY <1>8, <1>12, <1>14, <1>20
<1>22. after.count - Len(after.waiting) = o.count - Len(o.waiting)
  BY <1>17, <1>20
<1> QED
  BY <1>1, <1>18, <1>19, <1>20, <1>21, <1>22, Zenon

-----------------------------------------------------------------------------
(* The steps of the session.                                               *)

\* An empty queue is a queue.
LEMMA EmptyTyped == Empty \in Outboxes /\ ToSet(Empty.waiting) = {} /\ Empty.generation = 0
<1>1. <<>> \in Seq(Queued)
  BY EmptySeq
<1>2. ToSet(<<>>) = {}
  BY <1>1, Places
<1> QED
  BY <1>1, <1>2, NoTimesTyped DEF Empty, Outboxes

\* The invariant holds at first.
LEMMA PubInvInit == PubInit => PubInv
<1> SUFFICES ASSUME PubInit PROVE PubInv
  OBVIOUS
<1>1. outbox = Empty /\ run = Nobody
  BY DEF PubInit
<1>2. <<>> \in Seq(Queued) /\ Len(<<>>) = 0
  BY EmptySeq
<1>3. ToSet(<<>>) = {}
  BY <1>2, Places
<1>4. run.packet = <<>> /\ run.at = "off" /\ outbox.waiting = <<>> /\ outbox.count = 0 /\ outbox.generation = 0
      /\ outbox.native = NoTimes
  BY <1>1 DEF Empty, Nobody
<1>5. PubTypeOK
  <2>1. room \in [generation : Nat, stopped : BOOLEAN, session : {"none", "up", "stopping", "stopped"}]
    BY DEF PubInit
  <2>2. outbox \in [waiting : Seq(Queued), count : Int, generation : Nat, native : [Player -> SUBSET Nat]]
    BY <1>1, EmptyTyped DEF Outboxes
  <2>3. call \in [Publishing -> Nat \cup {NoCall}]
    BY DEF PubInit
  <2>4. run \in [at : {"off", "top", "take", "wait", "taken", "sending", "sent", "ended"},
                waiter : {"none", "armed", "one", "all"}, permit : BOOLEAN, packet : Seq(Queued)]
    BY <1>1, <1>2 DEF Nobody
  <2>5. history \in [published : Nat, finishes : Nat, latest : SUBSET Packet, sent : SUBSET Packet,
                    native : [Player -> SUBSET Nat], crossed : BOOLEAN]
    BY NoTimesTyped DEF PubInit
  <2> QED
    BY <2>1, <2>2, <2>3, <2>4, <2>5 DEF PubTypeOK
<1>6. Begun
  BY <1>3, <1>4 DEF Begun, PubInit
<1>7. Placed
  BY <1>2, <1>4 DEF Placed, PubInit
<1>8. Counted
  BY <1>2, <1>4, PublicationAssumption DEF Counted
<1>9. Delivered
  BY <1>4 DEF Delivered
<1>10. Uncrossed
  <2>1. history.native = NoTimes /\ history.latest = {}
    BY DEF PubInit
  <2> QED
    BY <1>3, <1>4, <2>1 DEF Uncrossed, Remembered, Undone
<1> QED
  BY <1>5, <1>6, <1>7, <1>8, <1>9, <1>10 DEF PubInv

\* What is promised does not depend on where the task is.
LEMMA UncrossedKept ==
    ASSUME room'.generation = room.generation, outbox' = outbox, history' = history,
           run'.packet = run.packet, Uncrossed
    PROVE  Uncrossed'
<1>1. Remembered' <=> Remembered
  BY DEF Remembered
<1>2. Undone' <=> Undone
  BY DEF Undone, Outdone
<1>3. \A q : Settled(q)' <=> Settled(q)
  BY DEF Settled, Due, Key
<1> QED
  BY <1>1, <1>2, <1>3 DEF Uncrossed

\* Nothing is promised by a publisher that forgets.
LEMMA ForgottenTyped ==
    ASSUME PubTypeOK
    PROVE  /\ Forgotten \in [published : Nat, finishes : Nat, latest : SUBSET Packet, sent : SUBSET Packet,
                             native : [Player -> SUBSET Nat], crossed : BOOLEAN]
           /\ Forgotten.latest = {} /\ Forgotten.native = NoTimes /\ ~Forgotten.crossed
  BY NoTimesTyped DEF Forgotten, PubTypeOK

\* A stopped publisher promises nothing.
LEMMA StoppedInv ==
    ASSUME PubTypeOK', Begun', Placed', room'.stopped
    PROVE  PubInv'
  BY DEF PubInv

\* The session starts.
LEMMA StartSessionInv ==
    ASSUME PubInv, StartSession
    PROVE  PubInv'
<1>1. /\ room.session = "none" /\ run.at = "off"
      /\ room' = [room EXCEPT !.session = "up"] /\ run' = [run EXCEPT !.at = "top"]
      /\ outbox' = outbox /\ call' = call /\ history' = history
  BY DEF StartSession, PubInv, Placed
<1>2. PubTypeOK /\ Begun /\ Placed
  BY DEF PubInv
<1>3. /\ room'.generation = room.generation /\ room'.stopped = room.stopped /\ room'.session = "up"
      /\ run'.packet = run.packet /\ run'.at = "top"
  BY <1>1, <1>2 DEF PubTypeOK
<1>4. PubTypeOK'
  BY <1>1, <1>2 DEF PubTypeOK
<1>5. Begun'
  BY <1>1, <1>2, <1>3 DEF Begun
<1>6. Placed'
  BY <1>1, <1>2, <1>3 DEF Placed
<1>7. ASSUME ~room'.stopped PROVE Counted' /\ Delivered' /\ Uncrossed'
  <2>1. Counted /\ Uncrossed
    BY <1>3, <1>7 DEF PubInv
  <2>2. Counted'
    BY <1>1, <1>3, <2>1 DEF Counted
  <2>3. Delivered'
    BY <1>3 DEF Delivered
  <2> QED
    BY <1>1, <1>3, <2>1, <2>2, <2>3, UncrossedKept
<1> QED
  BY <1>4, <1>5, <1>6, <1>7 DEF PubInv

\* The session begins to stop.
LEMMA StopBeginsInv ==
    ASSUME PubInv, StopBegins
    PROVE  PubInv'
<1>1. /\ room.session = "up" /\ room' = [room EXCEPT !.stopped = TRUE, !.session = "stopping"]
      /\ outbox' = outbox /\ call' = call /\ history' = Forgotten /\ run' = run
  BY DEF StopBegins
<1>2. PubTypeOK /\ Begun /\ Placed
  BY DEF PubInv
<1>3. room'.generation = room.generation /\ room'.stopped /\ room'.session = "stopping"
  BY <1>1, <1>2 DEF PubTypeOK
<1>4. room' \in [generation : Nat, stopped : BOOLEAN, session : {"none", "up", "stopping", "stopped"}]
  BY <1>1, <1>2 DEF PubTypeOK
<1>5. PubTypeOK'
  BY <1>1, <1>2, <1>4, ForgottenTyped DEF PubTypeOK
<1>6. Begun'
  BY <1>1, <1>2, <1>3 DEF Begun
<1>7. Placed'
  BY <1>1, <1>2, <1>3 DEF Placed
<1> QED
  BY <1>3, <1>5, <1>6, <1>7, StoppedInv

\* The publisher is stopped.
LEMMA StopClearsInv ==
    ASSUME PubInv, StopClears
    PROVE  PubInv'
<1>1. /\ room.session = "stopping" /\ room' = [room EXCEPT !.session = "stopped"]
      /\ outbox' = Empty /\ call' = call /\ history' = history /\ run' = NotifyWaiters(run)
  BY DEF StopClears
<1>2. PubTypeOK /\ Begun /\ Placed
  BY DEF PubInv
<1>3. room'.generation = room.generation /\ room'.stopped /\ room'.session = "stopped"
  BY <1>1, <1>2 DEF PubTypeOK, Placed
<1>4. room' \in [generation : Nat, stopped : BOOLEAN, session : {"none", "up", "stopping", "stopped"}]
  BY <1>1, <1>2 DEF PubTypeOK
<1>5. run'.at = run.at /\ run'.packet = run.packet
      /\ run' \in [at : {"off", "top", "take", "wait", "taken", "sending", "sent", "ended"},
                waiter : {"none", "armed", "one", "all"}, permit : BOOLEAN, packet : Seq(Queued)]
  BY <1>1, <1>2 DEF PubTypeOK, NotifyWaiters
<1>6. PubTypeOK'
  BY <1>1, <1>2, <1>4, <1>5, EmptyTyped DEF PubTypeOK, Outboxes
<1>7. Begun'
  BY <1>1, <1>2, <1>3, <1>4, <1>5, EmptyTyped DEF Begun
<1>8. Placed'
  BY <1>2, <1>3, <1>5 DEF Placed
<1> QED
  BY <1>3, <1>6, <1>7, <1>8, StoppedInv

\* Another level begins: nothing that is queued is of it.
LEMMA AdvanceInv ==
    ASSUME PubInv, Advance
    PROVE  PubInv'
<1>1. /\ room' = [room EXCEPT !.generation = @ + 1] /\ outbox' = outbox /\ call' = call
      /\ run' = run /\ history' = Forgotten
  BY DEF Advance
<1>2. PubTypeOK /\ Begun /\ Placed
  BY DEF PubInv
<1>3. /\ room.generation \in Nat /\ room'.generation = room.generation + 1
      /\ room'.stopped = room.stopped /\ room'.session = room.session
  BY <1>1, <1>2 DEF PubTypeOK
<1>4. room' \in [generation : Nat, stopped : BOOLEAN, session : {"none", "up", "stopping", "stopped"}]
  BY <1>1, <1>2 DEF PubTypeOK
<1>5. PubTypeOK'
  <2>1. history' \in [published : Nat, finishes : Nat, latest : SUBSET Packet, sent : SUBSET Packet,
                      native : [Player -> SUBSET Nat], crossed : BOOLEAN]
    BY <1>1, <1>2, ForgottenTyped
  <2>2. outbox' = outbox /\ call' = call /\ run' = run
    BY <1>1
  <2> QED
    BY <1>2, <1>4, <2>1, <2>2 DEF PubTypeOK
<1>6. /\ outbox.generation \in Nat
      /\ \A q \in ToSet(outbox.waiting) \cup ToSet(run.packet) : q.generation \in Nat
      /\ \A c \in Publishing : call[c] # NoCall => call[c] \in Nat
  <2>1. outbox.waiting \in Seq(Queued) /\ run.packet \in Seq(Queued) /\ outbox.generation \in Nat
        /\ call \in [Publishing -> Nat \cup {NoCall}]
    BY <1>2 DEF PubTypeOK
  <2>2. ToSet(outbox.waiting) \subseteq Queued /\ ToSet(run.packet) \subseteq Queued
    BY <2>1, Places
  <2> QED
    BY <2>1, <2>2 DEF Queued
<1>7. Begun'
  BY <1>1, <1>2, <1>3, <1>6 DEF Begun
<1>8. /\ outbox.generation # room'.generation
      /\ \A q \in ToSet(outbox.waiting) \cup ToSet(run.packet) : q.generation # room'.generation
  BY <1>2, <1>3, <1>6 DEF Begun
<1>9. Placed'
  BY <1>1, <1>2, <1>3 DEF Placed
<1>10. ASSUME ~room'.stopped PROVE Counted' /\ Delivered' /\ Uncrossed'
  <2>1. Counted
    BY <1>3, <1>10 DEF PubInv
  <2>2. Counted'
    BY <1>1, <2>1 DEF Counted
  <2>3. Delivered'
    BY <1>1, <1>8 DEF Delivered
  <2>4. history'.native = NoTimes /\ history'.latest = {}
    BY <1>1, <1>2, ForgottenTyped
  <2>5. Uncrossed'
    BY <1>1, <1>8, <2>4 DEF Uncrossed, Remembered, Undone
  <2> QED
    BY <2>2, <2>3, <2>5
<1> QED
  BY <1>5, <1>7, <1>9, <1>10 DEF PubInv

\* A task calls enqueue.
LEMMA PublishInv ==
    ASSUME PubInv, NEW c \in Publishing, Publish(c)
    PROVE  PubInv'
<1>1. /\ room' = room /\ outbox' = outbox /\ run' = run /\ history' = history
      /\ call' = [call EXCEPT ![c] = room.generation]
  BY DEF Publish
<1>2. PubTypeOK /\ Begun /\ Placed /\ (~room.stopped => Counted /\ Delivered /\ Uncrossed)
  BY DEF PubInv
<1>3. PubTypeOK'
  BY <1>1, <1>2 DEF PubTypeOK
<1>4. \A d \in Publishing : call'[d] # NoCall => call'[d] <= room.generation
  BY <1>1, <1>2 DEF PubTypeOK, Begun
<1>5. Begun'
  BY <1>1, <1>2, <1>4 DEF Begun
<1>6. Placed' /\ (Counted => Counted') /\ (Delivered => Delivered')
  BY <1>1, <1>2 DEF Placed, Counted, Delivered
<1>7. Uncrossed => Uncrossed'
  BY <1>1, UncrossedKept
<1> QED
  BY <1>1, <1>2, <1>3, <1>5, <1>6, <1>7 DEF PubInv

\* A call finds the publisher stopped.
LEMMA RefusedInv ==
    ASSUME PubInv, NEW c \in Publishing, Refused(c)
    PROVE  PubInv'
<1>1. /\ room' = room /\ outbox' = outbox /\ run' = run /\ history' = history /\ room.stopped
      /\ call' = [call EXCEPT ![c] = NoCall]
  BY DEF Refused
<1>2. PubTypeOK /\ Begun /\ Placed
  BY DEF PubInv
<1>3. PubTypeOK'
  BY <1>1, <1>2 DEF PubTypeOK
<1>4. \A d \in Publishing : call'[d] # NoCall => call'[d] <= room.generation
  BY <1>1, <1>2 DEF PubTypeOK, Begun
<1>5. Begun'
  BY <1>1, <1>2, <1>4 DEF Begun
<1>6. Placed'
  BY <1>1, <1>2 DEF Placed
<1> QED
  BY <1>1, <1>3, <1>5, <1>6, StoppedInv

-----------------------------------------------------------------------------
(* The steps of the task that sends.                                       *)

Runs == [at : {"off", "top", "take", "wait", "taken", "sending", "sent", "ended"},
         waiter : {"none", "armed", "one", "all"}, permit : BOOLEAN, packet : Seq(Queued)]

\* Steps of the task that move it without touching a packet.
LEMMA MovedInv ==
    ASSUME PubInv, room' = room, outbox' = outbox, call' = call, history' = history,
           run' \in Runs, run'.packet = run.packet, run'.at # "sent", run'.at # "off",
           run.at # "off",
           run.at \in {"taken", "sending", "sent"} <=> run'.at \in {"taken", "sending", "sent"}
    PROVE  PubInv'
<1>1. PubTypeOK /\ Begun /\ Placed /\ (~room.stopped => Counted /\ Uncrossed)
  BY DEF PubInv
<1>2. PubTypeOK'
  BY <1>1 DEF PubTypeOK, Runs
<1>3. Begun'
  BY <1>1 DEF Begun
<1>4. Placed'
  BY <1>1 DEF Placed
<1>5. (Counted => Counted') /\ Delivered'
  BY DEF Counted, Delivered
<1>6. Uncrossed => Uncrossed'
  BY UncrossedKept
<1> QED
  BY <1>1, <1>2, <1>3, <1>4, <1>5, <1>6 DEF PubInv

\* The task registers for the next notification.
LEMMA ArmsInv ==
    ASSUME PubInv, Arms
    PROVE  PubInv'
<1>1. run \in Runs
  BY DEF PubInv, PubTypeOK, Runs
<1>2. /\ run.at = "top" /\ room' = room /\ outbox' = outbox /\ call' = call /\ history' = history
      /\ run' = [Armed(run) EXCEPT !.at = IF room.stopped THEN "ended" ELSE "take"]
  BY DEF Arms
<1>3. Armed(run) \in Runs /\ Armed(run).packet = run.packet
  BY <1>1 DEF Armed, Runs
<1>4. run' \in Runs /\ run'.packet = run.packet /\ run'.at \in {"ended", "take"}
  BY <1>2, <1>3 DEF Runs
<1> QED
  BY <1>2, <1>4, MovedInv

\* The task is notified.
LEMMA WakesInv ==
    ASSUME PubInv, Wakes
    PROVE  PubInv'
<1>1. run \in Runs
  BY DEF PubInv, PubTypeOK, Runs
<1>2. /\ run.at = "wait" /\ room' = room /\ outbox' = outbox /\ call' = call /\ history' = history
      /\ run' = [run EXCEPT !.at = "top", !.waiter = "none"]
  BY DEF Wakes
<1>3. run' \in Runs /\ run'.packet = run.packet /\ run'.at = "top"
  BY <1>1, <1>2 DEF Runs
<1> QED
  BY <1>2, <1>3, MovedInv

\* A task that ends has no packet.
LEMMA EndedTyped ==
    ASSUME run \in Runs
    PROVE  LET ended == [run EXCEPT !.at = "ended", !.waiter = "none", !.packet = <<>>]
           IN  ended \in Runs /\ ended.packet = <<>> /\ ended.at = "ended"
<1>1. <<>> \in Seq(Queued)
  BY EmptySeq
<1> QED
  BY <1>1 DEF Runs

\* A task that ends once the publisher is stopped.
LEMMA EndsInv ==
    ASSUME PubInv, room'.stopped, room'.generation = room.generation, room'.session = room.session,
           room' \in [generation : Nat, stopped : BOOLEAN, session : {"none", "up", "stopping", "stopped"}],
           room.session # "none", outbox' \in {outbox, Empty}, call' = call,
           run' = [run EXCEPT !.at = "ended", !.waiter = "none", !.packet = <<>>],
           history' \in {history, Forgotten}
    PROVE  PubInv'
<1>1. PubTypeOK /\ Begun /\ Placed
  BY DEF PubInv
<1>2. run \in Runs
  BY <1>1 DEF PubTypeOK, Runs
<1>3. run' \in Runs /\ run'.packet = <<>> /\ run'.at = "ended"
  BY <1>2, EndedTyped
<1>4. outbox' \in Outboxes
  BY <1>1, EmptyTyped DEF PubTypeOK, Outboxes
<1>5. PubTypeOK'
  BY <1>1, <1>3, <1>4, ForgottenTyped DEF PubTypeOK, Runs, Outboxes
<1>6. ToSet(run'.packet) = {} /\ Len(run'.packet) = 0
  <2>1. <<>> \in Seq(Queued) /\ Len(<<>>) = 0
    BY EmptySeq
  <2>2. ToSet(<<>>) = {}
    BY <2>1, Places
  <2> QED
    BY <1>3, <2>1, <2>2
<1>7. Begun'
  <2>1. room.generation \in Nat
    BY <1>1 DEF PubTypeOK
  <2> QED
    BY <1>1, <1>6, <2>1, EmptyTyped DEF Begun
<1>8. Placed'
  BY <1>3, <1>6 DEF Placed
<1> QED
  BY <1>5, <1>7, <1>8, StoppedInv

\* The connection failed.
LEMMA SendFailsInv ==
    ASSUME PubInv, SendFails
    PROVE  PubInv'
<1>1. PubTypeOK /\ Placed
  BY DEF PubInv
<1>2. /\ run.at = "sending" /\ room' = [room EXCEPT !.stopped = TRUE] /\ outbox' = Empty /\ call' = call
      /\ run' = [run EXCEPT !.at = "ended", !.waiter = "none", !.packet = <<>>]
      /\ history' = Forgotten
  BY DEF SendFails
<1>3. room.session # "none"
  BY <1>1, <1>2 DEF Placed
<1>4. /\ room'.stopped /\ room'.generation = room.generation /\ room'.session = room.session
      /\ room' \in [generation : Nat, stopped : BOOLEAN, session : {"none", "up", "stopping", "stopped"}]
  BY <1>1, <1>2 DEF PubTypeOK
<1> QED
  BY <1>2, <1>3, <1>4, EndsInv

\* The task is aborted.
LEMMA AbortsInv ==
    ASSUME PubInv, Aborts
    PROVE  PubInv'
<1>1. PubTypeOK /\ Placed
  BY DEF PubInv
<1>2. /\ room.session = "stopped" /\ room' = room /\ outbox' = outbox /\ call' = call
      /\ run' = [run EXCEPT !.at = "ended", !.waiter = "none", !.packet = <<>>]
      /\ history' = history
  BY DEF Aborts
<1>3. room.stopped
  BY <1>1, <1>2 DEF Placed
<1>4. /\ room'.stopped /\ room'.generation = room.generation /\ room'.session = room.session
      /\ room' \in [generation : Nat, stopped : BOOLEAN, session : {"none", "up", "stopping", "stopped"}]
  BY <1>1, <1>2, <1>3 DEF PubTypeOK
<1> QED
  BY <1>2, <1>4, EndsInv

\* The packet is sent, or left if it is of a level that is over.
LEMMA SendsInv ==
    ASSUME PubInv, Sends
    PROVE  PubInv'
<1>1. PubTypeOK /\ Begun /\ Placed /\ (~room.stopped => Counted /\ Uncrossed)
  BY DEF PubInv
<1>2. run \in Runs
  BY <1>1 DEF PubTypeOK, Runs
<1>3. PICK to : to = IF run.packet[1].generation = room.generation THEN "sending" ELSE "sent"
  OBVIOUS
<1>4. /\ run.at = "taken" /\ room' = room /\ outbox' = outbox /\ call' = call /\ history' = history
      /\ run' = [run EXCEPT !.at = to]
  BY <1>3 DEF Sends
<1>5. to \in {"sending", "sent"}
  BY <1>3
<1>6. run' \in Runs /\ run'.packet = run.packet /\ run'.at = to
  BY <1>2, <1>4, <1>5 DEF Runs
<1>7. CASE to = "sending"
  BY <1>4, <1>6, <1>7, MovedInv
<1>8. CASE to # "sending"
  <2>1. run.packet \in Seq(Queued) /\ Len(run.packet) = 1
    BY <1>1, <1>2, <1>4 DEF Placed, Runs
  <2>2. ToSet(run.packet) = {run.packet[i] : i \in 1..Len(run.packet)}
    BY <2>1, Places
  <2>3. \A w \in ToSet(run.packet) : w.generation # room.generation
    BY <1>3, <1>8, <2>1, <2>2
  <2>4. PubTypeOK'
    BY <1>1, <1>4, <1>6 DEF PubTypeOK, Runs
  <2>5. Begun' /\ Placed'
    BY <1>1, <1>4, <1>5, <1>6 DEF Begun, Placed
  <2>6. Delivered' /\ (Counted => Counted')
    BY <1>4, <1>6, <2>3 DEF Delivered, Counted
  <2>7. Uncrossed => Uncrossed'
    BY <1>4, <1>6, UncrossedKept
  <2> QED
    BY <1>1, <1>4, <2>4, <2>5, <2>6, <2>7 DEF PubInv
<1> QED
  BY <1>7, <1>8

\* The one packet of a task that has one.
LEMMA OnePacket ==
    ASSUME run.packet \in Seq(Queued), Len(run.packet) = 1
    PROVE  ToSet(run.packet) = {run.packet[1]} /\ run.packet[1] \in Queued
<1>1. ToSet(run.packet) = {run.packet[i] : i \in 1..Len(run.packet)} /\ ToSet(run.packet) \subseteq Queued
  BY Places
<1>2. \A i : i \in 1..Len(run.packet) <=> i = 1
  OBVIOUS
<1>3. ToSet(run.packet) = {run.packet[1]}
  BY <1>1, <1>2
<1> QED
  BY <1>1, <1>3

\* The server has the packet.
LEMMA AcknowledgedInv ==
    ASSUME PubInv, Acknowledged
    PROVE  PubInv'
<1>1. PubTypeOK /\ Begun /\ Placed /\ (~room.stopped => Counted /\ Uncrossed)
  BY DEF PubInv
<1>2. PICK q : q = run.packet[1]
  OBVIOUS
<1>3. PICK sent : sent = {r \in history.sent : Key(r) # Key(q)} \cup {PacketOf(q.who, q.field, q.value)}
  OBVIOUS
<1>4. /\ run.at = "sending" /\ room' = room /\ outbox' = outbox /\ call' = call
      /\ run' = [run EXCEPT !.at = "sent"]
      /\ history' = IF q.generation # room.generation THEN history ELSE [history EXCEPT !.sent = sent]
  BY <1>2, <1>3 DEF Acknowledged
<1>5. run \in Runs
  BY <1>1 DEF PubTypeOK, Runs
<1>6. run' \in Runs /\ run'.packet = run.packet /\ run'.at = "sent"
  BY <1>4, <1>5 DEF Runs
<1>7. ToSet(run.packet) = {q} /\ q \in Queued
  <2>1. run.packet \in Seq(Queued) /\ Len(run.packet) = 1
    BY <1>1, <1>4, <1>5 DEF Placed, Runs
  <2> QED
    BY <1>2, <2>1, OnePacket
<1>8. PacketOf(q.who, q.field, q.value) \in Packet
  BY <1>7 DEF PacketOf, Packet, Queued, Well
<1>9. /\ history'.latest = history.latest /\ history'.native = history.native
      /\ history'.crossed = history.crossed
      /\ history'.sent = IF q.generation # room.generation THEN history.sent ELSE sent
      /\ history' \in [published : Nat, finishes : Nat, latest : SUBSET Packet, sent : SUBSET Packet,
                       native : [Player -> SUBSET Nat], crossed : BOOLEAN]
  <2>1. history \in [published : Nat, finishes : Nat, latest : SUBSET Packet, sent : SUBSET Packet,
                     native : [Player -> SUBSET Nat], crossed : BOOLEAN]
    BY <1>1 DEF PubTypeOK
  <2>2. sent \in SUBSET Packet
    BY <1>3, <1>8, <2>1
  <2> QED
    BY <1>4, <2>1, <2>2
<1>10. PubTypeOK'
  BY <1>1, <1>4, <1>6, <1>9 DEF PubTypeOK, Runs
<1>11. Begun' /\ Placed' /\ (Counted => Counted')
  BY <1>1, <1>4, <1>6 DEF Begun, Placed, Counted
<1>12. Delivered'
  BY <1>3, <1>4, <1>6, <1>7, <1>9 DEF Delivered
<1>13. ASSUME Uncrossed PROVE Uncrossed'
  <2> SUFFICES ASSUME ~history.crossed PROVE Remembered' /\ Undone' /\ \A r \in history.latest : Settled(r)'
    BY <1>9 DEF Uncrossed
  <2>1. Remembered /\ Undone /\ \A r \in history.latest : Settled(r)
    BY <1>13 DEF Uncrossed
  <2>2. Remembered'
    BY <1>4, <1>9, <2>1 DEF Remembered
  <2>3. Undone'
    BY <1>4, <1>9, <2>1 DEF Undone, Outdone
  <2>4. ASSUME NEW r \in history.latest PROVE Settled(r)'
    <3>1. Settled(r)
      BY <2>1
    <3>2. Due(outbox.waiting, r)' = Due(outbox.waiting, r) /\ Due(run.packet, r)' = Due(run.packet, r)
      BY <1>4, <1>6 DEF Due, Key
    <3>3. ASSUME Due(run.packet, r) = {}, r \in history.sent PROVE r \in history'.sent
      <4>1. CASE q.generation # room.generation
        BY <1>9, <3>3, <4>1
      <4>2. CASE q.generation = room.generation
        <5>1. Key(r) # Key(q)
          BY <1>7, <3>3, <4>2 DEF Due
        <5> QED
          BY <1>3, <1>9, <3>3, <4>2, <5>1
      <4> QED
        BY <4>1, <4>2
    <3> QED
      BY <3>1, <3>2, <3>3 DEF Settled
  <2> QED
    BY <2>2, <2>3, <2>4
<1> QED
  BY <1>1, <1>4, <1>10, <1>11, <1>12, <1>13 DEF PubInv

\* The task is done with its packet.
LEMMA CountsInv ==
    ASSUME PubInv, Counts
    PROVE  PubInv'
<1>1. PubTypeOK /\ Begun /\ Placed /\ (~room.stopped => Counted /\ Delivered /\ Uncrossed)
  BY DEF PubInv
<1>2. run \in Runs
  BY <1>1 DEF PubTypeOK, Runs
<1>3. run.at = "sent" /\ room' = room /\ call' = call /\ history' = history
  BY DEF Counts
<1>4. room.session # "none"
  BY <1>1, <1>3 DEF Placed
<1>5. CASE /\ room.stopped /\ outbox' = outbox
           /\ run' = [run EXCEPT !.at = "ended", !.waiter = "none", !.packet = <<>>]
  <2>1. room' \in [generation : Nat, stopped : BOOLEAN, session : {"none", "up", "stopping", "stopped"}]
    BY <1>1, <1>3 DEF PubTypeOK
  <2> QED
    BY <1>3, <1>4, <1>5, <2>1, EndsInv
<1>6. CASE /\ ~room.stopped /\ run' = [Disarmed(run) EXCEPT !.at = "top", !.packet = <<>>]
           /\ outbox' = [outbox EXCEPT !.count = @ - 1]
  <2>1. <<>> \in Seq(Queued) /\ Len(<<>>) = 0
    BY EmptySeq
  <2>2. ToSet(<<>>) = {}
    BY <2>1, Places
  <2>3. Disarmed(run) \in Runs
    BY <1>2 DEF Disarmed, Runs
  <2>4. run' \in Runs /\ run'.packet = <<>> /\ run'.at = "top"
    BY <1>6, <2>1, <2>3 DEF Runs
  <2>5. outbox \in Outboxes
    BY <1>1 DEF PubTypeOK, Outboxes
  <2>6. /\ outbox' \in Outboxes /\ outbox'.waiting = outbox.waiting /\ outbox'.count = outbox.count - 1
        /\ outbox'.generation = outbox.generation /\ outbox'.native = outbox.native
    BY <1>6, <2>5 DEF Outboxes
  <2>7. Len(outbox.waiting) \in Nat /\ outbox.count \in Int /\ Len(run.packet) = 1
        /\ run.packet \in Seq(Queued)
    BY <1>1, <1>2, <1>3, <2>5, LenProperties DEF Placed, Outboxes, Runs
  <2>8. PubTypeOK'
    BY <1>1, <1>3, <2>4, <2>6 DEF PubTypeOK, Runs, Outboxes
  <2>9. ToSet(run'.packet) = {} /\ Len(run'.packet) = 0
    BY <2>1, <2>2, <2>4
  <2>10. Begun'
    BY <1>1, <1>3, <2>6, <2>9 DEF Begun
  <2>11. Placed'
    BY <1>1, <1>3, <1>4, <2>4, <2>9 DEF Placed
  <2>12. Counted'
    <3>1. Counted /\ Capacity \in Nat
      BY <1>1, <1>6, PublicationAssumption
    <3> QED
      BY <2>6, <2>7, <2>9, <3>1 DEF Counted
  <2>13. Delivered'
    BY <2>4 DEF Delivered
  <2>14. Uncrossed'
    <3> SUFFICES ASSUME ~history.crossed
                 PROVE  Remembered' /\ Undone' /\ \A r \in history.latest : Settled(r)'
      BY <1>3 DEF Uncrossed
    <3>1. Remembered /\ Undone /\ \A r \in history.latest : Settled(r)
      BY <1>1, <1>6 DEF Uncrossed
    <3>2. Remembered'
      BY <1>3, <2>6, <3>1 DEF Remembered
    <3>3. Undone'
      BY <1>3, <2>6, <3>1 DEF Undone, Outdone
    <3>4. ASSUME NEW r \in history.latest PROVE Settled(r)'
      <4>1. Settled(r)
        BY <3>1
      <4>2. Due(outbox.waiting, r)' = Due(outbox.waiting, r) /\ Due(run.packet, r)' = {}
        BY <1>3, <2>6, <2>9 DEF Due, Key
      <4>3. ASSUME NEW w \in Due(run.packet, r), w.value = r.value PROVE r \in history.sent
        <5>1. w \in ToSet(run.packet) /\ w.generation = room.generation /\ Key(w) = Key(r)
          BY DEF Due
        <5>2. PacketOf(w.who, w.field, w.value) \in history.sent
          BY <1>1, <1>3, <1>6, <5>1 DEF Delivered
        <5>3. r \in Packet
          BY <1>1 DEF PubTypeOK
        <5>4. r = PacketOf(w.who, w.field, w.value)
          BY <4>3, <5>1, <5>3 DEF Packet, PacketOf, Key
        <5> QED
          BY <5>2, <5>4
      <4>4. Due(outbox.waiting, r) = {} => r \in history.sent
        BY <4>1, <4>3 DEF Settled
      <4> QED
        BY <1>3, <4>1, <4>2, <4>4 DEF Settled
    <3> QED
      BY <3>2, <3>3, <3>4
  <2> QED
    BY <2>8, <2>10, <2>11, <2>12, <2>13, <2>14 DEF PubInv
<1> QED
  BY <1>5, <1>6 DEF Counts

-----------------------------------------------------------------------------
(* The next packet.                                                        *)

\* What is at the front for a level that is over.
LEMMA OverIs ==
    ASSUME NEW waiting \in Seq(Queued)
    PROVE  /\ Over(waiting) \in 0..Len(waiting)
           /\ \A i \in 1..Over(waiting) : waiting[i].generation # room.generation
<1>1. PICK size : size = Len(waiting)
  OBVIOUS
<1>2. size \in Nat
  BY <1>1, LenProperties
<1>3. PICK T : T = {n \in 0..size : n < size => waiting[n + 1].generation = room.generation}
  OBVIOUS
<1>4. size \in T /\ T \subseteq Nat
  BY <1>2, <1>3
<1>5. PICK n \in T : \A m \in T : n <= m
  BY <1>4, LeastNat
<1>6. n \in 0..size /\ (n < size => waiting[n + 1].generation = room.generation)
  BY <1>3
<1>7. ASSUME NEW i \in 1..n PROVE waiting[i].generation # room.generation
  <2>1. PICK j : j = i - 1
    OBVIOUS
  <2>2. j \in 0..size /\ ~(n <= j) /\ j + 1 = i
    BY <1>2, <1>6, <2>1
  <2>3. j \notin T
    BY <1>5, <2>2
  <2>4. ~(j < size => waiting[j + 1].generation = room.generation)
    BY <1>3, <2>2, <2>3
  <2> QED
    BY <2>2, <2>4
<1>8. \E k \in 0..size :
          /\ \A i \in 1..k : waiting[i].generation # room.generation
          /\ k < size => waiting[k + 1].generation = room.generation
  BY <1>6, <1>7
<1>9. PICK over : over = CHOOSE k \in 0..size :
          /\ \A i \in 1..k : waiting[i].generation # room.generation
          /\ k < size => waiting[k + 1].generation = room.generation
  OBVIOUS
<1>10. over \in 0..size /\ \A i \in 1..over : waiting[i].generation # room.generation
  BY <1>8, <1>9, Zenon
<1>11. Over(waiting) = over
  BY <1>1, <1>9 DEF Over
<1> QED
  BY <1>1, <1>10, <1>11

\* What is left once that is dropped.
RestOf(waiting, over) == SubSeq(waiting, over + 1, Len(waiting))

\* Every packet of this level is among it.
LEMMA RestIs ==
    ASSUME NEW waiting \in Seq(Queued), NEW over \in 0..Len(waiting),
           \A i \in 1..over : waiting[i].generation # room.generation,
           NEW rest, rest = RestOf(waiting, over)
    PROVE  /\ rest \in Seq(Queued) /\ Len(rest) = Len(waiting) - over
           /\ ToSet(rest) \subseteq ToSet(waiting)
           /\ \A w \in ToSet(waiting) : w.generation = room.generation => w \in ToSet(rest)
<1>1. PICK size : size = Len(waiting)
  OBVIOUS
<1>2. size \in Nat /\ over \in Nat /\ over <= size
  BY <1>1, LenProperties
<1>3. \A i \in (over + 1)..size : waiting[i] \in Queued
  BY <1>1, <1>2, ElementOfSeq
<1>4. /\ rest \in Seq(Queued)
      /\ Len(rest) = IF over + 1 <= size THEN size - (over + 1) + 1 ELSE 0
      /\ \A i \in 1..(size - (over + 1) + 1) : rest[i] = waiting[over + 1 + i - 1]
  BY <1>1, <1>2, <1>3, SubSeqProperties DEF RestOf
<1>5. Len(rest) = size - over
  BY <1>2, <1>4
<1>6. ToSet(waiting) = {waiting[i] : i \in 1..size}
  BY <1>1, Places
<1>7. ToSet(rest) = {rest[i] : i \in 1..(size - over)}
  BY <1>4, <1>5, Places
<1>8. ASSUME NEW i \in 1..(size - over) PROVE rest[i] \in ToSet(waiting)
  <2>1. PICK j : j = over + 1 + i - 1
    OBVIOUS
  <2>2. j \in 1..size /\ i \in 1..(size - (over + 1) + 1)
    BY <1>2, <2>1
  <2>3. rest[i] = waiting[j]
    BY <1>4, <2>1, <2>2
  <2> QED
    BY <1>6, <2>2, <2>3
<1>9. ASSUME NEW i \in 1..size, waiting[i].generation = room.generation
      PROVE  waiting[i] \in ToSet(rest)
  <2>1. ~(i \in 1..over)
    BY <1>9
  <2>2. PICK j : j = i - over
    OBVIOUS
  <2>3. j \in 1..(size - over) /\ j \in 1..(size - (over + 1) + 1) /\ over + 1 + j - 1 = i
    BY <1>2, <2>1, <2>2
  <2>4. rest[j] = waiting[i]
    BY <1>4, <2>3
  <2> QED
    BY <1>7, <2>3, <2>4
<1> QED
  BY <1>1, <1>4, <1>5, <1>6, <1>7, <1>8, <1>9

\* A sequence is its head and its tail.
LEMMA HeadAndTail ==
    ASSUME NEW S, NEW s \in Seq(S), s # <<>>
    PROVE  /\ Head(s) \in S /\ Tail(s) \in Seq(S) /\ Len(Tail(s)) = Len(s) - 1
           /\ ToSet(s) = {Head(s)} \cup ToSet(Tail(s))
<1>1. /\ Head(s) \in S /\ Tail(s) \in Seq(S) /\ Len(Tail(s)) = Len(s) - 1
      /\ \A i \in 1..Len(Tail(s)) : Tail(s)[i] = s[i + 1]
  BY HeadTailProperties
<1>2. PICK h, t, n : h = Head(s) /\ t = Tail(s) /\ n = Len(s)
  OBVIOUS
<1>3. n \in Nat /\ n > 0 /\ h = s[1]
  BY <1>2, EmptySeq, LenProperties
<1>4. t \in Seq(S) /\ Len(t) = n - 1 /\ \A i \in 1..(n - 1) : t[i] = s[i + 1]
  BY <1>1, <1>2
<1>5. ToSet(s) = {s[i] : i \in 1..n}
  BY <1>2, Places
<1>6. ToSet(t) = {t[i] : i \in 1..(n - 1)}
  BY <1>4, Places
<1>7. ASSUME NEW i \in 1..n PROVE s[i] = h \/ s[i] \in ToSet(t)
  <2>1. CASE i = 1
    BY <1>3, <2>1
  <2>2. CASE i # 1
    <3>1. PICK j : j = i - 1
      OBVIOUS
    <3>2. j \in 1..(n - 1) /\ j + 1 = i
      BY <1>3, <2>2, <3>1
    <3> QED
      BY <1>4, <1>6, <3>2
  <2> QED
    BY <2>1, <2>2
<1>8. ASSUME NEW i \in 1..(n - 1) PROVE t[i] \in ToSet(s)
  <2>1. PICK j : j = i + 1
    OBVIOUS
  <2>2. j \in 1..n /\ t[i] = s[j]
    BY <1>3, <1>4, <2>1
  <2> QED
    BY <1>5, <2>2
<1>9. h \in ToSet(s)
  BY <1>3, <1>5
<1> QED
  BY <1>1, <1>2, <1>5, <1>6, <1>7, <1>8, <1>9

\* What waits is split into what waits on and what is taken.
LEMMA SplitInv ==
    ASSUME PubInv, run.at = "take", room' = room, call' = call, history' = history,
           run' \in Runs, outbox' \in Outboxes,
           outbox'.generation = outbox.generation, outbox'.native = outbox.native,
           outbox'.count - Len(outbox'.waiting) - Len(run'.packet) = outbox.count - Len(outbox.waiting),
           outbox'.count <= outbox.count,
           Len(run'.packet) = IF run'.at = "taken" THEN 1 ELSE 0, run'.at \in {"taken", "wait"},
           ToSet(outbox'.waiting) \cup ToSet(run'.packet) \subseteq ToSet(outbox.waiting),
           \A w \in ToSet(outbox.waiting) : w.generation = room.generation =>
               w \in ToSet(outbox'.waiting) \cup ToSet(run'.packet)
    PROVE  PubInv'
<1>1. PubTypeOK /\ Begun /\ Placed /\ (~room.stopped => Counted /\ Uncrossed)
  BY DEF PubInv
<1>2. run \in Runs /\ outbox \in Outboxes
  BY <1>1 DEF PubTypeOK, Runs, Outboxes
<1>3. PubTypeOK'
  BY <1>1 DEF PubTypeOK, Runs, Outboxes
<1>4. Begun'
  BY <1>1 DEF Begun
<1>5. Placed'
  BY <1>1 DEF Placed
<1>6. run.packet \in Seq(Queued) /\ Len(run.packet) = 0
  BY <1>1, <1>2 DEF Placed, Runs
<1>7. ToSet(run.packet) = {}
  <2>1. run.packet = <<>>
    BY <1>6, EmptySeq
  <2> QED
    BY <1>6, <2>1, Places
<1>8. Delivered'
  BY DEF Delivered
<1>9. ASSUME Counted PROVE Counted'
  <2>1. outbox.count \in Int /\ outbox'.count \in Int /\ Capacity \in Nat
        /\ outbox.waiting \in Seq(Queued) /\ outbox'.waiting \in Seq(Queued) /\ run'.packet \in Seq(Queued)
    BY <1>2, PublicationAssumption DEF Outboxes, Runs
  <2>2. Len(outbox.waiting) \in Nat /\ Len(outbox'.waiting) \in Nat /\ Len(run'.packet) \in Nat
    BY <2>1, LenProperties
  <2>3. outbox.count = Len(outbox.waiting) + 0 /\ outbox.count <= Capacity
    BY <1>6, <1>9 DEF Counted
  <2>4. outbox'.count = Len(outbox'.waiting) + Len(run'.packet) /\ outbox'.count <= Capacity
    <3>1. PICK a, b, k, m, n : /\ a = outbox.count /\ b = Len(outbox.waiting) /\ k = outbox'.count
                               /\ m = Len(outbox'.waiting) /\ n = Len(run'.packet)
      OBVIOUS
    <3>2. k - m - n = a - b /\ k <= a
      BY <3>1
    <3>4. /\ a \in Int /\ b \in Nat /\ k \in Int /\ m \in Nat /\ n \in Nat /\ Capacity \in Nat
          /\ a = b + 0 /\ a <= Capacity
      BY <2>1, <2>2, <2>3, <3>1
    <3>3. k = m + n /\ k <= Capacity
      BY <3>2, <3>4
    <3> QED
      BY <3>1, <3>3
  <2> QED
    BY <2>4 DEF Counted
<1>10. ASSUME Uncrossed PROVE Uncrossed'
  <2> SUFFICES ASSUME ~history.crossed
               PROVE  Remembered' /\ Undone' /\ \A r \in history.latest : Settled(r)'
    BY DEF Uncrossed
  <2>1. Remembered /\ Undone /\ \A r \in history.latest : Settled(r)
    BY <1>10 DEF Uncrossed
  <2>2. Remembered'
    BY <2>1 DEF Remembered
  <2>3. Undone'
    BY <2>1 DEF Undone, Outdone
  <2>4. ASSUME NEW r \in history.latest PROVE Settled(r)'
    <3>1. Settled(r)
      BY <2>1
    <3>2. Due(run.packet, r) = {}
      BY <1>7 DEF Due
    <3>3. Due(outbox.waiting, r) = Due(outbox.waiting, r)' \cup Due(run.packet, r)'
      BY DEF Due, Key
    <3> QED
      BY <3>1, <3>2, <3>3 DEF Settled
  <2> QED
    BY <2>2, <2>3, <2>4
<1> QED
  BY <1>1, <1>3, <1>4, <1>5, <1>8, <1>9, <1>10 DEF PubInv

\* The queue with other packets and another count.
LEMMA RequeuedTyped ==
    ASSUME outbox \in Outboxes, NEW waiting \in Seq(Queued), NEW n \in Int,
           outbox' = [outbox EXCEPT !.waiting = waiting, !.count = n]
    PROVE  /\ outbox' \in Outboxes /\ outbox'.waiting = waiting /\ outbox'.count = n
           /\ outbox'.generation = outbox.generation /\ outbox'.native = outbox.native
  BY DEF Outboxes

\* The next packet is taken.
LEMMA TakesInv ==
    ASSUME PubInv, Takes
    PROVE  PubInv'
<1>1. run \in Runs /\ outbox \in Outboxes
  BY DEF PubInv, PubTypeOK, Runs, Outboxes
<1>2. PICK over : over = Over(outbox.waiting)
  OBVIOUS
<1>3. PICK rest : rest = RestOf(outbox.waiting, over)
  OBVIOUS
<1>12. PICK h, t, left : h = Head(rest) /\ t = Tail(rest) /\ left = outbox.count - over
  OBVIOUS
<1>4. /\ run.at = "take" /\ room' = room /\ call' = call /\ history' = history
      /\ \/ /\ rest = <<>>
            /\ run' = [run EXCEPT !.at = "wait"]
            /\ outbox' = [outbox EXCEPT !.waiting = rest, !.count = left]
         \/ /\ rest # <<>>
            /\ run' = [run EXCEPT !.at = "taken", !.packet = <<h>>]
            /\ outbox' = [outbox EXCEPT !.waiting = t, !.count = left]
  BY <1>2, <1>3, <1>12 DEF Takes, RestOf
<1>5. outbox.waiting \in Seq(Queued) /\ outbox.count \in Int
  BY <1>1 DEF Outboxes
<1>6. over \in 0..Len(outbox.waiting) /\ \A i \in 1..over : outbox.waiting[i].generation # room.generation
  BY <1>2, <1>5, OverIs
<1>7. /\ rest \in Seq(Queued) /\ Len(rest) = Len(outbox.waiting) - over
      /\ ToSet(rest) \subseteq ToSet(outbox.waiting)
      /\ \A w \in ToSet(outbox.waiting) : w.generation = room.generation => w \in ToSet(rest)
  BY <1>3, <1>5, <1>6, RestIs
<1>8. Len(outbox.waiting) \in Nat /\ over \in Nat
  BY <1>5, <1>6, LenProperties
<1>13. left \in Int
  BY <1>5, <1>8, <1>12
<1>9. run.packet \in Seq(Queued) /\ Len(run.packet) = 0
  <2>1. Placed /\ run.at = "take"
    BY <1>4 DEF PubInv
  <2> QED
    BY <1>1, <2>1 DEF Placed, Runs
<1>10. CASE /\ rest = <<>> /\ run' = [run EXCEPT !.at = "wait"]
            /\ outbox' = [outbox EXCEPT !.waiting = rest, !.count = left]
  <2>1. run' \in Runs /\ run'.at = "wait" /\ run'.packet = run.packet
    BY <1>1, <1>10 DEF Runs
  <2>2. /\ outbox' \in Outboxes /\ outbox'.waiting = rest /\ outbox'.count = outbox.count - over
        /\ outbox'.generation = outbox.generation /\ outbox'.native = outbox.native
    BY <1>1, <1>7, <1>10, <1>12, <1>13, RequeuedTyped
  <2>3. ToSet(run'.packet) = {} /\ Len(run'.packet) = 0
    <3>1. run.packet = <<>>
      BY <1>9, EmptySeq
    <3> QED
      BY <1>9, <2>1, <3>1, Places
  <2>4. /\ outbox'.count - Len(outbox'.waiting) - Len(run'.packet) = outbox.count - Len(outbox.waiting)
        /\ outbox'.count <= outbox.count
    BY <1>5, <1>7, <1>8, <2>2, <2>3
  <2>5. /\ ToSet(outbox'.waiting) \cup ToSet(run'.packet) \subseteq ToSet(outbox.waiting)
        /\ \A w \in ToSet(outbox.waiting) : w.generation = room.generation =>
               w \in ToSet(outbox'.waiting) \cup ToSet(run'.packet)
    BY <1>7, <2>2, <2>3
  <2> QED
    BY <1>4, <2>1, <2>2, <2>3, <2>4, <2>5, SplitInv
<1>11. CASE /\ rest # <<>> /\ run' = [run EXCEPT !.at = "taken", !.packet = <<h>>]
            /\ outbox' = [outbox EXCEPT !.waiting = t, !.count = left]
  <2>1. h \in Queued /\ t \in Seq(Queued) /\ Len(t) = Len(rest) - 1 /\ ToSet(rest) = {h} \cup ToSet(t)
    BY <1>7, <1>11, <1>12, HeadAndTail
  <2>3. <<h>> \in Seq(Queued) /\ Len(<<h>>) = 1 /\ <<h>>[1] = h
    BY <2>1
  <2>4. run' \in Runs /\ run'.at = "taken" /\ run'.packet = <<h>>
    BY <1>1, <1>11, <2>3 DEF Runs
  <2>5. /\ outbox' \in Outboxes /\ outbox'.waiting = t /\ outbox'.count = outbox.count - over
        /\ outbox'.generation = outbox.generation /\ outbox'.native = outbox.native
    BY <1>1, <1>11, <1>12, <1>13, <2>1, RequeuedTyped
  <2>6. ToSet(run'.packet) = {h} /\ Len(run'.packet) = 1
    <3>1. ToSet(<<h>>) = {<<h>>[i] : i \in 1..Len(<<h>>)}
      BY <2>3, Places
    <3>2. \A i : i \in 1..Len(<<h>>) <=> i = 1
      BY <2>3
    <3>3. ToSet(<<h>>) = {h}
      BY <2>3, <3>1, <3>2
    <3> QED
      BY <2>3, <2>4, <3>3
  <2>7. /\ outbox'.count - Len(outbox'.waiting) - Len(run'.packet) = outbox.count - Len(outbox.waiting)
        /\ outbox'.count <= outbox.count
    BY <1>5, <1>7, <1>8, <2>1, <2>5, <2>6
  <2>8. /\ ToSet(outbox'.waiting) \cup ToSet(run'.packet) \subseteq ToSet(outbox.waiting)
        /\ \A w \in ToSet(outbox.waiting) : w.generation = room.generation =>
               w \in ToSet(outbox'.waiting) \cup ToSet(run'.packet)
    BY <1>7, <2>1, <2>5, <2>6
  <2> QED
    BY <1>4, <2>4, <2>5, <2>6, <2>7, <2>8, SplitInv
<1> QED
  BY <1>4, <1>10, <1>11

-----------------------------------------------------------------------------
(* A call of enqueue.                                                      *)

\* What is asked for once a batch of this level is queued.
LEMMA AskedIs ==
    ASSUME NEW latest, NEW b, NEW native
    PROVE  Asked(latest, b.packets, native) =
               {q \in latest : Key(q) \notin {Key(r) : r \in Fresh(b, native)}} \cup Fresh(b, native)
BY DEF Asked, Fresh

\* A tagged packet is the packet.
LEMMA TagIs ==
    ASSUME NEW q \in Packet, NEW b
    PROVE  /\ Tag(q, b).generation = b.generation /\ Tag(q, b).value = q.value
           /\ Key(Tag(q, b)) = Key(q)
           /\ \A native : Outdone(Tag(q, b), native) <=> Outdone(q, native)
BY DEF Tag, Key, Outdone

\* What a batch of this level changes of what is due.
LEMMA EnqueueSettled ==
    ASSUME PubTypeOK, NEW b, IsBatch(b), b.generation = room.generation, room' = room,
           \A x, y \in ToSet(b.packets) : Key(x) = Key(y) => x = y,
           NEW fresh, fresh = Fresh(b, history.native),
           ToSet(outbox'.waiting) = Kept(outbox.waiting, b, KeysOf(fresh)) \cup {Tag(q, b) : q \in fresh},
           run'.packet = run.packet, history'.sent = history.sent,
           history'.latest = Asked(history.latest, b.packets, history.native),
           \A q \in history.latest : Settled(q)
    PROVE  \A q \in history'.latest : Settled(q)'
<1>1. fresh \subseteq ToSet(b.packets) /\ fresh \subseteq Packet
  <2>1. b.packets \in Seq(Packet)
    BY DEF IsBatch
  <2>2. ToSet(b.packets) \subseteq Packet
    BY <2>1, Places
  <2> QED
    BY <2>2 DEF Fresh
<1>2. ToSet(outbox.waiting) \subseteq Queued
  <2>1. outbox.waiting \in Seq(Queued)
    BY DEF PubTypeOK
  <2> QED
    BY <2>1, Places
<1>3. history'.latest = {q \in history.latest : Key(q) \notin {Key(r) : r \in fresh}} \cup fresh
  <2>1. Asked(history.latest, b.packets, history.native) =
            {q \in history.latest : Key(q) \notin {Key(r) : r \in Fresh(b, history.native)}}
                \cup Fresh(b, history.native)
    BY Zenon DEF Asked, Fresh
  <2> QED
    BY <2>1
<1>4. ASSUME NEW q \in fresh PROVE Settled(q)'
  <2>1. Tag(q, b) \in Due(outbox.waiting, q)'
    BY <1>1, <1>4, TagIs DEF Due, Key
  <2>2. ASSUME NEW w \in Kept(outbox.waiting, b, KeysOf(fresh)), Key(w) = Key(q) PROVE w.value = q.value
    <3>1. w \in Queued /\ Key(w) \notin KeysOf(fresh) /\ q \in Packet
      BY <1>1, <1>2 DEF Kept
    <3>2. q.field = "chat"
      BY <2>2, <3>1 DEF KeysOf
    <3>3. w.who = q.who /\ w.field = q.field
      BY <2>2 DEF Key
    <3> QED
      BY <3>1, <3>2, <3>3 DEF Packet, Queued, Well
  <2>3. ASSUME NEW r \in fresh, Key(Tag(r, b)) = Key(q) PROVE Tag(r, b).value = q.value
    <3>1. Key(r) = Key(q)
      BY <1>1, <2>3, TagIs
    <3>2. r = q
      BY <1>1, <3>1
    <3> QED
      BY <1>1, <3>2, TagIs
  <2>4. \A w \in Due(outbox.waiting, q)' : w.value = q.value
    BY <2>2, <2>3 DEF Due, Key
  <2> QED
    BY <2>1, <2>4 DEF Settled
<1>5. ASSUME NEW q \in history.latest, Key(q) \notin {Key(r) : r \in fresh} PROVE Settled(q)'
  <2>1. Settled(q)
    OBVIOUS
  <2>2. ASSUME NEW w \in ToSet(outbox.waiting), w.generation = room.generation, Key(w) = Key(q)
        PROVE  w \in ToSet(outbox'.waiting)
    <3>1. Key(w) \notin KeysOf(fresh)
      BY <1>5, <2>2 DEF KeysOf
    <3> QED
      BY <2>2, <3>1 DEF Kept
  <2>3. ASSUME NEW w \in ToSet(outbox'.waiting), Key(w) = Key(q) PROVE w \in ToSet(outbox.waiting)
    <3>1. CASE w \in Kept(outbox.waiting, b, KeysOf(fresh))
      BY <3>1 DEF Kept
    <3>2. CASE w \in {Tag(r, b) : r \in fresh}
      <4>1. PICK r \in fresh : w = Tag(r, b)
        BY <3>2
      <4>2. Key(r) = Key(q)
        BY <1>1, <2>3, <4>1, TagIs
      <4> QED
        BY <1>5, <4>2
    <3> QED
      BY <3>1, <3>2
  <2>4. Due(outbox.waiting, q)' = Due(outbox.waiting, q) /\ Due(run.packet, q)' = Due(run.packet, q)
    BY <2>2, <2>3 DEF Due, Key
  <2> QED
    BY <2>1, <2>4 DEF Settled
<1> QED
  BY <1>3, <1>4, <1>5

\* A batch of this level keeps what is promised.
LEMMA EnqueueUncrossed ==
    ASSUME PubTypeOK, NEW b, IsBatch(b), b.generation = room.generation, room' = room,
           \A x, y \in ToSet(b.packets) : Key(x) = Key(y) => x = y,
           outbox' = Enqueued(outbox, b),
           run'.packet = run.packet, history'.sent = history.sent, history'.native = history.native,
           history'.crossed = history.crossed,
           history'.latest = Asked(history.latest, b.packets, history.native),
           Uncrossed
    PROVE  Uncrossed'
<1> SUFFICES ASSUME ~history.crossed PROVE Remembered' /\ Undone' /\ \A q \in history'.latest : Settled(q)'
  BY DEF Uncrossed
<1>1. Remembered /\ Undone /\ \A q \in history.latest : Settled(q)
  BY DEF Uncrossed
<1>2. Going(outbox, b) = history.native
  BY <1>1 DEF Remembered, Going
<1>3. PICK fresh : fresh = Fresh(b, history.native)
  OBVIOUS
<1>4. /\ outbox'.generation = room.generation /\ outbox'.native = history.native
      /\ ToSet(outbox'.waiting) = Kept(outbox.waiting, b, KeysOf(fresh)) \cup {Tag(q, b) : q \in fresh}
  <2>1. outbox \in Outboxes
    BY DEF PubTypeOK, Outboxes
  <2> QED
    BY <1>2, <1>3, <2>1, EnqueuedElements
<1>5. Remembered'
  BY <1>4 DEF Remembered
<1>6. Undone'
  <2> SUFFICES ASSUME NEW w \in ToSet(outbox'.waiting), w.generation = room.generation
               PROVE  ~Outdone(w, history.native)
    BY DEF Undone, Outdone
  <2>1. CASE w \in Kept(outbox.waiting, b, KeysOf(fresh))
    BY <1>1, <2>1 DEF Undone, Kept
  <2>2. CASE w \in {Tag(r, b) : r \in fresh}
    <3>1. PICK r \in fresh : w = Tag(r, b)
      BY <2>2
    <3>2. r \in ToSet(b.packets) /\ ~Outdone(r, history.native)
      BY <1>3 DEF Fresh
    <3>3. r \in Packet
      <4>1. b.packets \in Seq(Packet)
        BY DEF IsBatch
      <4> QED
        BY <3>2, <4>1, Places
    <3> QED
      BY <3>1, <3>2, <3>3, TagIs
  <2> QED
    BY <1>4, <2>1, <2>2
<1>7. \A q \in history'.latest : Settled(q)'
  BY <1>1, <1>3, <1>4, EnqueueSettled
<1> QED
  BY <1>5, <1>6, <1>7

\* A batch of a level that is over changes nothing of this level, unless something
\* of this level is known already.
LEMMA OldUncrossed ==
    ASSUME PubTypeOK, NEW b, IsBatch(b), b.generation # room.generation, room' = room,
           outbox' = Enqueued(outbox, b),
           run'.packet = run.packet, history'.sent = history.sent, history'.native = history.native,
           history'.crossed = (history.crossed \/ Known(outbox)),
           history'.latest = history.latest,
           Uncrossed
    PROVE  Uncrossed'
<1> SUFFICES ASSUME ~history.crossed, ~Known(outbox)
             PROVE  Remembered' /\ Undone' /\ \A q \in history.latest : Settled(q)'
  BY DEF Uncrossed
<1>1. Remembered /\ Undone /\ \A q \in history.latest : Settled(q)
  BY DEF Uncrossed
<1>2. /\ outbox.generation # room.generation
      /\ \A q \in ToSet(outbox.waiting) : q.generation # room.generation
  BY DEF Known
<1>3. PICK fresh : fresh = Fresh(b, Going(outbox, b))
  OBVIOUS
<1>4. /\ outbox'.generation = b.generation
      /\ ToSet(outbox'.waiting) = Kept(outbox.waiting, b, KeysOf(fresh)) \cup {Tag(q, b) : q \in fresh}
  <2>1. outbox \in Outboxes
    BY DEF PubTypeOK, Outboxes
  <2> QED
    BY <1>3, <2>1, EnqueuedElements
<1>5. \A q \in ToSet(outbox'.waiting) : q.generation # room.generation
  BY <1>4 DEF Kept, Tag
<1>6. Remembered'
  BY <1>1, <1>2, <1>4 DEF Remembered
<1>7. Undone'
  BY <1>5 DEF Undone
<1>8. ASSUME NEW q \in history.latest PROVE Settled(q)'
  <2>1. Settled(q)
    BY <1>1
  <2>2. Due(outbox.waiting, q) = {} /\ Due(outbox.waiting, q)' = {}
        /\ Due(run.packet, q)' = Due(run.packet, q)
    BY <1>2, <1>5 DEF Due, Key
  <2> QED
    BY <2>1, <2>2 DEF Settled
<1> QED
  BY <1>6, <1>7, <1>8

\* A notification touches no packet.
LEMMA NotifyTyped ==
    ASSUME run \in Runs
    PROVE  /\ NotifyOne(run) \in Runs /\ NotifyOne(run).at = run.at /\ NotifyOne(run).packet = run.packet
           /\ NotifyWaiters(run) \in Runs /\ NotifyWaiters(run).at = run.at
           /\ NotifyWaiters(run).packet = run.packet
  BY DEF NotifyOne, NotifyWaiters, Runs

Rooms == [generation : Nat, stopped : BOOLEAN, session : {"none", "up", "stopping", "stopped"}]
Histories == [published : Nat, finishes : Nat, latest : SUBSET Packet, sent : SUBSET Packet,
              native : [Player -> SUBSET Nat], crossed : BOOLEAN]

\* A call whose batch the queue has room for.
LEMMA EnqueueFits ==
    ASSUME PubInv, NEW c \in Publishing, call[c] # NoCall, ~room.stopped,
           call' = [call EXCEPT ![c] = NoCall], room' = room,
           NEW b, IsBatch(b), b.generation = call[c],
           \A x, y \in ToSet(b.packets) : Key(x) = Key(y) => x = y,
           outbox' = Enqueued(outbox, b), outbox'.count <= Capacity, run' = NotifyOne(run),
           history' = IF b.generation = room.generation
                      THEN [history EXCEPT !.published = @ + 1,
                                           !.latest = Asked(@, b.packets, history.native)]
                      ELSE [history EXCEPT !.published = @ + 1, !.crossed = @ \/ Known(outbox)]
    PROVE  PubInv'
<1>1. PubTypeOK /\ Begun /\ Placed /\ Counted /\ Delivered /\ Uncrossed
  BY DEF PubInv
<1>2. room \in Rooms /\ outbox \in Outboxes /\ run \in Runs /\ history \in Histories
      /\ call \in [Publishing -> Nat \cup {NoCall}]
  BY <1>1 DEF PubTypeOK, Rooms, Outboxes, Runs, Histories
<1>3. run' \in Runs /\ run'.at = run.at /\ run'.packet = run.packet
  BY <1>2, NotifyTyped
<1>4. PICK fresh : fresh = Fresh(b, Going(outbox, b))
  OBVIOUS
<1>5. /\ outbox' \in Outboxes /\ outbox'.generation = b.generation
      /\ ToSet(outbox'.waiting) = Kept(outbox.waiting, b, KeysOf(fresh)) \cup {Tag(q, b) : q \in fresh}
      /\ outbox'.count - Len(outbox'.waiting) = outbox.count - Len(outbox.waiting)
  BY <1>2, <1>4, EnqueuedElements
<1>6. PICK asked, known : asked = Asked(history.latest, b.packets, history.native) /\ known = Known(outbox)
  OBVIOUS
<1>7. asked \in SUBSET Packet
  <2>1. asked = {q \in history.latest : Key(q) \notin {Key(r) : r \in Fresh(b, history.native)}}
                    \cup Fresh(b, history.native)
    BY <1>6, AskedIs
  <2>2. b.packets \in Seq(Packet)
    BY DEF IsBatch
  <2>3. ToSet(b.packets) \subseteq Packet
    BY <2>2, Places
  <2> QED
    BY <1>2, <2>1, <2>3 DEF Fresh, Histories
<1>8. /\ history' \in Histories /\ history'.sent = history.sent /\ history'.native = history.native
      /\ b.generation = room.generation =>
             history'.crossed = history.crossed /\ history'.latest = asked
      /\ b.generation # room.generation =>
             history'.crossed = (history.crossed \/ Known(outbox)) /\ history'.latest = history.latest
  <2>1. history.crossed \in BOOLEAN /\ history.published \in Nat
    BY <1>2 DEF Histories
  <2>2. PICK crossed : crossed = (history.crossed \/ Known(outbox))
    OBVIOUS
  <2>3. crossed \in BOOLEAN
    BY <2>1, <2>2
  <2>4. PICK n : n = history.published + 1
    OBVIOUS
  <2>5. n \in Nat
    BY <2>1, <2>4
  <2>6. history' = IF b.generation = room.generation
                   THEN [history EXCEPT !.published = n, !.latest = asked]
                   ELSE [history EXCEPT !.published = n, !.crossed = crossed]
    BY <1>6, <2>2, <2>4
  <2>7. CASE b.generation = room.generation
    BY <1>2, <1>7, <2>5, <2>6, <2>7 DEF Histories
  <2>8. CASE b.generation # room.generation
    <3>1. /\ history' \in Histories /\ history'.sent = history.sent /\ history'.native = history.native
          /\ history'.crossed = crossed /\ history'.latest = history.latest
      BY <1>2, <2>3, <2>5, <2>6, <2>8 DEF Histories
    <3> QED
      BY <2>2, <2>8, <3>1
  <2> QED
    BY <2>7, <2>8
<1>9. PubTypeOK'
  BY <1>2, <1>3, <1>5, <1>8 DEF PubTypeOK, Rooms, Outboxes, Runs, Histories
<1>10. b.generation <= room.generation
  BY <1>1 DEF Begun
<1>11. Begun'
  <2>1. \A q \in ToSet(outbox'.waiting) : q.generation = b.generation
    BY <1>5 DEF Kept, Tag
  <2>2. \A d \in Publishing : call'[d] # NoCall => call'[d] <= room.generation
    BY <1>1, <1>2 DEF Begun
  <2> QED
    BY <1>1, <1>3, <1>5, <1>10, <2>1, <2>2 DEF Begun
<1>12. Placed' /\ Delivered'
  BY <1>1, <1>3, <1>8 DEF Placed, Delivered
<1>13. Counted'
  <2>1. PICK k, n, kk, nn, m : /\ k = outbox.count /\ n = Len(outbox.waiting) /\ kk = outbox'.count
                               /\ nn = Len(outbox'.waiting) /\ m = Len(run.packet)
    OBVIOUS
  <2>2. k \in Int /\ kk \in Int /\ n \in Nat /\ nn \in Nat /\ m \in Nat
    <3>1. outbox.waiting \in Seq(Queued) /\ outbox'.waiting \in Seq(Queued) /\ run.packet \in Seq(Queued)
          /\ outbox.count \in Int /\ outbox'.count \in Int
      BY <1>2, <1>5 DEF Outboxes, Runs
    <3> QED
      BY <2>1, <3>1, LenProperties
  <2>3. k = n + m /\ kk - nn = k - n
    BY <1>1, <1>5, <2>1 DEF Counted
  <2>4. kk = nn + m
    BY <2>2, <2>3
  <2> QED
    BY <1>3, <2>1, <2>4 DEF Counted
<1>14. Uncrossed'
  <2>1. CASE b.generation = room.generation
    BY <1>1, <1>3, <1>6, <1>8, <2>1, EnqueueUncrossed
  <2>2. CASE b.generation # room.generation
    BY <1>1, <1>3, <1>8, <2>2, OldUncrossed
  <2> QED
    BY <2>1, <2>2
<1> QED
  BY <1>9, <1>11, <1>12, <1>13, <1>14 DEF PubInv

\* A call of enqueue has the lock.
LEMMA EnqueueInv ==
    ASSUME PubInv, NEW c \in Publishing, Enqueue(c)
    PROVE  PubInv'
<1>1. PubTypeOK /\ Begun /\ Placed
  BY DEF PubInv
<1>2. room \in Rooms /\ outbox \in Outboxes /\ run \in Runs /\ history \in Histories
      /\ call \in [Publishing -> Nat \cup {NoCall}]
  BY <1>1 DEF PubTypeOK, Rooms, Outboxes, Runs, Histories
<1>3. call[c] # NoCall /\ ~room.stopped /\ call' = [call EXCEPT ![c] = NoCall]
  BY DEF Enqueue
<1>4. PICK publication \in Publications(history.published + 1) :
          LET b == [generation |-> call[c], standings |-> publication.standings,
                    packets |-> publication.packets]
              after == Enqueued(outbox, b)
          IN \/ /\ after.count <= Capacity
                /\ outbox' = after
                /\ run' = NotifyOne(run)
                /\ history' =
                       IF call[c] = room.generation
                       THEN [history EXCEPT !.published = @ + 1,
                                            !.latest = Asked(@, b.packets, history.native)]
                       ELSE [history EXCEPT !.published = @ + 1,
                                            !.crossed = @ \/ Known(outbox)]
                /\ UNCHANGED room
             \/ /\ after.count > Capacity
                /\ room' = [room EXCEPT !.stopped = TRUE]
                /\ outbox' = Empty
                /\ run' = NotifyWaiters(run)
                /\ history' = [Forgotten EXCEPT !.published = @ + 1]
  BY DEF Enqueue
<1>5. PICK b : b = [generation |-> call[c], standings |-> publication.standings,
                    packets |-> publication.packets]
  OBVIOUS
<1>6. b.generation = call[c] /\ b.standings = publication.standings /\ b.packets = publication.packets
  BY <1>5
<1>7. /\ publication.standings \in BOOLEAN /\ publication.packets \in Seq(Packet)
      /\ \A x, y \in ToSet(publication.packets) : Key(x) = Key(y) => x = y
  <2>1. history.published + 1 \in Nat
    BY <1>2 DEF Histories
  <2> QED
    BY <2>1, PublicationTyped
<1>8. IsBatch(b)
  BY <1>2, <1>3, <1>6, <1>7 DEF IsBatch
<1>9. PICK after : after = Enqueued(outbox, b)
  OBVIOUS
<1>10. \/ /\ after.count <= Capacity /\ outbox' = after /\ run' = NotifyOne(run) /\ room' = room
          /\ history' =
                 IF call[c] = room.generation
                 THEN [history EXCEPT !.published = @ + 1,
                                      !.latest = Asked(@, b.packets, history.native)]
                 ELSE [history EXCEPT !.published = @ + 1, !.crossed = @ \/ Known(outbox)]
       \/ /\ room' = [room EXCEPT !.stopped = TRUE] /\ outbox' = Empty
          /\ run' = NotifyWaiters(run) /\ history' = [Forgotten EXCEPT !.published = @ + 1]
  BY <1>4, <1>5, <1>9, Zenon
<1>11. CASE /\ after.count <= Capacity /\ outbox' = after /\ run' = NotifyOne(run) /\ room' = room
            /\ history' =
                   IF call[c] = room.generation
                   THEN [history EXCEPT !.published = @ + 1,
                                        !.latest = Asked(@, b.packets, history.native)]
                   ELSE [history EXCEPT !.published = @ + 1, !.crossed = @ \/ Known(outbox)]
  BY <1>3, <1>6, <1>7, <1>8, <1>9, <1>11, EnqueueFits
<1>12. CASE /\ room' = [room EXCEPT !.stopped = TRUE] /\ outbox' = Empty
            /\ run' = NotifyWaiters(run) /\ history' = [Forgotten EXCEPT !.published = @ + 1]
  <2>1. Forgotten \in Histories
    BY <1>1, ForgottenTyped DEF Histories
  <2>2. history' \in Histories
    BY <1>12, <2>1 DEF Histories
  <2>3. /\ room' \in Rooms /\ room'.stopped /\ room'.generation = room.generation
        /\ room'.session = room.session
    BY <1>2, <1>12 DEF Rooms
  <2>4. run' \in Runs /\ run'.at = run.at /\ run'.packet = run.packet
    BY <1>2, <1>12, NotifyTyped
  <2>5. PubTypeOK'
    BY <1>2, <1>3, <1>12, <2>2, <2>3, <2>4, EmptyTyped DEF PubTypeOK, Rooms, Outboxes, Runs, Histories
  <2>6. Begun'
    <3>1. room.generation \in Nat
      BY <1>2 DEF Rooms
    <3>2. \A d \in Publishing : call'[d] # NoCall => call'[d] <= room.generation
      BY <1>1, <1>2, <1>3 DEF Begun
    <3> QED
      BY <1>1, <1>12, <2>3, <2>4, <3>1, <3>2, EmptyTyped DEF Begun
  <2>7. Placed'
    BY <1>1, <2>3, <2>4 DEF Placed
  <2> QED
    BY <2>3, <2>5, <2>6, <2>7, StoppedInv
<1> QED
  BY <1>10, <1>11, <1>12

-----------------------------------------------------------------------------
(* A finish that the server has measured.                                  *)

\* Packets of one key and one value are outdone together.
LEMMA OutdoneTogether ==
    ASSUME NEW q, NEW w, Key(w) = Key(q), w.value = q.value, NEW native
    PROVE  Outdone(w, native) <=> Outdone(q, native)
BY DEF Key, Outdone

\* What waits on: all of it but the times of p that are outdone.
LeftSet(waiting, p, native) == {q \in ToSet(waiting) : q.who # p \/ ~Outdone(q, native)}

\* A finish takes the times it outdoes from the queue, and from what is asked for.
LEMMA FinishUncrossed ==
    ASSUME PubTypeOK, room' = room, NEW p \in Player, NEW t \in Nat, NEW players,
           NEW known, known = IF outbox.generation = room.generation THEN outbox.native ELSE NoTimes,
           NEW native, native = Measured(known, p, t, players),
           ToSet(outbox'.waiting) = LeftSet(outbox.waiting, p, native),
           outbox'.generation = room.generation, outbox'.native = native,
           run'.packet = run.packet, history'.sent = history.sent,
           history'.crossed = history.crossed,
           history'.native = Measured(history.native, p, t, players),
           history'.latest = {q \in history.latest : ~Outdone(q, history'.native)},
           Uncrossed
    PROVE  Uncrossed'
<1> SUFFICES ASSUME ~history.crossed
             PROVE  Remembered' /\ Undone' /\ \A q \in history'.latest : Settled(q)'
  BY DEF Uncrossed
<1>1. Remembered /\ Undone /\ \A q \in history.latest : Settled(q)
  BY DEF Uncrossed
<1>2. history.native = known
  BY <1>1 DEF Remembered
<1>3. history'.native = native
  BY <1>2
<1>4. Remembered'
  BY <1>3 DEF Remembered
<1>5. ToSet(outbox.waiting) \subseteq Queued
  <2>1. outbox.waiting \in Seq(Queued)
    BY DEF PubTypeOK
  <2> QED
    BY <2>1, Places
<1>6. known \in [Player -> SUBSET Nat]
  BY <1>2 DEF PubTypeOK
<1>7. \A q \in Player : q # p => native[q] \subseteq known[q]
  BY <1>6, MeasuredTyped
<1>8. Undone'
  <2> SUFFICES ASSUME NEW w \in ToSet(outbox'.waiting), w.generation = room.generation
               PROVE  ~Outdone(w, native)
    BY <1>3 DEF Undone, Outdone
  <2>1. w \in ToSet(outbox.waiting) /\ (w.who # p \/ ~Outdone(w, native))
    BY DEF LeftSet
  <2>2. CASE w.who # p
    <3>1. ~Outdone(w, known)
      BY <1>1, <1>2, <2>1 DEF Undone
    <3>2. w.field = "time" => w.who \in Player
      BY <1>5, <2>1 DEF Queued, Well
    <3>3. w.field = "time" => native[w.who] \subseteq known[w.who]
      BY <1>7, <2>2, <3>2
    <3> QED
      BY <3>1, <3>3 DEF Outdone
  <2> QED
    BY <2>1, <2>2
<1>9. ASSUME NEW q \in history'.latest PROVE Settled(q)'
  <2>1. q \in history.latest /\ ~Outdone(q, native)
    BY <1>3
  <2>2. Settled(q)
    BY <1>1, <2>1
  <2>3. ASSUME NEW w \in Due(outbox.waiting, q) PROVE w \in ToSet(outbox'.waiting)
    <3>1. w \in ToSet(outbox.waiting) /\ Key(w) = Key(q) /\ w.value = q.value
      BY <2>2 DEF Due, Settled
    <3>2. ~Outdone(w, native)
      BY <2>1, <3>1, OutdoneTogether
    <3> QED
      BY <3>1, <3>2 DEF LeftSet
  <2>4. Due(outbox.waiting, q)' = Due(outbox.waiting, q)
    BY <2>3 DEF Due, Key, LeftSet
  <2>5. Due(run.packet, q)' = Due(run.packet, q)
    BY DEF Due, Key
  <2> QED
    BY <2>2, <2>4, <2>5 DEF Settled
<1> QED
  BY <1>4, <1>8, <1>9

\* The server has measured a time.
LEMMA NativeFinishInv ==
    ASSUME PubInv, NEW p \in Player, NEW t \in Times, NEW players \in SUBSET Player,
           NativeFinish(p, t, players)
    PROVE  PubInv'
<1>1. PubTypeOK /\ Begun /\ Placed /\ (~room.stopped => Counted /\ Delivered /\ Uncrossed)
  BY DEF PubInv
<1>2. room \in Rooms /\ outbox \in Outboxes /\ run \in Runs /\ history \in Histories
      /\ call \in [Publishing -> Nat \cup {NoCall}]
  BY <1>1 DEF PubTypeOK, Rooms, Outboxes, Runs, Histories
<1>3. t \in Nat
  BY PublicationAssumption
<1>4. PICK known : known = IF outbox.generation = room.generation THEN outbox.native ELSE NoTimes
  OBVIOUS
<1>5. PICK native : native = Measured(known, p, t, players)
  OBVIOUS
<1>6. PICK left : left = Only(outbox.waiting, LeftSet(outbox.waiting, p, native))
  OBVIOUS
<1>7. PICK noted : noted = Measured(history.native, p, t, players)
  OBVIOUS
<1>8. PICK n : n = outbox.count - (Len(outbox.waiting) - Len(left))
  OBVIOUS
<1>9. PICK latest : latest = {q \in history.latest : ~Outdone(q, noted)}
  OBVIOUS
<1>10. PICK finishes : finishes = history.finishes + 1
  OBVIOUS
<1>11. /\ outbox' = [waiting |-> left, generation |-> room.generation, native |-> native, count |-> n]
       /\ history' = [history EXCEPT !.finishes = finishes, !.native = noted, !.latest = latest]
       /\ room' = room /\ call' = call /\ run' = run
  BY <1>4, <1>5, <1>6, <1>7, <1>8, <1>9, <1>10 DEF NativeFinish, LeftSet
<1>12. outbox.waiting \in Seq(Queued) /\ outbox.count \in Int /\ outbox.native \in [Player -> SUBSET Nat]
       /\ room.generation \in Nat /\ run.packet \in Seq(Queued)
  BY <1>2 DEF Outboxes, Rooms, Runs
<1>13. /\ left \in Seq(Queued) /\ Len(left) <= Len(outbox.waiting)
       /\ ToSet(left) = LeftSet(outbox.waiting, p, native)
  <2>1. /\ left \in Seq(Queued) /\ Len(left) <= Len(outbox.waiting)
        /\ ToSet(left) = ToSet(outbox.waiting) \cap LeftSet(outbox.waiting, p, native)
    BY <1>6, <1>12, OnlyElements
  <2> QED
    BY <2>1 DEF LeftSet
<1>14. native \in [Player -> SUBSET Nat] /\ noted \in [Player -> SUBSET Nat]
  <2>1. known \in [Player -> SUBSET Nat] /\ history.native \in [Player -> SUBSET Nat]
    BY <1>2, <1>4, <1>12, NoTimesTyped DEF Histories
  <2> QED
    BY <1>3, <1>5, <1>7, <2>1, MeasuredTyped
<1>15. Len(left) \in Nat /\ Len(outbox.waiting) \in Nat /\ Len(run.packet) \in Nat
  BY <1>12, <1>13, LenProperties
<1>16. n \in Int
  BY <1>8, <1>12, <1>15
<1>17. /\ outbox' \in Outboxes /\ outbox'.waiting = left /\ outbox'.generation = room.generation
       /\ outbox'.native = native /\ outbox'.count = n
  BY <1>11, <1>12, <1>13, <1>14, <1>16 DEF Outboxes
<1>18. latest \in SUBSET Packet /\ finishes \in Nat
  BY <1>2, <1>9, <1>10 DEF Histories
<1>19. /\ history' \in Histories /\ history'.sent = history.sent /\ history'.crossed = history.crossed
       /\ history'.native = noted /\ history'.latest = latest
  BY <1>2, <1>11, <1>14, <1>18 DEF Histories
<1>20. PubTypeOK'
  BY <1>2, <1>11, <1>17, <1>19 DEF PubTypeOK, Rooms, Outboxes, Runs, Histories
<1>21. Begun'
  BY <1>1, <1>11, <1>12, <1>13, <1>17 DEF Begun, LeftSet
<1>22. Placed' /\ (Delivered => Delivered')
  BY <1>1, <1>11, <1>19 DEF Placed, Delivered
<1>23. ASSUME Counted PROVE Counted'
  <2>1. PICK k, w, l, m : /\ k = outbox.count /\ w = Len(outbox.waiting) /\ l = Len(left)
                          /\ m = Len(run.packet)
    OBVIOUS
  <2>2. /\ k \in Int /\ w \in Nat /\ l \in Nat /\ m \in Nat /\ l <= w /\ k = w + m /\ k <= Capacity
        /\ n = k - (w - l) /\ Capacity \in Nat
    BY <1>8, <1>12, <1>13, <1>15, <1>23, <2>1, PublicationAssumption DEF Counted
  <2>3. n = l + m /\ n <= Capacity
    BY <2>2
  <2> QED
    BY <1>11, <1>17, <2>1, <2>3 DEF Counted
<1>24. ASSUME Uncrossed PROVE Uncrossed'
  BY <1>1, <1>3, <1>4, <1>5, <1>7, <1>9, <1>11, <1>13, <1>17, <1>19, <1>24, FinishUncrossed
<1> QED
  BY <1>1, <1>11, <1>20, <1>21, <1>22, <1>23, <1>24 DEF PubInv

-----------------------------------------------------------------------------

\* Every step keeps the invariant.
LEMMA PubInvNext == PubInv /\ [PubNext]_pubVars => PubInv'
<1> SUFFICES ASSUME PubInv, [PubNext]_pubVars PROVE PubInv'
  OBVIOUS
<1>1. CASE UNCHANGED pubVars
  <2>1. /\ room' = room /\ outbox' = outbox /\ call' = call /\ run' = run /\ history' = history
    BY <1>1 DEF pubVars
  <2>2. Uncrossed => Uncrossed'
    BY <2>1, UncrossedKept
  <2>3. PubTypeOK /\ Begun /\ Placed => PubTypeOK' /\ Begun' /\ Placed'
    BY <2>1 DEF PubTypeOK, Begun, Placed
  <2>4. Counted /\ Delivered => Counted' /\ Delivered'
    BY <2>1 DEF Counted, Delivered
  <2> QED
    BY <2>1, <2>2, <2>3, <2>4 DEF PubInv
<1>2. CASE StartSession \/ StopBegins \/ StopClears \/ Advance
  BY <1>2, StartSessionInv, StopBeginsInv, StopClearsInv, AdvanceInv
<1>3. ASSUME NEW c \in Publishing, Publish(c) \/ Enqueue(c) \/ Refused(c) PROVE PubInv'
  BY <1>3, PublishInv, EnqueueInv, RefusedInv
<1>4. ASSUME NEW p \in Player, NEW t \in Times, NEW players \in SUBSET Player,
             NativeFinish(p, t, players)
      PROVE  PubInv'
  BY <1>4, NativeFinishInv
<1>5. CASE Sending
  BY <1>5, ArmsInv, TakesInv, SendsInv, AcknowledgedInv, CountsInv, WakesInv DEF Sending
<1>6. CASE SendFails \/ Aborts
  BY <1>6, SendFailsInv, AbortsInv
<1> QED
  BY <1>1, <1>2, <1>3, <1>4, <1>5, <1>6 DEF PubNext

\* The invariant promises what goes to the server.
LEMMA PubInvStands == PubInv => NewestStands
<1> SUFFICES ASSUME PubInv, ~room.stopped PROVE
        /\ outbox.count = Len(outbox.waiting) + Len(run.packet)
        /\ outbox.count <= Capacity
        /\ ~history.crossed =>
              /\ \A q \in ToSet(outbox.waiting) :
                    q.generation = room.generation => ~Outdone(q, history.native)
              /\ \A q \in history.latest :
                    LET left == ToBeSent(Key(q))
                    IN  IF left = <<>> THEN q \in history.sent ELSE Last(left).value = q.value
  BY DEF NewestStands
<1>1. PubTypeOK /\ Counted /\ Uncrossed
  BY DEF PubInv
<1>2. run.packet \in Seq(Queued) /\ outbox.waiting \in Seq(Queued)
  BY <1>1 DEF PubTypeOK
<1>3. ASSUME ~history.crossed, NEW q \in history.latest
      PROVE  LET left == ToBeSent(Key(q))
             IN  IF left = <<>> THEN q \in history.sent ELSE Last(left).value = q.value
  <2>1. Settled(q)
    BY <1>1, <1>3 DEF Uncrossed
  <2>2. PICK all : all = run.packet \o outbox.waiting
    OBVIOUS
  <2>3. all \in Seq(Queued) /\ ToSet(all) = ToSet(run.packet) \cup ToSet(outbox.waiting)
    BY <1>2, <2>2, ConcatElements
  <2>4. PICK set : set = {w \in ToSet(all) : w.generation = room.generation /\ Key(w) = Key(q)}
    OBVIOUS
  <2>5. ToBeSent(Key(q)) = Only(all, set)
    BY <2>2, <2>4 DEF ToBeSent, Outgoing
  <2>6. set = Due(run.packet, q) \cup Due(outbox.waiting, q)
    BY <2>3, <2>4 DEF Due
  <2>7. Only(all, set) \in Seq(Queued) /\ ToSet(Only(all, set)) = ToSet(all) \cap set
    BY <2>3, OnlyElements
  <2>8. CASE Only(all, set) = <<>>
    <3>1. ToSet(Only(all, set)) = {}
      BY <2>7, <2>8, Places
    <3>2. set = {}
      BY <2>4, <2>7, <3>1
    <3>3. q \in history.sent
      BY <2>1, <2>6, <3>2 DEF Settled
    <3> QED
      BY <2>5, <2>8, <3>3
  <2>9. CASE Only(all, set) # <<>>
    <3>1. PICK last : last = Last(Only(all, set))
      OBVIOUS
    <3>2. /\ last \in set
          /\ \/ last \in ToSet(outbox.waiting)
             \/ last \in ToSet(run.packet) /\ ToSet(outbox.waiting) \cap set = {}
      BY <1>2, <2>2, <2>9, <3>1, LastChosen
    <3>3. CASE last \in ToSet(outbox.waiting)
      <4>1. last \in Due(outbox.waiting, q)
        BY <2>4, <3>2, <3>3 DEF Due
      <4>2. last.value = q.value
        BY <2>1, <4>1 DEF Settled
      <4> QED
        BY <2>5, <2>9, <3>1, <4>2
    <3>4. CASE last \in ToSet(run.packet) /\ ToSet(outbox.waiting) \cap set = {}
      <4>1. last \in Due(run.packet, q)
        BY <2>4, <3>2, <3>4 DEF Due
      <4>2. Due(outbox.waiting, q) = {}
        BY <2>3, <2>6, <3>4 DEF Due
      <4>3. last.value = q.value
        BY <2>1, <4>1, <4>2 DEF Settled
      <4> QED
        BY <2>5, <2>9, <3>1, <4>3
    <3> QED
      BY <3>2, <3>3, <3>4
  <2> QED
    BY <2>8, <2>9
<1>4. ~history.crossed => Undone
  BY <1>1 DEF Uncrossed
<1> QED
  BY <1>1, <1>3, <1>4 DEF Counted, Undone

\* As long as the publisher works, its counter is what waits and is being sent,
\* within the capacity (Queue::packets); no waiting time is slower than one the
\* server has measured (native_finish); and of each field of each player the server
\* ends up with what was published last for this level (enqueue and run).
THEOREM PublicationStands == PubSpec => []NewestStands
<1>1. PubInit => PubInv
  BY PubInvInit
<1>2. PubInv /\ [PubNext]_pubVars => PubInv'
  BY PubInvNext
<1>3. PubInv => NewestStands
  BY PubInvStands
<1> QED
  BY <1>1, <1>2, <1>3, PTL DEF PubSpec
=============================================================================
