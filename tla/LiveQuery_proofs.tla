--------------------------- MODULE LiveQuery_proofs ---------------------------
(***************************************************************************)
(* The live queries of LiveQuery.tla and the poller inside them, for any   *)
(* limits, websockets, queries, results and rows.                          *)
(***************************************************************************)
EXTENDS LiveQuery, TLAPS, FiniteSetTheorems, SequenceTheorems, WellFoundedInduction

-----------------------------------------------------------------------------
(* Sequences that list the elements of a set, each once.                   *)

Lists(seq, set) == seq \in Seq(set) /\ IsInjective(seq) /\ ToSet(seq) = set

LEMMA ListsAre ==
    ASSUME NEW set, NEW seq, Lists(seq, set)
    PROVE  /\ Len(seq) \in Nat /\ DOMAIN seq = 1..Len(seq) /\ seq \in [1..Len(seq) -> set]
           /\ \A i \in 1..Len(seq) : seq[i] \in set
           /\ \A i, j \in 1..Len(seq) : seq[i] = seq[j] => i = j
           /\ \A x \in set : \E i \in 1..Len(seq) : seq[i] = x
<1>1. seq \in Seq(set) /\ IsInjective(seq) /\ ToSet(seq) = set
  BY DEF Lists
<1>2. Len(seq) \in Nat /\ DOMAIN seq = 1..Len(seq) /\ seq \in [1..Len(seq) -> set]
  BY <1>1, LenProperties
<1> QED
  BY <1>1, <1>2 DEF IsInjective, ToSet

LEMMA ListsBy ==
    ASSUME NEW set, NEW seq, seq \in Seq(set),
           \A i, j \in 1..Len(seq) : seq[i] = seq[j] => i = j,
           \A x \in set : \E i \in 1..Len(seq) : seq[i] = x
    PROVE  Lists(seq, set)
<1>1. Len(seq) \in Nat /\ DOMAIN seq = 1..Len(seq) /\ \A i \in 1..Len(seq) : seq[i] \in set
  BY LenProperties
<1>2. IsInjective(seq)
  BY <1>1 DEF IsInjective
<1>3. ToSet(seq) = set
  BY <1>1 DEF ToSet
<1> QED
  BY <1>2, <1>3 DEF Lists

LEMMA ListsEmpty ==
    /\ Lists(<<>>, {})
    /\ \A seq, set : Lists(seq, set) => (seq = <<>> <=> set = {})
<1>1. Lists(<<>>, {})
  <2>1. PICK none, nothing : none = <<>> /\ nothing = {}
    OBVIOUS
  <2>2. none \in Seq(nothing) /\ Len(none) = 0
    BY <2>1, EmptySeq
  <2>3. \A i \in 1..Len(none) : FALSE
    BY <2>2
  <2>4. Lists(none, nothing)
    BY <2>1, <2>2, <2>3, ListsBy
  <2> QED
    BY <2>1, <2>4
<1>2. ASSUME NEW seq, NEW set, Lists(seq, set) PROVE seq = <<>> <=> set = {}
  <2>1. seq \in Seq(set) /\ Len(seq) \in Nat /\ \A i \in 1..Len(seq) : seq[i] \in set
    BY <1>2, ListsAre DEF Lists
  <2>2. \A x \in set : \E i \in 1..Len(seq) : seq[i] = x
    BY <1>2, ListsAre
  <2>3. seq = <<>> => set = {}
    BY <2>2
  <2>4. seq # <<>> => 1 \in 1..Len(seq)
    BY <2>1
  <2> QED
    BY <2>1, <2>3, <2>4
<1> QED
  BY <1>1, <1>2

LEMMA ListsAppend ==
    ASSUME NEW set, NEW seq, NEW x, Lists(seq, set), x \notin set
    PROVE  Lists(Append(seq, x), set \cup {x})
<1>1. PICK all, new : all = set \cup {x} /\ new = Append(seq, x)
  OBVIOUS
<1>2. seq \in Seq(all) /\ x \in all /\ Len(seq) \in Nat
  BY <1>1, ListsAre, SeqMonotonic, set \subseteq all DEF Lists
<1>3. new \in Seq(all) /\ Len(new) = Len(seq) + 1 /\ new[Len(seq) + 1] = x
      /\ \A i \in 1..Len(seq) : new[i] = seq[i]
  BY <1>1, <1>2, AppendProperties
<1>4. /\ \A i \in 1..Len(seq) : seq[i] \in set
      /\ \A i, j \in 1..Len(seq) : seq[i] = seq[j] => i = j
      /\ \A y \in set : \E i \in 1..Len(seq) : seq[i] = y
  BY ListsAre
<1>5. ASSUME NEW i \in 1..Len(new), NEW j \in 1..Len(new), new[i] = new[j] PROVE i = j
  <2>1. i \in 1..Len(seq) \/ i = Len(seq) + 1
    BY <1>2, <1>3
  <2>2. j \in 1..Len(seq) \/ j = Len(seq) + 1
    BY <1>2, <1>3
  <2> QED
    BY <1>3, <1>4, <1>5, <2>1, <2>2
<1>6. ASSUME NEW y \in all PROVE \E i \in 1..Len(new) : new[i] = y
  <2>1. CASE y = x
    <3>1. Len(seq) + 1 \in 1..Len(new)
      BY <1>2, <1>3
    <3> QED
      BY <1>3, <2>1, <3>1
  <2>2. CASE y \in set
    <3>1. PICK i \in 1..Len(seq) : seq[i] = y
      BY <1>4, <2>2
    <3>2. i \in 1..Len(new) /\ new[i] = y
      BY <1>2, <1>3, <3>1
    <3> QED
      BY <3>2
  <2> QED
    BY <1>1, <1>6, <2>1, <2>2
<1>7. Lists(new, all)
  <2>1. new \in Seq(all)
    BY <1>3
  <2> QED
    BY <1>5, <1>6, <2>1, ListsBy, Zenon
<1> QED
  BY <1>1, <1>7

LEMMA ListsTail ==
    ASSUME NEW set, NEW seq, Lists(seq, set), seq # <<>>
    PROVE  Head(seq) \in set /\ Lists(Tail(seq), set \ {Head(seq)}) /\ Len(Tail(seq)) = Len(seq) - 1
<1>1. PICK x, new, less : x = Head(seq) /\ new = Tail(seq) /\ less = set \ {x}
  OBVIOUS
<1>2. seq \in Seq(set) /\ Len(seq) \in Nat /\ Len(seq) > 0
  BY ListsAre DEF Lists
<1>3. /\ \A i \in 1..Len(seq) : seq[i] \in set
      /\ \A i, j \in 1..Len(seq) : seq[i] = seq[j] => i = j
      /\ \A y \in set : \E i \in 1..Len(seq) : seq[i] = y
  BY ListsAre
<1>4. x \in set /\ x = seq[1]
  BY <1>1, <1>2, <1>3
<1>5. Len(new) = Len(seq) - 1 /\ \A i \in 1..Len(new) : new[i] = seq[i + 1]
  BY <1>1, <1>2
<1>6. \A i \in 1..Len(new) : i + 1 \in 1..Len(seq) /\ i + 1 # 1
  BY <1>2, <1>5
<1>7. \A i \in 1..Len(new) : new[i] \in less
  <2> SUFFICES ASSUME NEW i \in 1..Len(new) PROVE new[i] \in less
    OBVIOUS
  <2>1. i + 1 \in 1..Len(seq) /\ i + 1 # 1 /\ 1 \in 1..Len(seq) /\ new[i] = seq[i + 1]
    BY <1>2, <1>5, <1>6
  <2> QED
    BY <1>1, <1>3, <1>4, <2>1, Zenon
<1>8. new \in Seq(less)
  <2>1. new \in Seq(set)
    BY <1>1, <1>2
  <2>2. new = [i \in 1..Len(new) |-> new[i]] /\ Len(new) \in Nat
    BY <2>1, LenProperties
  <2> QED
    BY <1>7, <2>2
<1>9. ASSUME NEW i \in 1..Len(new), NEW j \in 1..Len(new), new[i] = new[j] PROVE i = j
  <2>1. i + 1 = j + 1
    BY <1>3, <1>5, <1>6, <1>9, SMTT(30)
  <2> QED
    BY <1>2, <1>5, <2>1
<1>10. ASSUME NEW y \in less PROVE \E i \in 1..Len(new) : new[i] = y
  <2>1. PICK i \in 1..Len(seq) : seq[i] = y
    BY <1>1, <1>3, <1>10
  <2>2. i # 1
    BY <1>1, <1>4, <1>10, <2>1
  <2>3. i - 1 \in 1..Len(new) /\ i - 1 + 1 = i
    BY <1>2, <1>5, <2>2
  <2>4. new[i - 1] = y
    BY <1>5, <2>1, <2>3
  <2> QED
    BY <2>3, <2>4
<1>11. Lists(new, less)
  BY <1>8, <1>9, <1>10, ListsBy
<1> QED
  BY <1>1, <1>4, <1>5, <1>11

\* What RemoveFirst leaves.
LEMMA ListsRemove ==
    ASSUME NEW set, NEW seq, NEW x, Lists(seq, set)
    PROVE  Lists(RemoveFirst(seq, x), set \ {x}) /\ (x \notin set => RemoveFirst(seq, x) = seq)
<1>1. seq \in Seq(set) /\ Len(seq) \in Nat
  BY ListsAre DEF Lists
<1>2. /\ \A i \in 1..Len(seq) : seq[i] \in set
      /\ \A i, j \in 1..Len(seq) : seq[i] = seq[j] => i = j
      /\ \A y \in set : \E i \in 1..Len(seq) : seq[i] = y
  BY ListsAre
<1>3. CASE x \notin set
  <2>1. ~ \E i \in 1..Len(seq) : seq[i] = x
    BY <1>2, <1>3
  <2>2. RemoveFirst(seq, x) = seq /\ set \ {x} = set
    BY <1>3, <2>1 DEF RemoveFirst
  <2> QED
    BY <2>2
<1>4. CASE x \in set
  <2>1. PICK p \in 1..Len(seq) : seq[p] = x
    BY <1>2, <1>4
  <2>2. {i \in 1..Len(seq) : seq[i] = x} = {p}
    BY <1>2, <2>1
  <2>3. SelectInSeq(seq, LAMBDA v : v = x) = p
    <3>1. Min({p}) = p
      BY <2>1 DEF Min
    <3> QED
      BY <2>2, <3>1 DEF SelectInSeq
  <2>4. PICK a, b, new, less : /\ a = SubSeq(seq, 1, p - 1) /\ b = SubSeq(seq, p + 1, Len(seq))
                               /\ new = a \o b /\ less = set \ {x}
    OBVIOUS
  <2>5. RemoveFirst(seq, x) = new
    BY <2>1, <2>3, <2>4 DEF RemoveFirst, RemoveAt
  <2>6. a \in Seq(less) /\ Len(a) = p - 1 /\ \A i \in 1..(p - 1) : a[i] = seq[i]
    <3>1. ASSUME NEW i \in 1..(p - 1) PROVE seq[i] \in less
      <4>1. i \in 1..Len(seq) /\ i # p
        BY <1>1, <2>1
      <4> QED
        BY <1>2, <2>1, <2>4, <4>1, Zenon
    <3> QED
      BY <1>1, <2>1, <2>4, <3>1, SubSeqProperties
  <2>7. b \in Seq(less) /\ Len(b) = Len(seq) - p /\ \A i \in 1..(Len(seq) - p) : b[i] = seq[i + p]
    <3>1. ASSUME NEW i \in (p + 1)..Len(seq) PROVE seq[i] \in less
      <4>1. i \in 1..Len(seq) /\ i # p
        BY <1>1, <2>1
      <4> QED
        BY <1>2, <2>1, <2>4, <4>1, Zenon
    <3>2. b \in Seq(less) /\ Len(b) = Len(seq) - p
      BY <1>1, <2>1, <2>4, <3>1, SubSeqProperties
    <3>3. \A i \in 1..Len(b) : b[i] = seq[p + 1 + i - 1]
      BY <1>1, <2>1, <2>4, <3>1, SubSeqProperties
    <3>4. \A i \in 1..(Len(seq) - p) : p + 1 + i - 1 = i + p
      BY <1>1, <2>1
    <3> QED
      BY <3>2, <3>3, <3>4
  <2>8. /\ new \in Seq(less) /\ Len(new) = Len(seq) - 1
        /\ \A i \in 1..(Len(seq) - 1) : new[i] = IF i < p THEN seq[i] ELSE seq[i + 1]
    <3>1. /\ new \in Seq(less) /\ Len(new) = Len(a) + Len(b)
          /\ \A i \in 1..Len(a) + Len(b) : new[i] = IF i <= Len(a) THEN a[i] ELSE b[i - Len(a)]
      <4>1. new = a \o b /\ a \in Seq(less) /\ b \in Seq(less)
        BY <2>4, <2>6, <2>7
      <4> QED
        BY <4>1, ConcatProperties, Zenon
    <3>2. ASSUME NEW i \in 1..(Len(seq) - 1) PROVE new[i] = IF i < p THEN seq[i] ELSE seq[i + 1]
      <4>1. CASE i < p
        <5>1. i \in 1..Len(a) + Len(b) /\ i <= Len(a) /\ i \in 1..(p - 1)
          BY <1>1, <2>1, <2>6, <2>7, <4>1
        <5> QED
          BY <2>6, <3>1, <4>1, <5>1
      <4>2. CASE ~(i < p)
        <5>1. i \in 1..Len(a) + Len(b) /\ ~(i <= Len(a)) /\ i - Len(a) = i - (p - 1)
              /\ i - (p - 1) \in 1..(Len(seq) - p) /\ i - (p - 1) + p = i + 1
          BY <1>1, <2>1, <2>6, <2>7, <4>2
        <5> QED
          BY <2>7, <3>1, <4>2, <5>1
      <4> QED
        BY <4>1, <4>2
    <3> QED
      BY <1>1, <2>1, <2>6, <2>7, <3>1, <3>2
  <2>9. ASSUME NEW i \in 1..Len(new), NEW j \in 1..Len(new), new[i] = new[j] PROVE i = j
    <3>1. PICK m, n : m = (IF i < p THEN i ELSE i + 1) /\ n = (IF j < p THEN j ELSE j + 1)
      OBVIOUS
    <3>4. /\ i \in Int /\ 1 <= i /\ i <= Len(seq) - 1 /\ j \in Int /\ 1 <= j /\ j <= Len(seq) - 1
          /\ p \in Int
      BY <1>1, <2>1, <2>8
    <3>5. m \in 1..Len(seq) /\ n \in 1..Len(seq)
      BY <1>1, <3>1, <3>4
    <3>6. i \in 1..(Len(seq) - 1) /\ j \in 1..(Len(seq) - 1)
      BY <1>1, <3>4
    <3>7. new[i] = (IF i < p THEN seq[i] ELSE seq[i + 1]) /\ new[j] = (IF j < p THEN seq[j] ELSE seq[j + 1])
      BY <2>8, <3>6, Zenon
    <3>2. m \in 1..Len(seq) /\ n \in 1..Len(seq) /\ new[i] = seq[m] /\ new[j] = seq[n]
          /\ i \in Int /\ j \in Int
      BY <3>1, <3>4, <3>5, <3>7, Zenon
    <3>3. m = n
      BY <1>2, <2>9, <3>2
    <3> QED
      BY <2>1, <3>1, <3>2, <3>3
  <2>10. ASSUME NEW y \in less PROVE \E i \in 1..Len(new) : new[i] = y
    <3>1. PICK m \in 1..Len(seq) : seq[m] = y
      BY <1>2, <2>4, <2>10
    <3>2. m # p
      BY <2>1, <2>4, <2>10, <3>1
    <3>3. PICK i : i = IF m < p THEN m ELSE m - 1
      OBVIOUS
    <3>4. i \in 1..Len(new) /\ new[i] = seq[m]
      BY <1>1, <2>1, <2>8, <3>2, <3>3
    <3> QED
      BY <3>1, <3>4
  <2>11. Lists(new, less)
    <3>1. new \in Seq(less)
      BY <2>8
    <3>2. \A i, j \in 1..Len(new) : new[i] = new[j] => i = j
      BY <2>9, Zenon
    <3>3. \A y \in less : \E i \in 1..Len(new) : new[i] = y
      BY <2>10, Zenon
    <3> QED
      BY <3>1, <3>2, <3>3, ListsBy
  <2> QED
    BY <1>4, <2>4, <2>5, <2>11
<1> QED
  BY <1>3, <1>4

LEMMA RemoveFromEmpty ==
    ASSUME NEW x
    PROVE  RemoveFirst(<<>>, x) = <<>>
<1>1. Lists(<<>>, {}) /\ x \notin {}
  BY ListsEmpty
<1> QED
  BY <1>1, ListsRemove

\* SetToSeq lists the elements of a finite set.
LEMMA ListsSet ==
    ASSUME NEW set, IsFiniteSet(set)
    PROVE  Lists(SetToSeq(set), set)
<1>1. Cardinality(set) \in Nat /\ ExistsBijection(1..Cardinality(set), set)
  BY FS_CardinalityType
<1>2. PICK n, seq : n = Cardinality(set) /\ seq = SetToSeq(set)
  OBVIOUS
<1>3. PICK f \in Bijection(1..n, set) : TRUE
  BY <1>1, <1>2 DEF ExistsBijection
<1>4. f \in [1..n -> set] /\ IsInjective(f)
  BY <1>3 DEF Bijection, Injection, IsInjective
<1>5. seq \in [1..n -> set] /\ IsInjective(seq)
  BY <1>2, <1>4 DEF SetToSeq
<1>6. seq \in Seq(set) /\ Len(seq) = n /\ DOMAIN seq = 1..n
  BY <1>1, <1>2, <1>5
<1>7. \A x \in set : \E i \in 1..n : seq[i] = x
  <2>1. seq \in Injection(1..n, set)
    BY <1>5 DEF Injection, IsInjective
  <2>2. IsFiniteSet(1..n) /\ Cardinality(1..n) = n
    BY <1>1, <1>2, FS_Interval
  <2>3. seq \in Surjection(1..n, set)
    BY <1>2, <2>1, <2>2, FS_Injection
  <2> QED
    BY <2>3 DEF Surjection
<1>8. \A i, j \in 1..n : seq[i] = seq[j] => i = j
  BY <1>5, <1>6 DEF IsInjective
<1>9. Lists(seq, set)
  BY <1>6, <1>7, <1>8, ListsBy
<1> QED
  BY <1>2, <1>9

-----------------------------------------------------------------------------
\* Each set of natural numbers has a least one.
LEMMA LeastNat ==
    ASSUME NEW T, T \subseteq Nat, T # {}
    PROVE  \E n \in T : \A m \in T : n <= m
<1>1. PICK R : R = {ss \in Nat \X Nat : ss[1] < ss[2]}
  OBVIOUS
<1>2. IsWellFoundedOn(R, Nat)
  BY <1>1, NatLessThanWellFounded, Zenon DEF OpToRel
<1>3. \E n \in T : \A m \in T : ~(<<m, n>> \in R)
  BY <1>2, WFMin, Zenon
<1>4. \A m, n \in Nat : m < n => <<m, n>> \in R
  BY <1>1
<1>5. PICK n \in T : \A m \in T : ~(<<m, n>> \in R)
  BY <1>3
<1>6. ASSUME NEW m \in T PROVE n <= m
  <2>1. m \in Nat /\ n \in Nat
    OBVIOUS
  <2>2. ~(m < n)
    BY <1>4, <1>5, <2>1
  <2> QED
    BY <2>1, <2>2
<1> QED
  BY <1>6


\* Counting up within a set.
LEMMA CountsUp ==
    ASSUME NEW G, NEW size \in Nat, 0 \in G, \A n \in 1..size : n - 1 \in G => n \in G
    PROVE  \A n \in 0..size : n \in G
<1>1. PICK T : T = {n \in 0..size : n \notin G}
  OBVIOUS
<1> SUFFICES ASSUME T # {} PROVE FALSE
  BY <1>1
<1>2. PICK n \in T : \A m \in T : n <= m
  <2>1. T \subseteq Nat
    BY <1>1
  <2> QED
    BY <2>1, LeastNat
<1>3. n \in 1..size /\ n - 1 \in 0..size /\ ~(n <= n - 1)
  BY <1>1, <1>2
<1>4. n - 1 \in G
  BY <1>1, <1>2, <1>3
<1> QED
  BY <1>1, <1>2, <1>3, <1>4

-----------------------------------------------------------------------------
(* The loops of the handlers, whose functions exist for every number of    *)
(* rounds.                                                                 *)

Evict(g, v, old) == IF g.cached + Bytes(v) <= CacheMaxBytes THEN g ELSE ClearReplay(g, old)

\* One round of the loop that kind names.
Round(kind, g, v, x) ==
    IF kind = "evict" THEN Evict(g, v, x)
    ELSE IF kind = "delete" THEN DeleteOperation(g, x)
    ELSE IF kind = "pump" THEN PumpOnce(g)
    ELSE IF kind = "rerun" THEN Enqueue(g, x, "rerun")
    ELSE IF x THEN Started(g) ELSE Stopped(g)

IsLoop(kind, f, size, base, v, list) ==
    f = [n \in 0..size |-> IF n = 0 THEN base ELSE Round(kind, f[n - 1], v, list[n])]

LEMMA LoopExists ==
    ASSUME NEW kind, NEW base, NEW v, NEW list, NEW size \in Nat
    PROVE  \E f : IsLoop(kind, f, size, base, v, list)
<1>1. PICK T : T = {n \in Nat : ~ \E f : IsLoop(kind, f, n, base, v, list)}
  OBVIOUS
<1> SUFFICES ASSUME T # {} PROVE FALSE
  BY <1>1
<1>2. PICK n \in T : \A l \in T : n <= l
  BY <1>1, LeastNat
<1>3. n \in Nat /\ ~ \E f : IsLoop(kind, f, n, base, v, list)
  BY <1>1
<1>4. CASE n = 0
  <2>1. PICK f : f = [k \in 0..n |-> base]
    OBVIOUS
  <2>2. \A k \in 0..n : k = 0
    BY <1>4
  <2>3. f = [k \in 0..n |-> IF k = 0 THEN base ELSE Round(kind, f[k - 1], v, list[k])]
    BY <2>1, <2>2, Zenon
  <2> QED
    BY <1>3, <2>3 DEF IsLoop
<1>5. CASE n # 0
  <2>1. n - 1 \in Nat /\ n - 1 \notin T
    BY <1>2, <1>3, <1>5
  <2>2. PICK f : IsLoop(kind, f, n - 1, base, v, list)
    BY <1>1, <2>1
  <2>3. PICK g : g = [k \in 0..n |-> IF k = 0 THEN base ELSE Round(kind, f[k - 1], v, list[k])]
    OBVIOUS
  <2>4. ASSUME NEW k \in 0..n, k # 0 PROVE f[k - 1] = g[k - 1]
    <3>1. k - 1 \in 0..(n - 1) /\ k - 1 \in 0..n
      BY <1>3, <2>4
    <3>2. f[k - 1] = IF k - 1 = 0 THEN base ELSE Round(kind, f[k - 1 - 1], v, list[k - 1])
      BY <2>2, <3>1, Zenon DEF IsLoop
    <3>3. g[k - 1] = IF k - 1 = 0 THEN base ELSE Round(kind, f[k - 1 - 1], v, list[k - 1])
      BY <2>3, <3>1, Zenon
    <3> QED
      BY <3>2, <3>3
  <2>5. g = [k \in 0..n |-> IF k = 0 THEN base ELSE Round(kind, g[k - 1], v, list[k])]
    BY <2>3, <2>4, Zenon
  <2> QED
    BY <1>3, <2>5 DEF IsLoop
<1> QED
  BY <1>4, <1>5

LEMMA LoopIs ==
    ASSUME NEW kind, NEW f, NEW base, NEW v, NEW list, NEW size \in Nat,
           IsLoop(kind, f, size, base, v, list)
    PROVE  f[0] = base /\ \A n \in 1..size : f[n] = Round(kind, f[n - 1], v, list[n])
<1>1. \A n \in 0..size : f[n] = IF n = 0 THEN base ELSE Round(kind, f[n - 1], v, list[n])
  BY Zenon DEF IsLoop
<1> QED
  BY <1>1


-----------------------------------------------------------------------------
(* The bytes of the cache.                                                 *)

Cells(f, set) == UNION {{k} \X (1..Bytes(f[k].replay)) : k \in set}

LEMMA BytesAre == \A v \in Value : Size[v] \in Nat /\ Bytes(v) \in Nat
<1>1. Size \in [Value -> Nat]
  BY LiveQueryAssumption
<1> QED
  BY <1>1 DEF Bytes

LEMMA CellsJoin ==
    ASSUME NEW f, NEW g, NEW set, NEW k, k \notin set, \A j \in set : f[j].replay = g[j].replay,
           IsFiniteSet(Cells(f, set)), Bytes(g[k].replay) \in Nat
    PROVE  /\ IsFiniteSet(Cells(g, set \cup {k}))
           /\ Cardinality(Cells(g, set \cup {k})) = Cardinality(Cells(f, set)) + Bytes(g[k].replay)
<1>1. PICK n, old, added : n = Bytes(g[k].replay) /\ old = Cells(f, set) /\ added = {k} \X (1..n)
  OBVIOUS
<1>2. IsFiniteSet(added) /\ Cardinality(added) = n
  <2>1. IsFiniteSet({k}) /\ Cardinality({k}) = 1
    BY FS_Singleton
  <2>2. IsFiniteSet(1..n) /\ Cardinality(1..n) = n
    BY <1>1, FS_Interval
  <2>3. IsFiniteSet({k} \X (1..n)) /\ Cardinality({k} \X (1..n)) = Cardinality({k}) * Cardinality(1..n)
    BY <2>1, <2>2, FS_Product, Zenon
  <2> QED
    BY <1>1, <2>1, <2>2, <2>3
<1>3. Cells(g, set \cup {k}) = old \cup added
  <2>1. \A j \in set : {j} \X (1..Bytes(f[j].replay)) = {j} \X (1..Bytes(g[j].replay))
    OBVIOUS
  <2> QED
    BY <1>1, <2>1 DEF Cells
<1>4. old \cap added = {}
  <2>1. \A x \in old : x[1] \in set
    BY <1>1 DEF Cells
  <2>2. \A x \in added : x[1] = k
    BY <1>1
  <2> QED
    BY <2>1, <2>2
<1>5. IsFiniteSet(old) /\ Cardinality(old) \in Nat
  BY <1>1, FS_CardinalityType
<1>6. /\ IsFiniteSet(old \cup added)
      /\ Cardinality(old \cup added) = Cardinality(old) + Cardinality(added) - Cardinality(old \cap added)
  BY <1>2, <1>5, FS_Union
<1>7. Cardinality(old \cap added) = 0
  BY <1>4, FS_EmptySet
<1>8. IsFiniteSet(old \cup added) /\ Cardinality(old \cup added) = Cardinality(old) + n
  <2>1. PICK a, b, c, d : /\ a = Cardinality(old) /\ b = Cardinality(added)
                          /\ c = Cardinality(old \cap added) /\ d = Cardinality(old \cup added)
    OBVIOUS
  <2>2. a \in Nat /\ b = n /\ n \in Nat /\ c = 0 /\ d = a + b - c
    BY <1>1, <1>2, <1>5, <1>6, <1>7, <2>1, Zenon
  <2>3. d = a + n
    BY <2>2
  <2> QED
    BY <1>6, <2>1, <2>3, Zenon
<1> QED
  BY <1>1, <1>3, <1>8, Zenon

LEMMA CellsPart ==
    ASSUME NEW f, NEW g, NEW set, NEW k \in set, \A j \in set \ {k} : f[j].replay = g[j].replay,
           IsFiniteSet(Cells(f, set)), Bytes(f[k].replay) \in Nat
    PROVE  /\ IsFiniteSet(Cells(g, set \ {k}))
           /\ Cardinality(Cells(g, set \ {k})) = Cardinality(Cells(f, set)) - Bytes(f[k].replay)
           /\ Cardinality(Cells(g, set \ {k})) \in Nat
<1>1. PICK less : less = set \ {k}
  OBVIOUS
<1>2. Cells(g, less) \subseteq Cells(f, set)
  <2>1. \A j \in less : {j} \X (1..Bytes(f[j].replay)) = {j} \X (1..Bytes(g[j].replay)) /\ j \in set
    BY <1>1
  <2> QED
    BY <2>1 DEF Cells
<1>3. IsFiniteSet(Cells(g, less))
  BY <1>2, FS_Subset
<1>4. k \notin less /\ set = less \cup {k} /\ \A j \in less : g[j].replay = f[j].replay
  BY <1>1
<1>5. Cardinality(Cells(f, less \cup {k})) = Cardinality(Cells(g, less)) + Bytes(f[k].replay)
  BY <1>3, <1>4, CellsJoin
<1>6. Cardinality(Cells(g, less)) \in Nat
  BY <1>3, FS_CardinalityType
<1>7. PICK a, b, n : a = Cardinality(Cells(f, set)) /\ b = Cardinality(Cells(g, less)) /\ n = Bytes(f[k].replay)
  OBVIOUS
<1>8. n \in Nat /\ b \in Nat /\ a = b + n
  BY <1>4, <1>5, <1>6, <1>7, Zenon
<1>9. b = a - n
  BY <1>8
<1> QED
  BY <1>1, <1>3, <1>6, <1>7, <1>9, Zenon

-----------------------------------------------------------------------------
(* The inductive invariant.                                                *)

Fields == {"ops", "shared", "order", "initial", "rerun", "replays", "active", "pending", "running",
           "cached", "debounce", "disposed", "orphans", "calls"}

HubTypes(h) ==
    /\ DOMAIN h = Fields
    /\ DOMAIN h.ops \subseteq Conn \X OpId /\ IsFiniteSet(DOMAIN h.ops)
    /\ \A s \in DOMAIN h.ops : h.ops[s] \in Subscription
    /\ DOMAIN h.shared \subseteq Key /\ IsFiniteSet(DOMAIN h.shared)
    /\ \A k \in DOMAIN h.shared : h.shared[k] \in SharedOperation
    /\ h.pending \in Nat /\ h.orphans \in Nat
    /\ h.debounce \in BOOLEAN /\ h.disposed \in BOOLEAN

\* Subscriptions and operations know one another.
Linked(h) ==
    /\ \A s \in DOMAIN h.ops : h.ops[s].attached => h.ops[s].key \in DOMAIN h.shared
    /\ \A k \in DOMAIN h.shared : Subscribers(h, k) # {}

Busy(h) == {k \in DOMAIN h.shared : h.shared[k].stage # "idle"}

Counted(h) ==
    /\ h.active = Cardinality(DOMAIN h.ops)
    /\ h.running = h.orphans + Cardinality(Busy(h))
    /\ h.running <= MaxConcurrent

Cached(h) == {k \in DOMAIN h.shared : h.shared[k].replay # None}

CacheOK(h) ==
    /\ Lists(h.replays, Cached(h))
    /\ IsFiniteSet(CachedBytes(h)) /\ h.cached = Cardinality(CachedBytes(h))
    /\ h.cached <= CacheMaxBytes

OpOK(op) ==
    /\ op.queued # "no" => op.stage = "idle"
    /\ op.stage = "idle" => ~op.again
    /\ op.stage = "read" => op.read \in Value
    /\ op.replay \in {None, op.result}

OrderOK(h) ==
    /\ \A k \in DOMAIN h.shared : OpOK(h.shared[k])
    /\ Lists(h.order, DOMAIN h.shared)
    /\ h.disposed => h.initial = <<>> /\ h.rerun = <<>> /\ ~h.debounce

HubOK(h) == HubTypes(h) /\ Linked(h) /\ Counted(h) /\ CacheOK(h) /\ OrderOK(h)

Marked(h, kind) == {k \in DOMAIN h.shared : h.shared[k].queued = kind}

\* What is in the queues is marked.
MarksOK(h) == Lists(h.initial, Marked(h, "initial")) /\ Lists(h.rerun, Marked(h, "rerun"))

\* Nobody waits while an execution could begin.
Pumped(h) == h.initial # <<>> \/ h.rerun # <<>> => h.running = MaxConcurrent

\* What the subscribers were sent.
ShownOK(h) ==
    \A s \in DOMAIN h.ops :
        /\ h.ops[s].needsInitial => h.ops[s].shown \in {None, "error"}
        /\ ~h.ops[s].needsInitial /\ h.ops[s].attached =>
              h.ops[s].shown \in {h.shared[h.ops[s].key].result, "error"}

\* An execution is to come that will ask for the answer.
ToCome(op) == op.queued # "no" \/ op.again \/ op.stage = "asked"

\* The subscribers of k have the answer v, or are told of a failure, or will have it.
Fresh(h, k, v) ==
    LET op == h.shared[k]
    IN  \/ ToCome(op)
        \/ op.stage = "read" /\ op.read = v
        \/ op.stage \in {"idle", "ended"} /\ op.failed
        \/ /\ op.stage \in {"idle", "ended"} /\ op.result = v
           /\ \A s \in Subscribers(h, k) :
                 h.ops[s].needsInitial => h.ops[s].late \/ h.ops[s].shown = "error"

\* An invalidation is to come.
Outstanding == hub.debounce \/ ~poller.known \/ ~(table.rows \subseteq signalled)

RestInv ==
    ~hub.disposed =>
        /\ \A s \in DOMAIN hub.ops : hub.ops[s].attached
        /\ Outstanding \/ \A k \in DOMAIN hub.shared : Fresh(hub, k, answer[k])

PollerInv ==
    /\ PollTypeOK
    /\ ~poller.on => ~poller.known /\ poller.seen = {} /\ ~poller.current
    /\ signalled \cup poller.ids \subseteq 1..table.allocated
    /\ table.open \cap (signalled \cup poller.ids) = {}

PhaseInv ==
    /\ phase \in Phase
    /\ phase = "up" <=> ~hub.disposed
    /\ poller.on => hub.active > 0
    /\ phase \in {"up", "draining"} => poller.on = (hub.active > 0)
    /\ phase \in {"disposed", "released"} => hub.running = 0

Validating == {c \in Conn : conn[c].validating /\ ~conn[c].replaces}

ConnInv ==
    /\ conn \in [Conn -> Connection]
    /\ \A c \in Conn : conn[c].validating =>
          conn[c].chain # <<>> /\ Head(conn[c].chain).type = "subscribe"
    /\ IsFiniteSet(Validating) /\ hub.pending = Cardinality(Validating)

HubInv == HubOK(hub) /\ MarksOK(hub) /\ Pumped(hub) /\ ShownOK(hub) /\ hub.calls = <<>>

LiveInv ==
    /\ HubInv /\ RestInv /\ PollerInv /\ PhaseInv /\ ConnInv
    /\ answer \in [Key -> Value] /\ messages \in 0..MaxMessages /\ execFaults \in 0..MaxExecFaults

-----------------------------------------------------------------------------
(* Operations and the cache.                                               *)

LEMMA OpFields ==
    ASSUME NEW op \in SharedOperation
    PROVE  /\ DOMAIN op = {"result", "replay", "stage", "read", "queued", "again", "failed"}
           /\ op.result \in Value \cup {None} /\ op.replay \in Value \cup {None}
           /\ op.stage \in {"idle", "asked", "read", "ended"} /\ op.read \in Value \cup {None}
           /\ op.queued \in {"no", "initial", "rerun"} /\ op.again \in BOOLEAN /\ op.failed \in BOOLEAN
  BY DEF SharedOperation

LEMMA OpIs ==
    ASSUME NEW op, DOMAIN op = {"result", "replay", "stage", "read", "queued", "again", "failed"},
           op = [x \in DOMAIN op |-> op[x]],
           op.result \in Value \cup {None}, op.replay \in Value \cup {None},
           op.stage \in {"idle", "asked", "read", "ended"}, op.read \in Value \cup {None},
           op.queued \in {"no", "initial", "rerun"}, op.again \in BOOLEAN, op.failed \in BOOLEAN
    PROVE  op \in SharedOperation
  BY DEF SharedOperation

\* From op to new only the replay went.
Forgot(op, new) ==
    /\ new \in SharedOperation /\ new.replay \in {op.replay, None}
    /\ new.result = op.result /\ new.stage = op.stage /\ new.read = op.read
    /\ new.queued = op.queued /\ new.again = op.again /\ new.failed = op.failed

\* Nothing but the cache and the operations is other in r than in h.
CacheOnly(h, r) ==
    /\ DOMAIN r = Fields
    /\ r.ops = h.ops /\ r.order = h.order /\ r.initial = h.initial /\ r.rerun = h.rerun
    /\ r.active = h.active /\ r.pending = h.pending /\ r.running = h.running
    /\ r.debounce = h.debounce /\ r.disposed = h.disposed /\ r.orphans = h.orphans /\ r.calls = h.calls
    /\ DOMAIN r.shared = DOMAIN h.shared

Cleared(h, r) ==
    /\ CacheOnly(h, r) /\ CacheOK(r)
    /\ \A k \in DOMAIN h.shared : Forgot(h.shared[k], r.shared[k])

LEMMA ClearReplayIs ==
    ASSUME NEW h, HubTypes(h), CacheOK(h), NEW k \in DOMAIN h.shared
    PROVE  /\ Cleared(h, ClearReplay(h, k))
           /\ ClearReplay(h, k).shared[k].replay = None
           /\ \A j \in DOMAIN h.shared \ {k} : ClearReplay(h, k).shared[j] = h.shared[j]
           /\ ToSet(ClearReplay(h, k).replays) = ToSet(h.replays) \ {k}
           /\ ClearReplay(h, k).cached <= h.cached
<1>1. PICK r, op : r = ClearReplay(h, k) /\ op = h.shared[k]
  OBVIOUS
<1>2. DOMAIN h = Fields /\ op \in SharedOperation /\ \A j \in DOMAIN h.shared : h.shared[j] \in SharedOperation
  BY <1>1 DEF HubTypes
<1>3. /\ Lists(h.replays, Cached(h)) /\ ToSet(h.replays) = Cached(h)
      /\ IsFiniteSet(CachedBytes(h)) /\ h.cached = Cardinality(CachedBytes(h))
      /\ h.cached <= CacheMaxBytes
  BY DEF CacheOK, Lists
<1>4. CASE op.replay = None
  <2>1. r = h
    BY <1>1, <1>4 DEF ClearReplay
  <2>2. k \notin ToSet(h.replays)
    BY <1>1, <1>3, <1>4 DEF Cached
  <2>3. \A j \in DOMAIN h.shared : Forgot(h.shared[j], r.shared[j])
    BY <1>2, <2>1 DEF Forgot
  <2>4. h.cached \in Nat
    BY <1>3, FS_CardinalityType
  <2>5. CacheOnly(h, r)
    BY <1>2, <2>1 DEF CacheOnly
  <2> QED
    BY <1>1, <1>4, <2>1, <2>2, <2>3, <2>4, <2>5 DEF Cleared
<1>5. CASE op.replay # None
  <2>1. r = [h EXCEPT !.replays = RemoveFirst(h.replays, k), !.cached = h.cached - Bytes(op.replay),
                      !.shared[k].replay = None]
    BY <1>1, <1>5 DEF ClearReplay
  <2>2. /\ CacheOnly(h, r) /\ r.replays = RemoveFirst(h.replays, k) /\ r.cached = h.cached - Bytes(op.replay)
        /\ r.shared = [h.shared EXCEPT ![k] = [op EXCEPT !.replay = None]]
    BY <1>1, <1>2, <2>1 DEF CacheOnly, Fields
  <2>3. /\ \A j \in DOMAIN h.shared \ {k} : r.shared[j] = h.shared[j]
        /\ r.shared[k] = [op EXCEPT !.replay = None]
    BY <2>2
  <2>4. Forgot(op, r.shared[k]) /\ r.shared[k].replay = None
    BY <1>2, <2>3, OpFields DEF Forgot, SharedOperation
  <2>5. \A j \in DOMAIN h.shared : Forgot(h.shared[j], r.shared[j])
    BY <1>1, <1>2, <2>3, <2>4 DEF Forgot
  <2>6. Cached(r) = Cached(h) \ {k} /\ k \in Cached(h)
    BY <1>1, <1>5, <2>2, <2>3, <2>4 DEF Cached, CacheOnly
  <2>7. Lists(r.replays, Cached(r)) /\ ToSet(r.replays) = Cached(h) \ {k}
    <3>1. Lists(RemoveFirst(h.replays, k), Cached(h) \ {k})
      BY <1>3, ListsRemove, Zenon
    <3>2. Lists(r.replays, Cached(r)) /\ Lists(r.replays, Cached(h) \ {k})
      BY <2>2, <2>6, <3>1, Zenon
    <3> QED
      BY <3>2, Zenon DEF Lists
  <2>8. CachedBytes(h) = Cells(h.shared, Cached(h)) /\ CachedBytes(r) = Cells(r.shared, Cached(h) \ {k})
    BY <1>3, <2>7 DEF CachedBytes, Cells
  <2>9. /\ IsFiniteSet(CachedBytes(r)) /\ Cardinality(CachedBytes(r)) \in Nat
        /\ Cardinality(CachedBytes(r)) = h.cached - Bytes(op.replay) /\ Bytes(op.replay) \in Nat
    <3>1. Bytes(op.replay) \in Nat
      BY <1>2, <1>5, OpFields, BytesAre
    <3>2. \A j \in Cached(h) \ {k} : h.shared[j].replay = r.shared[j].replay
      BY <2>3 DEF Cached
    <3> QED
      BY <1>1, <1>3, <2>6, <2>8, <3>1, <3>2, CellsPart
  <2>10. h.cached \in Nat /\ CacheMaxBytes \in Nat
    BY <1>3, FS_CardinalityType, LiveQueryAssumption
  <2>11. r.cached <= h.cached /\ r.cached <= CacheMaxBytes
    BY <1>3, <2>2, <2>9, <2>10
  <2>12. CacheOK(r)
    BY <2>2, <2>7, <2>9, <2>11 DEF CacheOK
  <2> QED
    BY <1>1, <1>3, <2>2, <2>3, <2>4, <2>5, <2>7, <2>11, <2>12 DEF Cleared
<1> QED
  BY <1>4, <1>5

LEMMA ClearedKeeps ==
    ASSUME NEW h, NEW r, HubTypes(h), Cleared(h, r)
    PROVE  HubTypes(r)
  BY DEF HubTypes, Cleared, CacheOnly, Forgot

LEMMA ClearedTwice ==
    ASSUME NEW h, NEW g, NEW r, HubTypes(h), Cleared(h, g), Cleared(g, r)
    PROVE  Cleared(h, r)
<1>1. ASSUME NEW k \in DOMAIN h.shared PROVE Forgot(h.shared[k], r.shared[k])
  <2>1. k \in DOMAIN g.shared /\ Forgot(h.shared[k], g.shared[k]) /\ Forgot(g.shared[k], r.shared[k])
    BY DEF Cleared, CacheOnly
  <2> QED
    BY <2>1 DEF Forgot
<1> QED
  BY <1>1 DEF Cleared, CacheOnly

\* The results cached longest ago go until there is room for v.
LEMMA EvictionMakesRoom ==
    ASSUME NEW f, NEW base, NEW v \in Value, NEW size, HubTypes(base), CacheOK(base),
           size = Len(base.replays), IsLoop("evict", f, size, base, v, base.replays)
    PROVE  Cleared(base, f[size])
           /\ (f[size].cached + Bytes(v) <= CacheMaxBytes \/ ToSet(f[size].replays) = {})
<1>1. PICK list : list = base.replays
  OBVIOUS
<1>2. /\ size \in Nat /\ \A i \in 1..size : list[i] \in DOMAIN base.shared
      /\ ToSet(list) = {list[i] : i \in 1..size}
  <2>1. Lists(list, Cached(base))
    BY <1>1 DEF CacheOK
  <2>2. Len(list) \in Nat /\ DOMAIN list = 1..Len(list) /\ \A i \in 1..Len(list) : list[i] \in Cached(base)
    BY <2>1, ListsAre, Zenon
  <2> QED
    BY <1>1, <2>2 DEF Cached, ToSet
<1>3. PICK Good : Good = [n \in 0..size |->
        /\ Cleared(base, f[n])
        /\ f[n].cached + Bytes(v) <= CacheMaxBytes \/ ToSet(f[n].replays) \subseteq {list[i] : i \in (n + 1)..size}]
  OBVIOUS
<1>4. f[0] = base /\ \A n \in 1..size : f[n] = Evict(f[n - 1], v, list[n])
  BY <1>1, <1>2, LoopIs DEF Round
<1>5. Good[0]
  <2>1. \A k \in DOMAIN base.shared : Forgot(base.shared[k], base.shared[k])
    BY DEF HubTypes, Forgot
  <2>2. Cleared(base, base)
    BY <2>1 DEF Cleared, CacheOnly, HubTypes
  <2>3. ToSet(base.replays) \subseteq {list[i] : i \in (0 + 1)..size}
    BY <1>1, <1>2
  <2> QED
    BY <1>2, <1>3, <1>4, <2>2, <2>3
<1>6. ASSUME NEW n \in 1..size, Good[n - 1] PROVE Good[n]
  <2>1. PICK g, r, old : g = f[n - 1] /\ r = f[n] /\ old = list[n]
    OBVIOUS
  <2>2. n - 1 \in 0..size /\ n \in 0..size /\ n - 1 + 1 = n
    BY <1>2
  <2>3. /\ Cleared(base, g)
        /\ g.cached + Bytes(v) <= CacheMaxBytes \/ ToSet(g.replays) \subseteq {list[i] : i \in n..size}
    BY <1>3, <1>6, <2>1, <2>2
  <2>4. r = Evict(g, v, old)
    BY <1>4, <2>1
  <2>5. CASE g.cached + Bytes(v) <= CacheMaxBytes
    <3>1. r = g
      BY <2>4, <2>5 DEF Evict
    <3> QED
      BY <1>3, <2>1, <2>2, <2>3, <2>5, <3>1
  <2>6. CASE ~(g.cached + Bytes(v) <= CacheMaxBytes)
    <3>1. r = ClearReplay(g, old)
      BY <2>4, <2>6 DEF Evict
    <3>2. HubTypes(g) /\ CacheOK(g) /\ old \in DOMAIN g.shared
      BY <1>2, <2>1, <2>3, ClearedKeeps DEF Cleared, CacheOnly
    <3>3. Cleared(g, r) /\ ToSet(r.replays) = ToSet(g.replays) \ {old}
      BY <3>1, <3>2, ClearReplayIs
    <3>4. Cleared(base, r)
      BY <2>3, <3>3, ClearedTwice
    <3>5. ToSet(r.replays) \subseteq {list[i] : i \in (n + 1)..size}
      <4> SUFFICES ASSUME NEW x \in ToSet(r.replays) PROVE x \in {list[i] : i \in (n + 1)..size}
        OBVIOUS
      <4>1. x \in ToSet(g.replays) /\ x # list[n]
        BY <2>1, <3>3
      <4>2. PICK i \in n..size : x = list[i]
        BY <2>3, <2>6, <4>1
      <4>3. i \in (n + 1)..size
        BY <1>2, <4>1, <4>2
      <4> QED
        BY <4>2, <4>3
    <3> QED
      BY <1>3, <2>1, <2>2, <3>4, <3>5
  <2> QED
    BY <2>5, <2>6
<1>7. Good[size]
  <2>1. PICK G : G = {n \in 0..size : Good[n]}
    OBVIOUS
  <2>2. 0 \in G
    BY <1>2, <1>5, <2>1
  <2>3. \A n \in 1..size : n - 1 \in G => n \in G
    BY <1>2, <1>6, <2>1
  <2>4. size \in 0..size /\ size \in Nat
    BY <1>2
  <2>5. \A n \in 0..size : n \in G
    BY <2>2, <2>3, <2>4, CountsUp, Zenon
  <2> QED
    BY <2>1, <2>4, <2>5
<1>8. {list[i] : i \in (size + 1)..size} = {}
  BY <1>2
<1> QED
  <2>1. size \in 0..size
    BY <1>2
  <2> QED
    BY <1>3, <1>7, <1>8, <2>1

LEMMA CacheReplayIs ==
    ASSUME NEW h, HubTypes(h), CacheOK(h), NEW k \in DOMAIN h.shared, NEW v \in Value
    PROVE  LET r == CacheReplay(h, k, v)
               op == r.shared[k]
           IN  /\ CacheOnly(h, r) /\ CacheOK(r)
               /\ \A j \in DOMAIN h.shared \ {k} : Forgot(h.shared[j], r.shared[j])
               /\ op \in SharedOperation /\ op.replay \in {None, v} /\ op.result = h.shared[k].result
               /\ op.stage = h.shared[k].stage /\ op.read = h.shared[k].read
               /\ op.queued = h.shared[k].queued /\ op.again = h.shared[k].again
               /\ op.failed = h.shared[k].failed
<1>1. PICK r, g, size : r = CacheReplay(h, k, v) /\ g = ClearReplay(h, k) /\ size = Len(g.replays)
  OBVIOUS
<1>2. Cleared(h, g) /\ g.shared[k].replay = None
  BY <1>1, ClearReplayIs
<1>3. HubTypes(g) /\ CacheOK(g)
  BY <1>2, ClearedKeeps DEF Cleared
<1>4. Forgot(h.shared[k], g.shared[k]) /\ k \in DOMAIN g.shared
  BY <1>2 DEF Cleared, CacheOnly
<1>5. CASE Bytes(v) > CacheMaxBytes
  <2>1. r = g
    BY <1>1, <1>5 DEF CacheReplay
  <2> QED
    BY <1>1, <1>2, <1>4, <2>1 DEF Cleared, Forgot
<1>6. CASE ~(Bytes(v) > CacheMaxBytes)
  <2>1. PICK f : f = CHOOSE e : e = [n \in 0..Len(ClearReplay(h, k).replays) |->
                           IF n = 0 THEN ClearReplay(h, k)
                           ELSE IF e[n - 1].cached + Bytes(v) <= CacheMaxBytes THEN e[n - 1]
                           ELSE ClearReplay(e[n - 1], ClearReplay(h, k).replays[n])]
    OBVIOUS
  <2>2. size \in Nat
    BY <1>1, <1>3, ListsAre DEF CacheOK
  <2>3. IsLoop("evict", f, size, g, v, g.replays)
    <3>1. PICK e : IsLoop("evict", e, Len(ClearReplay(h, k).replays), ClearReplay(h, k), v, ClearReplay(h, k).replays)
      <4>1. PICK e : IsLoop("evict", e, size, g, v, g.replays)
        BY <2>2, LoopExists
      <4> QED
        BY <1>1, <4>1, Zenon
    <3>2. e = [n \in 0..Len(ClearReplay(h, k).replays) |->
                 IF n = 0 THEN ClearReplay(h, k)
                 ELSE IF e[n - 1].cached + Bytes(v) <= CacheMaxBytes THEN e[n - 1]
                 ELSE ClearReplay(e[n - 1], ClearReplay(h, k).replays[n])]
      BY <3>1, Zenon DEF IsLoop, Round, Evict
    <3>3. f = [n \in 0..Len(ClearReplay(h, k).replays) |->
                 IF n = 0 THEN ClearReplay(h, k)
                 ELSE IF f[n - 1].cached + Bytes(v) <= CacheMaxBytes THEN f[n - 1]
                 ELSE ClearReplay(f[n - 1], ClearReplay(h, k).replays[n])]
      BY <2>1, <3>2, Zenon
    <3>4. IsLoop("evict", f, Len(ClearReplay(h, k).replays), ClearReplay(h, k), v, ClearReplay(h, k).replays)
      BY <3>3, Zenon DEF IsLoop, Round, Evict
    <3> QED
      BY <1>1, <3>4, Zenon
  <2>4. PICK b : b = f[size]
    BY Zenon
  <2>5. r = [b EXCEPT !.shared[k].replay = v, !.replays = Append(b.replays, k), !.cached = b.cached + Bytes(v)]
    <3>1. b = f[Len(ClearReplay(h, k).replays)]
      BY <1>1, <2>4, Zenon
    <3>2. CacheReplay(h, k, v) =
            IF Bytes(v) > CacheMaxBytes THEN ClearReplay(h, k)
            ELSE LET e == CHOOSE e : e = [n \in 0..Len(ClearReplay(h, k).replays) |->
                           IF n = 0 THEN ClearReplay(h, k)
                           ELSE IF e[n - 1].cached + Bytes(v) <= CacheMaxBytes THEN e[n - 1]
                           ELSE ClearReplay(e[n - 1], ClearReplay(h, k).replays[n])]
                     fitting == e[Len(ClearReplay(h, k).replays)]
                 IN  [fitting EXCEPT !.shared[k].replay = v,
                                     !.replays = Append(fitting.replays, k),
                                     !.cached = fitting.cached + Bytes(v)]
      BY DEF CacheReplay
    <3> QED
      BY <1>1, <1>6, <2>1, <3>1, <3>2, Zenon
  <2>6. Cleared(g, b) /\ (b.cached + Bytes(v) <= CacheMaxBytes \/ ToSet(b.replays) = {})
    BY <1>1, <1>3, <2>3, <2>4, EvictionMakesRoom
  <2>7. Cleared(h, b) /\ HubTypes(b) /\ CacheOK(b)
    BY <1>2, <1>3, <2>6, ClearedTwice, ClearedKeeps DEF Cleared
  <2>8. k \in DOMAIN b.shared /\ b.shared[k].replay = None /\ Forgot(h.shared[k], b.shared[k])
        /\ b.shared[k] \in SharedOperation
    <3>1. Forgot(g.shared[k], b.shared[k]) /\ k \in DOMAIN b.shared
      BY <1>4, <2>6 DEF Cleared, CacheOnly
    <3>2. Forgot(h.shared[k], b.shared[k])
      BY <2>7 DEF Cleared
    <3> QED
      BY <1>2, <3>1, <3>2 DEF Forgot
  <2>9. /\ CacheOnly(b, r) /\ r.replays = Append(b.replays, k) /\ r.cached = b.cached + Bytes(v)
        /\ r.shared = [b.shared EXCEPT ![k] = [b.shared[k] EXCEPT !.replay = v]]
    BY <2>5, <2>7 DEF CacheOnly, HubTypes, Fields
  <2>10. /\ \A j \in DOMAIN b.shared \ {k} : r.shared[j] = b.shared[j]
         /\ r.shared[k] = [b.shared[k] EXCEPT !.replay = v]
    BY <2>8, <2>9
  <2>11. PICK old, op : old = b.shared[k] /\ op = r.shared[k]
    OBVIOUS
  <2>12. /\ op \in SharedOperation /\ op.replay = v /\ op.result = old.result
         /\ op.stage = old.stage /\ op.read = old.read
         /\ op.queued = old.queued /\ op.again = old.again /\ op.failed = old.failed
    BY <2>8, <2>10, <2>11, OpFields DEF SharedOperation
  <2>13. CacheOnly(h, r)
    BY <2>7, <2>9 DEF Cleared, CacheOnly
  <2>14. \A j \in DOMAIN h.shared \ {k} : Forgot(h.shared[j], r.shared[j])
    BY <2>7, <2>10 DEF Cleared, CacheOnly
  <2>15. /\ Lists(b.replays, Cached(b)) /\ ToSet(b.replays) = Cached(b) /\ IsFiniteSet(CachedBytes(b))
         /\ b.cached = Cardinality(CachedBytes(b)) /\ b.cached \in Nat
    BY <2>7, FS_CardinalityType DEF CacheOK, Lists
  <2>16. v # None /\ Bytes(v) \in Nat /\ CacheMaxBytes \in Nat
    BY BytesAre, LiveQueryAssumption
  <2>17. k \notin Cached(b) /\ Cached(r) = Cached(b) \cup {k}
    BY <2>8, <2>9, <2>10, <2>11, <2>12, <2>16 DEF Cached, CacheOnly
  <2>18. Lists(r.replays, Cached(r)) /\ ToSet(r.replays) = Cached(b) \cup {k}
    <3>1. Lists(Append(b.replays, k), Cached(b) \cup {k})
      BY <2>15, <2>17, ListsAppend, Zenon
    <3>2. Lists(r.replays, Cached(r)) /\ Lists(r.replays, Cached(b) \cup {k})
      BY <2>9, <2>17, <3>1, Zenon
    <3> QED
      BY <3>2, Zenon DEF Lists
  <2>19. CachedBytes(b) = Cells(b.shared, Cached(b)) /\ CachedBytes(r) = Cells(r.shared, Cached(b) \cup {k})
    BY <2>15, <2>18 DEF CachedBytes, Cells
  <2>20. IsFiniteSet(CachedBytes(r)) /\ Cardinality(CachedBytes(r)) = b.cached + Bytes(v)
    <3>1. \A j \in Cached(b) : b.shared[j].replay = r.shared[j].replay
      BY <2>10, <2>17 DEF Cached
    <3>2. Bytes(r.shared[k].replay) = Bytes(v)
      BY <2>11, <2>12
    <3> QED
      BY <2>15, <2>16, <2>17, <2>19, <3>1, <3>2, CellsJoin
  <2>21. b.cached + Bytes(v) <= CacheMaxBytes
    <3>1. ASSUME ToSet(b.replays) = {} PROVE b.cached = 0
      <4>1. CachedBytes(b) = {}
        BY <3>1 DEF CachedBytes
      <4> QED
        BY <2>15, <4>1, FS_EmptySet
    <3> QED
      BY <1>6, <2>6, <2>15, <2>16, <3>1
  <2>22. CacheOK(r)
    BY <2>9, <2>18, <2>20, <2>21 DEF CacheOK
  <2> QED
    BY <1>1, <2>8, <2>11, <2>12, <2>13, <2>14, <2>22 DEF Forgot
<1> QED
  BY <1>5, <1>6

-----------------------------------------------------------------------------
(* The end of a subscription.                                              *)

LEMMA SetActiveDeltaIs ==
    ASSUME NEW h, DOMAIN h = Fields, NEW delta
    PROVE  LET r == SetActiveDelta(h, delta)
           IN  /\ DOMAIN r = Fields
               /\ r.ops = h.ops /\ r.shared = h.shared /\ r.order = h.order
               /\ r.initial = h.initial /\ r.rerun = h.rerun /\ r.replays = h.replays
               /\ r.pending = h.pending /\ r.running = h.running /\ r.cached = h.cached
               /\ r.disposed = h.disposed /\ r.orphans = h.orphans
               /\ r.active = h.active + delta
               /\ r.debounce = (h.debounce /\ h.active + delta > 0)
               /\ r.calls = IF (h.active > 0) # (h.active + delta > 0)
                            THEN Append(h.calls, h.active + delta > 0) ELSE h.calls
  BY DEF SetActiveDelta, Fields

LEMMA RemoveQueuedIs ==
    ASSUME NEW h, HubTypes(h), CacheOK(h), NEW k \in DOMAIN h.shared
    PROVE  LET r == RemoveQueued(h, k)
           IN  /\ HubTypes(r) /\ CacheOK(r)
               /\ r.ops = h.ops /\ r.order = h.order /\ r.active = h.active /\ r.pending = h.pending
               /\ r.running = h.running /\ r.debounce = h.debounce /\ r.disposed = h.disposed
               /\ r.orphans = h.orphans /\ r.calls = h.calls
               /\ r.initial = RemoveFirst(h.initial, k) /\ r.rerun = RemoveFirst(h.rerun, k)
               /\ DOMAIN r.shared = DOMAIN h.shared
               /\ r.shared[k].stage = h.shared[k].stage
               /\ \A j \in DOMAIN h.shared \ {k} : r.shared[j] = h.shared[j]
<1>1. PICK r, op : r = RemoveQueued(h, k) /\ op = h.shared[k]
  OBVIOUS
<1>2. DOMAIN h = Fields /\ op \in SharedOperation
  BY <1>1 DEF HubTypes
<1>3. /\ DOMAIN r = Fields
      /\ r.ops = h.ops /\ r.order = h.order /\ r.active = h.active /\ r.pending = h.pending
      /\ r.running = h.running /\ r.debounce = h.debounce /\ r.disposed = h.disposed
      /\ r.orphans = h.orphans /\ r.calls = h.calls /\ r.replays = h.replays /\ r.cached = h.cached
      /\ r.initial = RemoveFirst(h.initial, k) /\ r.rerun = RemoveFirst(h.rerun, k)
      /\ r.shared = [h.shared EXCEPT ![k] = [op EXCEPT !.queued = "no"]]
  BY <1>1, <1>2 DEF RemoveQueued, Fields
<1>4. /\ DOMAIN r.shared = DOMAIN h.shared
      /\ r.shared[k] = [op EXCEPT !.queued = "no"]
      /\ \A j \in DOMAIN h.shared \ {k} : r.shared[j] = h.shared[j]
  BY <1>3
<1>5. r.shared[k] \in SharedOperation /\ r.shared[k].stage = op.stage /\ r.shared[k].replay = op.replay
  BY <1>2, <1>4, OpFields DEF SharedOperation
<1>6. \A j \in DOMAIN h.shared : r.shared[j] \in SharedOperation /\ r.shared[j].replay = h.shared[j].replay
  BY <1>1, <1>4, <1>5 DEF HubTypes
<1>7. HubTypes(r)
  BY <1>3, <1>4, <1>6 DEF HubTypes
<1>8. Cached(r) = Cached(h)
  BY <1>4, <1>6 DEF Cached
<1>9. CachedBytes(r) = CachedBytes(h)
  <2>1. \A j \in ToSet(h.replays) : j \in DOMAIN h.shared
    BY DEF CacheOK, Lists, Cached
  <2> QED
    BY <1>3, <1>6, <2>1 DEF CachedBytes
<1>10. CacheOK(r)
  BY <1>3, <1>8, <1>9 DEF CacheOK
<1> QED
  BY <1>1, <1>3, <1>4, <1>5, <1>7, <1>10

LEMMA DropSharedIs ==
    ASSUME NEW h, HubTypes(h), CacheOK(h), NEW k \in DOMAIN h.shared
    PROVE  LET r == DropShared(h, k)
           IN  /\ HubTypes(r) /\ CacheOK(r)
               /\ r.ops = h.ops /\ r.active = h.active /\ r.pending = h.pending
               /\ r.running = h.running /\ r.debounce = h.debounce /\ r.disposed = h.disposed
               /\ r.calls = h.calls /\ r.order = RemoveFirst(h.order, k)
               /\ r.orphans = h.orphans + (IF h.shared[k].stage = "idle" THEN 0 ELSE 1)
               /\ r.initial = RemoveFirst(h.initial, k) /\ r.rerun = RemoveFirst(h.rerun, k)
               /\ DOMAIN r.shared = DOMAIN h.shared \ {k}
               /\ \A j \in DOMAIN h.shared \ {k} : r.shared[j] = h.shared[j]
<1>1. PICK r, g, q : r = DropShared(h, k) /\ g = ClearReplay(q, k) /\ q = RemoveQueued(h, k)
  OBVIOUS
<1>2. /\ HubTypes(q) /\ CacheOK(q) /\ k \in DOMAIN q.shared
      /\ q.ops = h.ops /\ q.order = h.order /\ q.active = h.active /\ q.pending = h.pending
      /\ q.running = h.running /\ q.debounce = h.debounce /\ q.disposed = h.disposed
      /\ q.orphans = h.orphans /\ q.calls = h.calls
      /\ q.initial = RemoveFirst(h.initial, k) /\ q.rerun = RemoveFirst(h.rerun, k)
      /\ DOMAIN q.shared = DOMAIN h.shared
      /\ \A j \in DOMAIN h.shared \ {k} : q.shared[j] = h.shared[j]
  BY <1>1, RemoveQueuedIs
<1>3. /\ Cleared(q, g) /\ g.shared[k].replay = None
      /\ \A j \in DOMAIN q.shared \ {k} : g.shared[j] = q.shared[j]
  BY <1>1, <1>2, ClearReplayIs
<1>4. HubTypes(g) /\ CacheOK(g) /\ CacheOnly(q, g)
  BY <1>2, <1>3, ClearedKeeps DEF Cleared
<1>5. PICK one : one = IF h.shared[k].stage = "idle" THEN 0 ELSE 1
  OBVIOUS
<1>6. r = [g EXCEPT !.shared = Without(g.shared, k), !.order = RemoveFirst(g.order, k), !.orphans = g.orphans + one]
  BY <1>1, <1>5 DEF DropShared
<1>7. /\ DOMAIN r = Fields /\ r.replays = g.replays /\ r.cached = g.cached
      /\ r.ops = h.ops /\ r.active = h.active /\ r.pending = h.pending
      /\ r.running = h.running /\ r.debounce = h.debounce /\ r.disposed = h.disposed
      /\ r.calls = h.calls /\ r.order = RemoveFirst(h.order, k) /\ r.orphans = h.orphans + one
      /\ r.initial = RemoveFirst(h.initial, k) /\ r.rerun = RemoveFirst(h.rerun, k)
      /\ r.shared = Without(g.shared, k)
  BY <1>2, <1>4, <1>6 DEF CacheOnly, HubTypes, Fields
<1>8. /\ DOMAIN g.shared = DOMAIN h.shared /\ DOMAIN r.shared = DOMAIN h.shared \ {k}
      /\ \A j \in DOMAIN h.shared \ {k} : r.shared[j] = h.shared[j] /\ r.shared[j] = g.shared[j]
  BY <1>2, <1>3, <1>4, <1>7 DEF CacheOnly, Without
<1>9. HubTypes(r)
  <2>1. r.orphans \in Nat
    BY <1>5, <1>7 DEF HubTypes
  <2>2. IsFiniteSet(DOMAIN r.shared)
    BY <1>8, FS_Subset DEF HubTypes
  <2> QED
    BY <1>7, <1>8, <2>1, <2>2 DEF HubTypes
<1>10. Cached(r) = Cached(g)
  BY <1>3, <1>8 DEF Cached
<1>11. CachedBytes(r) = CachedBytes(g)
  <2>1. \A j \in ToSet(g.replays) : j \in DOMAIN g.shared /\ j # k
    BY <1>3, <1>4 DEF CacheOK, Lists, Cached
  <2> QED
    BY <1>7, <1>8, <2>1 DEF CachedBytes
<1>12. CacheOK(r)
  BY <1>4, <1>7, <1>10, <1>11 DEF CacheOK
<1> QED
  BY <1>1, <1>5, <1>7, <1>8, <1>9, <1>12

\* From h to r only subscriptions ended, and with them operations.
Deleted(h, r) ==
    /\ DOMAIN r.ops \subseteq DOMAIN h.ops /\ \A s \in DOMAIN r.ops : r.ops[s] = h.ops[s]
    /\ DOMAIN r.shared \subseteq DOMAIN h.shared /\ \A k \in DOMAIN r.shared : r.shared[k] = h.shared[k]
    /\ r.pending = h.pending /\ r.running = h.running /\ r.disposed = h.disposed
    /\ r.active <= h.active
    /\ (r.debounce => h.debounce) /\ (h.debounce => r.debounce \/ r.active = 0)
    /\ r.calls = IF h.active > 0 /\ r.active = 0 THEN Append(h.calls, FALSE) ELSE h.calls
    /\ MarksOK(h) => MarksOK(r)
    /\ Pumped(h) => Pumped(r)

LEMMA HubNumbers ==
    ASSUME NEW h, HubOK(h)
    PROVE  /\ h.active \in Nat /\ h.running \in Nat /\ h.cached \in Nat /\ h.orphans \in Nat
           /\ IsFiniteSet(Busy(h)) /\ Cardinality(Busy(h)) \in Nat /\ MaxConcurrent \in Nat \ {0}
<1>1. IsFiniteSet(DOMAIN h.ops) /\ IsFiniteSet(DOMAIN h.shared) /\ h.orphans \in Nat
  BY DEF HubOK, HubTypes
<1>2. IsFiniteSet(Busy(h))
  BY <1>1, FS_Subset DEF Busy
<1>3. /\ Cardinality(DOMAIN h.ops) \in Nat /\ Cardinality(Busy(h)) \in Nat
      /\ Cardinality(CachedBytes(h)) \in Nat
  BY <1>1, <1>2, FS_CardinalityType DEF HubOK, CacheOK
<1> QED
  BY <1>1, <1>2, <1>3, LiveQueryAssumption DEF HubOK, Counted, CacheOK

LEMMA DeletedNone ==
    ASSUME NEW h, HubOK(h)
    PROVE  Deleted(h, h)
<1>1. h.active \in Nat
  BY HubNumbers
<1>2. ~(h.active > 0 /\ h.active = 0) /\ h.active <= h.active
  BY <1>1
<1>3. h.calls = IF h.active > 0 /\ h.active = 0 THEN Append(h.calls, FALSE) ELSE h.calls
  BY <1>2, Zenon
<1> QED
  BY <1>2, <1>3, Zenon DEF Deleted

LEMMA DeletedTwice ==
    ASSUME NEW h, NEW g, NEW r, HubOK(h), HubOK(g), HubOK(r), Deleted(h, g), Deleted(g, r)
    PROVE  Deleted(h, r)
<1>1. h.active \in Nat /\ g.active \in Nat /\ r.active \in Nat
  BY HubNumbers
<1>2. r.calls = IF h.active > 0 /\ r.active = 0 THEN Append(h.calls, FALSE) ELSE h.calls
  <2>1. g.active <= h.active /\ r.active <= g.active
    BY DEF Deleted
  <2>2. /\ g.calls = IF h.active > 0 /\ g.active = 0 THEN Append(h.calls, FALSE) ELSE h.calls
        /\ r.calls = IF g.active > 0 /\ r.active = 0 THEN Append(g.calls, FALSE) ELSE g.calls
    BY DEF Deleted
  <2>3. CASE g.active = 0
    <3>1. r.active = 0 /\ ~(g.active > 0)
      BY <1>1, <2>1, <2>3
    <3> QED
      BY <2>2, <2>3, <3>1, Zenon
  <2>4. CASE g.active # 0
    <3>1. g.active > 0 /\ h.active > 0
      BY <1>1, <2>1, <2>4
    <3> QED
      BY <2>2, <2>4, <3>1, Zenon
  <2> QED
    BY <2>3, <2>4
<1>3. r.active <= h.active /\ (g.active = 0 => r.active = 0)
  <2>1. g.active <= h.active /\ r.active <= g.active
    BY DEF Deleted
  <2> QED
    BY <1>1, <2>1
<1>4. (r.debounce => h.debounce) /\ (h.debounce => r.debounce \/ r.active = 0)
  BY <1>3, Zenon DEF Deleted
<1>5. /\ DOMAIN r.ops \subseteq DOMAIN h.ops /\ \A s \in DOMAIN r.ops : r.ops[s] = h.ops[s]
      /\ DOMAIN r.shared \subseteq DOMAIN h.shared /\ \A k \in DOMAIN r.shared : r.shared[k] = h.shared[k]
      /\ r.pending = h.pending /\ r.running = h.running /\ r.disposed = h.disposed
      /\ MarksOK(h) => MarksOK(r)
      /\ Pumped(h) => Pumped(r)
  BY DEF Deleted
<1> QED
  BY <1>2, <1>3, <1>4, <1>5, Zenon DEF Deleted

LEMMA BusyLess ==
    ASSUME NEW h, NEW r, NEW k \in DOMAIN h.shared, IsFiniteSet(DOMAIN h.shared),
           DOMAIN r.shared = DOMAIN h.shared \ {k}, \A j \in DOMAIN r.shared : r.shared[j] = h.shared[j]
    PROVE  Cardinality(Busy(h)) = Cardinality(Busy(r)) + (IF h.shared[k].stage = "idle" THEN 0 ELSE 1)
<1>1. Busy(r) = Busy(h) \ {k} /\ (k \in Busy(h) <=> h.shared[k].stage # "idle")
  BY DEF Busy
<1>2. IsFiniteSet(Busy(h))
  BY FS_Subset DEF Busy
<1>3. Cardinality(Busy(h)) \in Nat
  BY <1>2, FS_CardinalityType
<1>4. Cardinality(Busy(r)) = IF k \in Busy(h) THEN Cardinality(Busy(h)) - 1 ELSE Cardinality(Busy(h))
  BY <1>1, <1>2, FS_RemoveElement
<1> QED
  BY <1>1, <1>3, <1>4

\* deleteOperation keeps the books.
LEMMA DeleteOperationIs ==
    ASSUME NEW h, HubOK(h), NEW s
    PROVE  LET r == DeleteOperation(h, s)
           IN  /\ HubOK(r) /\ Deleted(h, r)
               /\ DOMAIN r.ops = DOMAIN h.ops \ {s}
<1>1. CASE s \notin DOMAIN h.ops
  <2>1. DeleteOperation(h, s) = h /\ DOMAIN h.ops = DOMAIN h.ops \ {s}
    BY <1>1, Zenon DEF DeleteOperation
  <2> QED
    BY <2>1, DeletedNone
<1>2. CASE s \in DOMAIN h.ops
  <2>1. PICK b, g, k, sub, r : /\ b = [h EXCEPT !.ops = Without(h.ops, s)] /\ g = SetActiveDelta(b, -1)
                               /\ sub = h.ops[s] /\ k = sub.key /\ r = DeleteOperation(h, s)
    OBVIOUS
  <2>2. r = IF sub.attached /\ Subscribers(g, k) = {} THEN DropShared(g, k) ELSE g
    BY <1>2, <2>1 DEF DeleteOperation
  <2>3. /\ HubTypes(h) /\ DOMAIN h = Fields /\ sub \in Subscription /\ sub.attached \in BOOLEAN
        /\ h.active \in Nat /\ h.active = Cardinality(DOMAIN h.ops) /\ IsFiniteSet(DOMAIN h.ops)
        /\ h.debounce \in BOOLEAN
    BY <1>2, <2>1, HubNumbers DEF HubOK, HubTypes, Counted, Subscription
  <2>4. /\ DOMAIN b = Fields /\ b.ops = Without(h.ops, s) /\ b.shared = h.shared /\ b.order = h.order
        /\ b.initial = h.initial /\ b.rerun = h.rerun /\ b.replays = h.replays
        /\ b.pending = h.pending /\ b.running = h.running /\ b.cached = h.cached
        /\ b.disposed = h.disposed /\ b.orphans = h.orphans /\ b.active = h.active
        /\ b.debounce = h.debounce /\ b.calls = h.calls
    BY <2>1, <2>3 DEF Fields
  <2>5. DOMAIN b.ops = DOMAIN h.ops \ {s} /\ \A x \in DOMAIN b.ops : b.ops[x] = h.ops[x]
    BY <2>4 DEF Without
  <2>6. h.active > 0 /\ h.active + (-1) = h.active - 1 /\ h.active - 1 \in Nat
        /\ Cardinality(DOMAIN b.ops) = h.active - 1 /\ IsFiniteSet(DOMAIN b.ops)
    <3>1. Cardinality(DOMAIN h.ops \ {s}) = h.active - 1 /\ IsFiniteSet(DOMAIN h.ops \ {s})
      BY <1>2, <2>3, FS_RemoveElement
    <3>2. Cardinality(DOMAIN h.ops \ {s}) \in Nat
      BY <3>1, FS_CardinalityType
    <3> QED
      BY <2>3, <2>5, <3>1, <3>2
  <2>7. /\ DOMAIN g = Fields /\ g.ops = b.ops /\ g.shared = h.shared /\ g.order = h.order
        /\ g.initial = h.initial /\ g.rerun = h.rerun /\ g.replays = h.replays
        /\ g.pending = h.pending /\ g.running = h.running /\ g.cached = h.cached
        /\ g.disposed = h.disposed /\ g.orphans = h.orphans /\ g.active = h.active - 1
        /\ g.debounce = (h.debounce /\ h.active - 1 > 0)
        /\ g.calls = IF (h.active > 0) # (h.active - 1 > 0) THEN Append(h.calls, h.active - 1 > 0) ELSE h.calls
    <3>1. PICK d, q : d = -1 /\ q = b.active + d
      OBVIOUS
    <3>2. g = SetActiveDelta(b, d)
      BY <2>1, <3>1
    <3>3. /\ DOMAIN g = Fields /\ g.ops = b.ops /\ g.shared = b.shared /\ g.order = b.order
          /\ g.initial = b.initial /\ g.rerun = b.rerun /\ g.replays = b.replays
          /\ g.pending = b.pending /\ g.running = b.running /\ g.cached = b.cached
          /\ g.disposed = b.disposed /\ g.orphans = b.orphans /\ g.active = q
          /\ g.debounce = (b.debounce /\ q > 0)
          /\ g.calls = IF (b.active > 0) # (q > 0) THEN Append(b.calls, q > 0) ELSE b.calls
      BY <2>4, <3>1, <3>2, SetActiveDeltaIs
    <3>4. q = h.active - 1
      BY <2>3, <2>4, <2>6, <3>1
    <3> QED
      BY <2>4, <3>3, <3>4, Zenon
  <2>8. g.calls = IF h.active > 0 /\ g.active = 0 THEN Append(h.calls, FALSE) ELSE h.calls
    <3>1. CASE h.active = 1
      <4>1. (h.active - 1 > 0) = FALSE /\ (h.active > 0) = TRUE /\ g.active = 0
        BY <2>6, <2>7, <3>1
      <4> QED
        BY <2>7, <4>1
    <3>2. CASE h.active # 1
      <4>1. (h.active - 1 > 0) = TRUE /\ (h.active > 0) = TRUE /\ g.active # 0
        BY <2>3, <2>6, <2>7, <3>2
      <4> QED
        BY <2>7, <4>1
    <3> QED
      BY <3>1, <3>2
  <2>9. /\ g.active <= h.active
        /\ g.debounce \in BOOLEAN /\ (g.debounce => h.debounce) /\ (h.debounce => g.debounce \/ g.active = 0)
    BY <2>3, <2>6, <2>7
  <2>10. HubTypes(g)
    BY <2>3, <2>5, <2>6, <2>7, <2>9 DEF HubTypes
  <2>11. CacheOK(g)
    <3>1. Cached(g) = Cached(h) /\ CachedBytes(g) = CachedBytes(h) /\ CacheOK(h)
      BY <2>7 DEF Cached, CachedBytes, HubOK
    <3> QED
      BY <2>7, <3>1 DEF CacheOK
  <2>12. \A j : Subscribers(g, j) = Subscribers(h, j) \ {s}
    BY <2>5, <2>7 DEF Subscribers
  <2>13. /\ \A j \in DOMAIN h.shared : OpOK(h.shared[j])
         /\ Lists(h.order, DOMAIN h.shared)
         /\ h.disposed => h.initial = <<>> /\ h.rerun = <<>> /\ ~h.debounce
    BY DEF HubOK, OrderOK
  <2>14. /\ \A x \in DOMAIN h.ops : h.ops[x].attached => h.ops[x].key \in DOMAIN h.shared
         /\ \A j \in DOMAIN h.shared : Subscribers(h, j) # {}
    BY DEF HubOK, Linked
  <2>15. h.running = h.orphans + Cardinality(Busy(h)) /\ h.running <= MaxConcurrent
         /\ h.orphans \in Nat /\ Cardinality(Busy(h)) \in Nat
    BY HubNumbers DEF HubOK, Counted
  <2>16. CASE ~(sub.attached /\ Subscribers(g, k) = {})
    <3>1. r = g
      BY <2>2, <2>16, Zenon
    <3>2. Linked(g)
      <4>1. ASSUME NEW j \in DOMAIN g.shared PROVE Subscribers(g, j) # {}
        <5>1. Subscribers(h, j) # {} /\ Subscribers(g, j) = Subscribers(h, j) \ {s}
          BY <2>7, <2>12, <2>14, <4>1
        <5>2. CASE s \notin Subscribers(h, j)
          BY <5>1, <5>2
        <5>3. CASE s \in Subscribers(h, j)
          <6>1. sub.attached /\ k = j
            BY <2>1, <5>3 DEF Subscribers
          <6> QED
            BY <2>16, <6>1
        <5> QED
          BY <5>2, <5>3
      <4> QED
        BY <2>5, <2>7, <2>14, <4>1 DEF Linked
    <3>3. Counted(g)
      <4>1. Busy(g) = Busy(h)
        BY <2>7 DEF Busy
      <4> QED
        BY <2>6, <2>7, <2>15, <4>1 DEF Counted
    <3>4. OrderOK(g)
      BY <2>7, <2>9, <2>13 DEF OrderOK
    <3>5. (MarksOK(h) => MarksOK(g)) /\ (Pumped(h) => Pumped(g))
      BY <2>7 DEF MarksOK, Pumped, Marked
    <3>6. Deleted(h, g)
      BY <2>5, <2>7, <2>8, <2>9, <3>5 DEF Deleted
    <3> QED
      BY <2>1, <2>5, <2>7, <2>10, <2>11, <3>1, <3>2, <3>3, <3>4, <3>6 DEF HubOK
  <2>17. CASE sub.attached /\ Subscribers(g, k) = {}
    <3>1. r = DropShared(g, k)
      BY <2>2, <2>17, Zenon
    <3>2. k \in DOMAIN h.shared
      BY <1>2, <2>1, <2>14, <2>17
    <3>3. /\ HubTypes(r) /\ CacheOK(r)
          /\ r.ops = g.ops /\ r.active = g.active /\ r.pending = h.pending
          /\ r.running = h.running /\ r.debounce = g.debounce /\ r.disposed = h.disposed
          /\ r.calls = g.calls /\ r.order = RemoveFirst(h.order, k)
          /\ r.orphans = h.orphans + (IF h.shared[k].stage = "idle" THEN 0 ELSE 1)
          /\ r.initial = RemoveFirst(h.initial, k) /\ r.rerun = RemoveFirst(h.rerun, k)
          /\ DOMAIN r.shared = DOMAIN h.shared \ {k}
          /\ \A j \in DOMAIN h.shared \ {k} : r.shared[j] = h.shared[j]
      BY <2>7, <2>10, <2>11, <3>1, <3>2, DropSharedIs
    <3>4. \A j : Subscribers(r, j) = Subscribers(g, j)
      BY <3>3 DEF Subscribers
    <3>5. Linked(r)
      <4>1. ASSUME NEW x \in DOMAIN r.ops, r.ops[x].attached PROVE r.ops[x].key \in DOMAIN r.shared
        <5>1. x \in DOMAIN h.ops /\ r.ops[x] = h.ops[x] /\ x \in DOMAIN g.ops /\ g.ops[x] = h.ops[x]
          BY <2>5, <2>7, <3>3, <4>1
        <5>2. h.ops[x].key \in DOMAIN h.shared
          BY <2>14, <4>1, <5>1
        <5>3. h.ops[x].key # k
          BY <2>17, <4>1, <5>1 DEF Subscribers
        <5> QED
          BY <3>3, <5>1, <5>2, <5>3
      <4>2. ASSUME NEW j \in DOMAIN r.shared PROVE Subscribers(r, j) # {}
        <5>1. j \in DOMAIN h.shared /\ j # k
          BY <3>3, <4>2
        <5>2. s \notin Subscribers(h, j)
          BY <2>1, <5>1 DEF Subscribers
        <5> QED
          BY <2>12, <2>14, <3>4, <5>1, <5>2
      <4> QED
        BY <4>1, <4>2 DEF Linked
    <3>6. Counted(r)
      <4>1. \A j \in DOMAIN r.shared : r.shared[j] = h.shared[j]
        BY <3>3
      <4>2. PICK one : one = IF h.shared[k].stage = "idle" THEN 0 ELSE 1
        OBVIOUS
      <4>3. Cardinality(Busy(h)) = Cardinality(Busy(r)) + one
        BY <2>3, <3>2, <3>3, <4>1, <4>2, BusyLess DEF HubTypes
      <4>4. Cardinality(Busy(r)) \in Nat
        BY <3>3, FS_Subset, FS_CardinalityType DEF HubTypes, Busy
      <4>5. r.orphans = h.orphans + one /\ one \in {0, 1} /\ r.running = h.running
        BY <3>3, <4>2
      <4>6. r.running = r.orphans + Cardinality(Busy(r)) /\ r.running <= MaxConcurrent
        BY <2>15, <4>3, <4>4, <4>5
      <4> QED
        BY <2>6, <2>7, <3>3, <4>6 DEF Counted
    <3>7. OrderOK(r)
      <4>1. Lists(r.order, DOMAIN r.shared)
        BY <2>13, <3>3, ListsRemove
      <4>2. \A j \in DOMAIN r.shared : OpOK(r.shared[j])
        BY <2>13, <3>3
      <4>3. r.disposed => r.initial = <<>> /\ r.rerun = <<>> /\ ~r.debounce
        BY <2>9, <2>13, <3>3, RemoveFromEmpty
      <4> QED
        BY <4>1, <4>2, <4>3 DEF OrderOK
    <3>8. ASSUME MarksOK(h) PROVE MarksOK(r)
      <4>1. \A kind : Marked(r, kind) = Marked(h, kind) \ {k}
        BY <3>3 DEF Marked
      <4>2. Lists(h.initial, Marked(h, "initial")) /\ Lists(h.rerun, Marked(h, "rerun"))
        BY <3>8 DEF MarksOK
      <4>3. Lists(r.initial, Marked(h, "initial") \ {k}) /\ Lists(r.rerun, Marked(h, "rerun") \ {k})
        BY <3>3, <4>2, ListsRemove
      <4> QED
        BY <4>1, <4>3, Zenon DEF MarksOK
    <3>9. Pumped(h) => Pumped(r)
      BY <3>3, RemoveFromEmpty DEF Pumped
    <3>10. Deleted(h, r)
      BY <2>5, <2>7, <2>8, <2>9, <3>3, <3>8, <3>9 DEF Deleted
    <3> QED
      BY <2>1, <2>5, <2>7, <3>3, <3>5, <3>6, <3>7, <3>10 DEF HubOK
  <2> QED
    BY <2>16, <2>17
<1> QED
  BY <1>1, <1>2


\* So do deletions of many subscriptions.
LEMMA DeleteAllIs ==
    ASSUME NEW h, HubOK(h), NEW set, IsFiniteSet(set)
    PROVE  LET r == DeleteAll(h, set)
           IN  HubOK(r) /\ Deleted(h, r) /\ DOMAIN r.ops = DOMAIN h.ops \ set
<1>1. PICK list, size, r : list = SetToSeq(set) /\ size = Len(list) /\ r = DeleteAll(h, set)
  OBVIOUS
<1>2. /\ size \in Nat /\ 0 \in 0..size /\ size \in 0..size
      /\ \A x \in set : \E i \in 1..size : list[i] = x
      /\ \A i \in 1..size : list[i] \in set
  <2>1. Lists(list, set)
    BY <1>1, ListsSet
  <2> QED
    BY <1>1, <2>1, ListsAre
<1>3. PICK f : f = CHOOSE e : e = [n \in 0..size |-> IF n = 0 THEN h ELSE DeleteOperation(e[n - 1], list[n])]
  OBVIOUS
<1>4. r = f[size]
  BY <1>1, <1>3 DEF DeleteAll
<1>5. IsLoop("delete", f, size, h, None, list)
  <2>1. PICK e : IsLoop("delete", e, size, h, None, list)
    BY <1>2, LoopExists
  <2>2. e = [n \in 0..size |-> IF n = 0 THEN h ELSE DeleteOperation(e[n - 1], list[n])]
    BY <2>1, Zenon DEF IsLoop, Round
  <2>3. f = [n \in 0..size |-> IF n = 0 THEN h ELSE DeleteOperation(f[n - 1], list[n])]
    BY <1>3, <2>2, Zenon
  <2> QED
    BY <2>3, Zenon DEF IsLoop, Round
<1>6. f[0] = h /\ \A n \in 1..size : f[n] = DeleteOperation(f[n - 1], list[n])
  BY <1>2, <1>5, LoopIs DEF Round
<1>7. PICK G : G = {n \in 0..size : /\ HubOK(f[n]) /\ Deleted(h, f[n])
                                    /\ DOMAIN f[n].ops = DOMAIN h.ops \ {list[i] : i \in 1..n}}
  OBVIOUS
<1>8. 0 \in G
  <2>1. {list[i] : i \in 1..0} = {}
    OBVIOUS
  <2> QED
    BY <1>2, <1>6, <1>7, <2>1, DeletedNone
<1>9. ASSUME NEW n \in 1..size, n - 1 \in G PROVE n \in G
  <2>1. PICK g, s, before : g = f[n - 1] /\ s = list[n] /\ before = {list[i] : i \in 1..(n - 1)}
    OBVIOUS
  <2>2. HubOK(g) /\ Deleted(h, g) /\ DOMAIN g.ops = DOMAIN h.ops \ before
    BY <1>7, <1>9, <2>1
  <2>3. f[n] = DeleteOperation(g, s)
    BY <1>6, <2>1
  <2>4. HubOK(f[n]) /\ Deleted(g, f[n]) /\ DOMAIN f[n].ops = DOMAIN g.ops \ {s}
    BY <2>2, <2>3, DeleteOperationIs
  <2>5. Deleted(h, f[n])
    BY <2>2, <2>4, DeletedTwice
  <2>6. {list[i] : i \in 1..n} = before \cup {s}
    <3>1. \A i \in 1..n : i \in 1..(n - 1) \/ i = n
      BY <1>2
    <3>2. \A i \in 1..(n - 1) : i \in 1..n
      BY <1>2
    <3>3. n \in 1..n
      BY <1>2
    <3> QED
      BY <2>1, <3>1, <3>2, <3>3
  <2>7. n \in 0..size
    BY <1>2
  <2> QED
    BY <1>7, <2>2, <2>4, <2>5, <2>6, <2>7
<1>10. size \in G
  <2>1. \A n \in 0..size : n \in G
    BY <1>2, <1>8, <1>9, CountsUp
  <2> QED
    BY <1>2, <2>1
<1>11. {list[i] : i \in 1..size} = set
  BY <1>2
<1> QED
  BY <1>1, <1>4, <1>7, <1>10, <1>11

-----------------------------------------------------------------------------
(* The executions.                                                         *)

\* From op to new at most an execution was queued, put off or begun.
Sooner(op, new) ==
    /\ new \in SharedOperation /\ OpOK(new)
    /\ new.result = op.result /\ new.replay = op.replay /\ new.read = op.read /\ new.failed = op.failed
    /\ new.stage = op.stage \/ (op.stage = "idle" /\ new.stage = "asked")
    /\ ToCome(new) \/ (new.stage = op.stage /\ new.queued = op.queued /\ new.again = op.again)

\* The queues and the counts of h are in order.
Ordered(h) == HubOK(h) /\ MarksOK(h)

\* Nothing but the queues and the operations' executions is other in r than in h.
QueuesOnly(h, r) ==
    /\ DOMAIN r = Fields
    /\ r.ops = h.ops /\ r.order = h.order /\ r.replays = h.replays
    /\ r.active = h.active /\ r.pending = h.pending /\ r.cached = h.cached
    /\ r.debounce = h.debounce /\ r.disposed = h.disposed /\ r.orphans = h.orphans /\ r.calls = h.calls
    /\ DOMAIN r.shared = DOMAIN h.shared
    /\ \A k \in DOMAIN h.shared : Sooner(h.shared[k], r.shared[k])

Begins(h, r) == QueuesOnly(h, r) /\ Ordered(r) /\ (h.disposed => r = h)

LEMMA BeginsNothing ==
    ASSUME NEW h, Ordered(h)
    PROVE  Begins(h, h)
<1>1. ASSUME NEW k \in DOMAIN h.shared PROVE Sooner(h.shared[k], h.shared[k])
  BY DEF Ordered, HubOK, HubTypes, OrderOK, Sooner
<1> QED
  BY <1>1 DEF Begins, QueuesOnly, Ordered, HubOK, HubTypes

LEMMA BeginsTwice ==
    ASSUME NEW h, NEW g, NEW r, Begins(h, g), Begins(g, r)
    PROVE  Begins(h, r)
<1>1. ASSUME NEW k \in DOMAIN h.shared PROVE Sooner(h.shared[k], r.shared[k])
  <2>1. k \in DOMAIN g.shared /\ Sooner(h.shared[k], g.shared[k]) /\ Sooner(g.shared[k], r.shared[k])
    BY DEF Begins, QueuesOnly
  <2> QED
    BY <2>1 DEF Sooner, ToCome
<1> QED
  BY <1>1 DEF Begins, QueuesOnly

\* What the cache and the links are about stays when only the queues change.
LEMMA QueuesOnlyKeeps ==
    ASSUME NEW h, NEW r, HubOK(h), QueuesOnly(h, r)
    PROVE  HubTypes(r) /\ Linked(r) /\ CacheOK(r) /\ \A k \in DOMAIN r.shared : OpOK(r.shared[k])
<1>1. /\ DOMAIN r.shared = DOMAIN h.shared
      /\ \A k \in DOMAIN h.shared : /\ r.shared[k] \in SharedOperation /\ OpOK(r.shared[k])
                                    /\ r.shared[k].replay = h.shared[k].replay
  BY DEF QueuesOnly, Sooner
<1>2. HubTypes(r)
  BY <1>1 DEF HubOK, HubTypes, QueuesOnly
<1>3. Linked(r)
  BY <1>1 DEF HubOK, Linked, QueuesOnly, Subscribers
<1>4. Cached(r) = Cached(h)
  BY <1>1 DEF Cached
<1>5. CachedBytes(r) = CachedBytes(h)
  <2>1. \A k \in ToSet(h.replays) : k \in DOMAIN h.shared
    BY DEF HubOK, CacheOK, Lists, Cached
  <2> QED
    BY <1>1, <2>1 DEF CachedBytes, QueuesOnly
<1>6. CacheOK(r)
  BY <1>4, <1>5 DEF HubOK, CacheOK, QueuesOnly
<1> QED
  BY <1>1, <1>2, <1>3, <1>6

\* The marks of one queue whose first element goes.
LEMMA MarksTail ==
    ASSUME NEW h, NEW r, NEW kind, NEW seq, Lists(seq, Marked(h, kind)), seq # <<>>, kind # "no",
           DOMAIN r.shared = DOMAIN h.shared, r.shared[Head(seq)].queued = "no",
           \A j \in DOMAIN h.shared \ {Head(seq)} : r.shared[j] = h.shared[j]
    PROVE  /\ Lists(Tail(seq), Marked(r, kind)) /\ Len(Tail(seq)) = Len(seq) - 1
           /\ Head(seq) \in DOMAIN h.shared /\ h.shared[Head(seq)].queued = kind
           /\ \A other : other \notin {kind, "no"} => Marked(r, other) = Marked(h, other)
<1>1. PICK k : k = Head(seq)
  OBVIOUS
<1>2. k \in Marked(h, kind) /\ Lists(Tail(seq), Marked(h, kind) \ {k}) /\ Len(Tail(seq)) = Len(seq) - 1
  BY <1>1, ListsTail
<1>3. k \in DOMAIN h.shared /\ h.shared[k].queued = kind
  BY <1>2 DEF Marked
<1>4. Marked(r, kind) = Marked(h, kind) \ {k}
  BY <1>1, <1>3 DEF Marked
<1>5. ASSUME NEW other, other \notin {kind, "no"} PROVE Marked(r, other) = Marked(h, other)
  BY <1>1, <1>3, <1>5 DEF Marked
<1> QED
  BY <1>1, <1>2, <1>3, <1>4, <1>5

\* The head of two queues one after the other.
LEMMA QueueHead ==
    ASSUME NEW set, NEW a, NEW b, a \in Seq(set), b \in Seq(set)
    PROVE  /\ (a \o b = <<>>) <=> (a = <<>> /\ b = <<>>)
           /\ a # <<>> => Head(a \o b) = Head(a)
           /\ a = <<>> => a \o b = b
           /\ Len(a) \in Nat /\ Len(b) \in Nat
<1>1. /\ a \o b \in Seq(set) /\ Len(a \o b) = Len(a) + Len(b) /\ Len(a) \in Nat /\ Len(b) \in Nat
      /\ \A i \in 1..Len(a) + Len(b) : (a \o b)[i] = IF i <= Len(a) THEN a[i] ELSE b[i - Len(a)]
  BY ConcatProperties, LenProperties
<1>2. PICK ab : ab = a \o b
  OBVIOUS
<1>3. ab \in Seq(set) /\ Len(ab) = Len(a) + Len(b)
      /\ \A i \in 1..Len(a) + Len(b) : ab[i] = IF i <= Len(a) THEN a[i] ELSE b[i - Len(a)]
  BY <1>1, <1>2
<1>4. ab = <<>> <=> (a = <<>> /\ b = <<>>)
  BY <1>1, <1>3, EmptySeq
<1>5. ASSUME a # <<>> PROVE Head(ab) = Head(a)
  <2>1. Len(a) > 0 /\ 1 \in 1..Len(a) + Len(b) /\ ab # <<>>
    BY <1>1, <1>4, <1>5, EmptySeq
  <2>2. Head(ab) = ab[1] /\ Head(a) = a[1]
    BY <1>3, <2>1
  <2>3. ab[1] = a[1]
    BY <1>1, <1>3, <2>1
  <2> QED
    BY <2>2, <2>3
<1>6. ASSUME a = <<>> PROVE ab = b
  BY <1>2, <1>6, ConcatEmptySeq
<1> QED
  BY <1>1, <1>2, <1>4, <1>5, <1>6

Waiting(h) == Len(h.initial) + Len(h.rerun)

LEMMA WaitingIs ==
    ASSUME NEW h, Ordered(h)
    PROVE  Waiting(h) \in Nat /\ (Waiting(h) = 0 => Pumped(h))
<1>1. PICK x, y, m, n : x = h.initial /\ y = h.rerun /\ m = Len(x) /\ n = Len(y)
  OBVIOUS
<1>2. x \in Seq(Marked(h, "initial")) /\ y \in Seq(Marked(h, "rerun"))
  BY <1>1 DEF Ordered, MarksOK, Lists
<1>3. m \in Nat /\ n \in Nat /\ (m = 0 => x = <<>>) /\ (n = 0 => y = <<>>)
  BY <1>1, <1>2, LenProperties, EmptySeq
<1>4. Waiting(h) = m + n
  BY <1>1 DEF Waiting
<1>5. m + n \in Nat /\ (m + n = 0 => m = 0 /\ n = 0)
  BY <1>3
<1> QED
  BY <1>1, <1>3, <1>4, <1>5 DEF Pumped

\* One round of pumpQueue begins the execution that waits longest, if it may.
LEMMA PumpOnceIs ==
    ASSUME NEW h, Ordered(h)
    PROVE  LET r == PumpOnce(h)
           IN  /\ Begins(h, r)
               /\ Pumped(h) => r = h
               /\ (r = h /\ Pumped(h)) \/ Waiting(r) = Waiting(h) - 1
<1>1. PICK r : r = PumpOnce(h)
  OBVIOUS
<1>2. /\ HubOK(h) /\ HubTypes(h) /\ DOMAIN h = Fields /\ Lists(h.initial, Marked(h, "initial"))
      /\ Lists(h.rerun, Marked(h, "rerun"))
      /\ h.running \in Nat /\ MaxConcurrent \in Nat /\ h.running <= MaxConcurrent
      /\ \A k \in DOMAIN h.shared : OpOK(h.shared[k])
      /\ h.disposed => h.initial = <<>> /\ h.rerun = <<>>
  BY HubNumbers DEF Ordered, MarksOK, HubOK, HubTypes, Counted, OrderOK
<1>3. h.initial \in Seq(DOMAIN h.shared) /\ h.rerun \in Seq(DOMAIN h.shared)
  <2>1. Marked(h, "initial") \subseteq DOMAIN h.shared /\ Marked(h, "rerun") \subseteq DOMAIN h.shared
    BY DEF Marked
  <2> QED
    BY <1>2, <2>1, SeqMonotonic DEF Lists
<1>4. /\ (h.initial \o h.rerun = <<>>) <=> (h.initial = <<>> /\ h.rerun = <<>>)
      /\ h.initial # <<>> => Head(h.initial \o h.rerun) = Head(h.initial)
      /\ h.initial = <<>> => h.initial \o h.rerun = h.rerun
      /\ Len(h.initial) \in Nat /\ Len(h.rerun) \in Nat
  BY <1>3, QueueHead
<1>5. CASE h.disposed \/ h.running >= MaxConcurrent \/ h.initial \o h.rerun = <<>>
  <2>1. r = h
    BY <1>1, <1>5, Zenon DEF PumpOnce
  <2>2. h.running >= MaxConcurrent => h.running = MaxConcurrent
    BY <1>2
  <2>3. Pumped(h)
    BY <1>2, <1>4, <1>5, <2>2, Zenon DEF Pumped
  <2> QED
    BY <1>1, <2>1, <2>3, BeginsNothing
<1>6. CASE ~(h.disposed \/ h.running >= MaxConcurrent \/ h.initial \o h.rerun = <<>>)
  <2>1. PICK k, g :
          /\ k = Head(h.initial \o h.rerun)
          /\ g = [h EXCEPT !.initial = IF h.initial = <<>> THEN h.initial ELSE Tail(h.initial),
                          !.rerun = IF h.initial = <<>> THEN Tail(h.rerun) ELSE h.rerun,
                          !.shared[Head(h.initial \o h.rerun)].queued = "no"]
    BY Zenon
  <2>2. r = IF Subscribers(g, k) = {} THEN g ELSE Begun(g, k)
    <3>1. PumpOnce(h) =
            LET j == Head(h.initial \o h.rerun)
                b == [h EXCEPT !.initial = IF @ = <<>> THEN @ ELSE Tail(@),
                               !.rerun = IF h.initial = <<>> THEN Tail(@) ELSE @,
                               !.shared[j].queued = "no"]
            IN  IF Subscribers(b, j) = {} THEN b ELSE Begun(b, j)
      BY <1>6 DEF PumpOnce
    <3> QED
      BY <1>1, <2>1, <3>1
  <2>3. k = IF h.initial = <<>> THEN Head(h.rerun) ELSE Head(h.initial)
    BY <1>4, <2>1
  <2>4. k \in DOMAIN h.shared /\ h.shared[k].queued # "no"
    <3>1. CASE h.initial = <<>>
      <4>1. k \in Marked(h, "rerun")
        BY <1>2, <1>4, <1>6, <2>3, <3>1, ListsTail
      <4> QED
        BY <4>1 DEF Marked
    <3>2. CASE h.initial # <<>>
      <4>1. k \in Marked(h, "initial")
        BY <1>2, <2>3, <3>2, ListsTail
      <4> QED
        BY <4>1 DEF Marked
    <3> QED
      BY <3>1, <3>2
  <2>5. PICK op, new : op = h.shared[k] /\ new = [op EXCEPT !.queued = "no", !.stage = "asked"]
    OBVIOUS
  <2>6. op \in SharedOperation /\ OpOK(op) /\ op.stage = "idle"
    BY <1>2, <2>4, <2>5 DEF HubTypes, OpOK
  <2>7. /\ new \in SharedOperation /\ new.queued = "no" /\ new.stage = "asked" /\ new.again = op.again
        /\ new.result = op.result /\ new.replay = op.replay /\ new.read = op.read /\ new.failed = op.failed
    BY <2>5, <2>6, OpFields DEF SharedOperation
  <2>8. Subscribers(g, k) # {}
    <3>1. g.ops = h.ops
      BY <1>2, <2>1 DEF Fields
    <3> QED
      BY <2>4, <3>1 DEF Ordered, HubOK, Linked, Subscribers
  <2>9. r = [g EXCEPT !.shared[k].stage = "asked", !.running = g.running + 1]
    BY <2>2, <2>8 DEF Begun
  <2>10. /\ DOMAIN g = Fields /\ g.ops = h.ops /\ g.order = h.order /\ g.replays = h.replays
         /\ g.active = h.active /\ g.pending = h.pending /\ g.cached = h.cached
         /\ g.debounce = h.debounce /\ g.disposed = h.disposed /\ g.orphans = h.orphans /\ g.calls = h.calls
         /\ g.initial = (IF h.initial = <<>> THEN h.initial ELSE Tail(h.initial))
         /\ g.rerun = (IF h.initial = <<>> THEN Tail(h.rerun) ELSE h.rerun) /\ g.running = h.running
         /\ g.shared = [h.shared EXCEPT ![k] = [op EXCEPT !.queued = "no"]]
    BY <1>2, <2>1, <2>5 DEF Fields
  <2>11. /\ DOMAIN r = Fields /\ r.ops = h.ops /\ r.order = h.order /\ r.replays = h.replays
         /\ r.active = h.active /\ r.pending = h.pending /\ r.cached = h.cached
         /\ r.debounce = h.debounce /\ r.disposed = h.disposed /\ r.orphans = h.orphans /\ r.calls = h.calls
         /\ r.initial = g.initial /\ r.rerun = g.rerun /\ r.running = h.running + 1
         /\ r.shared = [g.shared EXCEPT ![k] = [g.shared[k] EXCEPT !.stage = "asked"]]
    BY <2>9, <2>10 DEF Fields
  <2>12. /\ DOMAIN r.shared = DOMAIN h.shared /\ r.shared[k] = new
         /\ \A j \in DOMAIN h.shared \ {k} : r.shared[j] = h.shared[j]
    <3>1. g.shared[k] = [op EXCEPT !.queued = "no"] /\ \A j \in DOMAIN h.shared \ {k} : g.shared[j] = h.shared[j]
      BY <2>4, <2>10
    <3>2. [[op EXCEPT !.queued = "no"] EXCEPT !.stage = "asked"] = new
      BY <2>5
    <3> QED
      BY <2>4, <2>10, <2>11, <3>1, <3>2
  <2>13. Sooner(op, new)
    BY <2>6, <2>7 DEF Sooner, ToCome, OpOK
  <2>14. QueuesOnly(h, r)
    <3>1. \A j \in DOMAIN h.shared \ {k} : Sooner(h.shared[j], h.shared[j])
      BY BeginsNothing DEF Begins, QueuesOnly
    <3> QED
      BY <2>5, <2>11, <2>12, <2>13, <3>1 DEF QueuesOnly
  <2>15. HubTypes(r) /\ Linked(r) /\ CacheOK(r) /\ \A j \in DOMAIN r.shared : OpOK(r.shared[j])
    BY <1>2, <2>14, QueuesOnlyKeeps
  <2>16. Counted(r)
    <3>1. Busy(r) = Busy(h) \cup {k} /\ k \notin Busy(h)
      <4>1. k \in DOMAIN h.shared /\ h.shared[k].stage = "idle" /\ r.shared[k].stage # "idle"
        BY <2>4, <2>5, <2>6, <2>7, <2>12
      <4> QED
        BY <2>12, <4>1 DEF Busy
    <3>2. IsFiniteSet(Busy(h)) /\ Cardinality(Busy(h)) \in Nat /\ h.orphans \in Nat
      BY <1>2, HubNumbers
    <3>3. Cardinality(Busy(r)) = Cardinality(Busy(h)) + 1
      BY <3>1, <3>2, FS_AddElement
    <3>4. h.active = Cardinality(DOMAIN h.ops) /\ h.running = h.orphans + Cardinality(Busy(h))
      BY <1>2 DEF HubOK, Counted
    <3> QED
      BY <1>2, <1>6, <2>11, <3>2, <3>3, <3>4 DEF Counted
  <2>17. OrderOK(r)
    <3>1. Lists(r.order, DOMAIN r.shared)
      BY <1>2, <2>11, <2>12 DEF HubOK, OrderOK
    <3> QED
      BY <1>6, <2>11, <2>15, <3>1 DEF OrderOK
  <2>18. MarksOK(r) /\ Len(r.initial) + Len(r.rerun) = Len(h.initial) + Len(h.rerun) - 1
    <3>1. r.shared[k].queued = "no" /\ DOMAIN r.shared = DOMAIN h.shared
          /\ \A j \in DOMAIN h.shared \ {k} : r.shared[j] = h.shared[j]
      BY <2>7, <2>12
    <3>2. CASE h.initial = <<>>
      <4>1. r.initial = h.initial /\ r.rerun = Tail(h.rerun) /\ h.rerun # <<>> /\ k = Head(h.rerun)
        BY <1>4, <1>6, <2>3, <2>10, <2>11, <3>2, Zenon
      <4>2. /\ Lists(Tail(h.rerun), Marked(r, "rerun")) /\ Len(Tail(h.rerun)) = Len(h.rerun) - 1
            /\ \A other : other \notin {"rerun", "no"} => Marked(r, other) = Marked(h, other)
        <5>1. PICK kind, seq : kind = "rerun" /\ seq = h.rerun
          OBVIOUS
        <5>2. Lists(seq, Marked(h, kind)) /\ seq # <<>> /\ kind # "no" /\ k = Head(seq)
          BY <1>2, <4>1, <5>1
        <5>3. /\ Lists(Tail(seq), Marked(r, kind)) /\ Len(Tail(seq)) = Len(seq) - 1
              /\ \A other : other \notin {kind, "no"} => Marked(r, other) = Marked(h, other)
          BY <3>1, <5>2, MarksTail
        <5> QED
          BY <5>1, <5>3
      <4>3. Marked(r, "initial") = Marked(h, "initial")
        BY <4>2
      <4> QED
        BY <1>2, <1>4, <4>1, <4>2, <4>3 DEF MarksOK
    <3>3. CASE h.initial # <<>>
      <4>1. r.initial = Tail(h.initial) /\ r.rerun = h.rerun /\ k = Head(h.initial)
        BY <2>3, <2>10, <2>11, <3>3, Zenon
      <4>2. /\ Lists(Tail(h.initial), Marked(r, "initial")) /\ Len(Tail(h.initial)) = Len(h.initial) - 1
            /\ \A other : other \notin {"initial", "no"} => Marked(r, other) = Marked(h, other)
        <5>1. PICK kind, seq : kind = "initial" /\ seq = h.initial
          OBVIOUS
        <5>2. Lists(seq, Marked(h, kind)) /\ seq # <<>> /\ kind # "no" /\ k = Head(seq)
          BY <1>2, <3>3, <4>1, <5>1
        <5>3. /\ Lists(Tail(seq), Marked(r, kind)) /\ Len(Tail(seq)) = Len(seq) - 1
              /\ \A other : other \notin {kind, "no"} => Marked(r, other) = Marked(h, other)
          BY <3>1, <5>2, MarksTail
        <5> QED
          BY <5>1, <5>3
      <4>3. Marked(r, "rerun") = Marked(h, "rerun")
        BY <4>2
      <4>4. MarksOK(r)
        BY <1>2, <4>1, <4>2, <4>3, Zenon DEF MarksOK
      <4>5. Len(r.initial) = Len(h.initial) - 1 /\ Len(r.rerun) = Len(h.rerun)
        BY <4>1, <4>2
      <4> QED
        BY <1>4, <4>4, <4>5
    <3> QED
      BY <3>2, <3>3
  <2>19. Begins(h, r)
    BY <1>6, <2>14, <2>15, <2>16, <2>17, <2>18 DEF Begins, Ordered, HubOK
  <2>20. ~Pumped(h)
    BY <1>2, <1>4, <1>6 DEF Pumped
  <2>21. Waiting(r) = Waiting(h) - 1
    <3>1. PICK a, b, m, n : a = Len(r.initial) /\ b = Len(r.rerun) /\ m = Len(h.initial) /\ n = Len(h.rerun)
      OBVIOUS
    <3>2. Waiting(r) = a + b /\ Waiting(h) = m + n
      BY <3>1 DEF Waiting
    <3>3. m \in Nat /\ n \in Nat /\ a + b = m + (n - 1)
      BY <1>4, <2>18, <3>1, Zenon
    <3>4. a + b = (m + n) - 1
      BY <3>3
    <3> QED
      BY <3>2, <3>4
  <2> QED
    BY <1>1, <2>19, <2>20, <2>21
<1> QED
  BY <1>5, <1>6


\* pumpQueue goes on until nobody waits or no execution may begin.
LEMMA PumpQueueIs ==
    ASSUME NEW h, Ordered(h)
    PROVE  Begins(h, PumpQueue(h)) /\ Pumped(PumpQueue(h))
<1>1. PICK size, r : size = Waiting(h) /\ r = PumpQueue(h)
  OBVIOUS
<1>2. size \in Nat /\ 0 \in 0..size /\ size \in 0..size
  <2>1. size \in Nat
    BY <1>1, WaitingIs
  <2> QED
    BY <2>1
<1>3. PICK f : f = CHOOSE e : e = [n \in 0..size |-> IF n = 0 THEN h ELSE PumpOnce(e[n - 1])]
  OBVIOUS
<1>4. r = f[size]
  BY <1>1, <1>3 DEF PumpQueue, Waiting
<1>5. IsLoop("pump", f, size, h, None, <<>>)
  <2>1. PICK e : IsLoop("pump", e, size, h, None, <<>>)
    BY <1>2, LoopExists
  <2>2. e = [n \in 0..size |-> IF n = 0 THEN h ELSE PumpOnce(e[n - 1])]
    BY <2>1, Zenon DEF IsLoop, Round
  <2>3. f = [n \in 0..size |-> IF n = 0 THEN h ELSE PumpOnce(f[n - 1])]
    BY <1>3, <2>2, Zenon
  <2> QED
    BY <2>3, Zenon DEF IsLoop, Round
<1>6. f[0] = h /\ \A n \in 1..size : f[n] = PumpOnce(f[n - 1])
  BY <1>2, <1>5, LoopIs DEF Round
<1>7. PICK G : G = {n \in 0..size : /\ Begins(h, f[n])
                                    /\ Pumped(f[n]) \/ Waiting(f[n]) = size - n}
  OBVIOUS
<1>8. 0 \in G
  <2>1. Begins(h, h) /\ size - 0 = size
    BY <1>2, BeginsNothing
  <2> QED
    BY <1>1, <1>2, <1>6, <1>7, <2>1
<1>9. ASSUME NEW n \in 1..size, n - 1 \in G PROVE n \in G
  <2>1. PICK g, b : g = f[n - 1] /\ b = f[n]
    OBVIOUS
  <2>2. Begins(h, g) /\ (Pumped(g) \/ Waiting(g) = size - (n - 1))
    BY <1>7, <1>9, <2>1
  <2>3. b = PumpOnce(g)
    BY <1>6, <2>1
  <2>4. Ordered(g)
    BY <2>2 DEF Begins
  <2>5. /\ Begins(g, b) /\ (Pumped(g) => b = g)
        /\ (b = g /\ Pumped(g)) \/ Waiting(b) = Waiting(g) - 1
    BY <2>3, <2>4, PumpOnceIs
  <2>6. Begins(h, b)
    BY <2>2, <2>5, BeginsTwice
  <2>7. Pumped(b) \/ Waiting(b) = size - n
    <3>1. CASE Pumped(g)
      BY <2>5, <3>1
    <3>2. CASE ~Pumped(g)
      BY <1>2, <2>2, <2>5, <3>2
    <3> QED
      BY <3>1, <3>2
  <2>8. n \in 0..size
    BY <1>2
  <2> QED
    BY <1>7, <2>1, <2>6, <2>7, <2>8
<1>10. size \in G
  <2>1. \A n \in 0..size : n \in G
    BY <1>2, <1>8, <1>9, CountsUp
  <2> QED
    BY <1>2, <2>1
<1>11. Begins(h, r) /\ (Pumped(r) \/ Waiting(r) = size - size)
  BY <1>4, <1>7, <1>10
<1>12. Waiting(r) = size - size => Pumped(r)
  <2>1. size - size = 0
    BY <1>2
  <2> QED
    BY <1>11, <2>1, WaitingIs DEF Begins
<1> QED
  BY <1>1, <1>11, <1>12

\* A rerun, or the execution of an operation that is neither running nor
\* queued, is to come; nothing else changes.
LEMMA EnqueueIs ==
    ASSUME NEW h, Ordered(h), NEW k \in DOMAIN h.shared, NEW kind \in {"initial", "rerun"},
           kind = "rerun" \/ (h.shared[k].stage = "idle" /\ h.shared[k].queued = "no")
    PROVE  LET r == Enqueue(h, k, kind)
           IN  /\ Begins(h, r) /\ (Pumped(h) => Pumped(r))
               /\ ~h.disposed => ToCome(r.shared[k])
<1>1. PICK r, op, g : r = Enqueue(h, k, kind) /\ op = h.shared[k] /\ g = [h EXCEPT !.shared[k].queued = kind]
  OBVIOUS
<1>2. /\ HubOK(h) /\ HubTypes(h) /\ DOMAIN h = Fields /\ op \in SharedOperation /\ OpOK(op)
      /\ Lists(h.initial, Marked(h, "initial")) /\ Lists(h.rerun, Marked(h, "rerun"))
      /\ Subscribers(h, k) # {}
  BY <1>1 DEF Ordered, HubOK, HubTypes, OrderOK, Linked, MarksOK
<1>3. r = IF h.disposed \/ Subscribers(h, k) = {} THEN h
          ELSE IF op.stage # "idle" THEN [h EXCEPT !.shared[k].again = @ \/ kind = "rerun"]
          ELSE IF op.queued # "no" THEN h
          ELSE PumpQueue(IF kind = "initial" THEN [g EXCEPT !.initial = Append(@, k)]
                                             ELSE [g EXCEPT !.rerun = Append(@, k)])
  <2>1. Enqueue(h, k, kind) =
          LET o == h.shared[k]
              b == [h EXCEPT !.shared[k].queued = kind]
          IN  IF h.disposed \/ Subscribers(h, k) = {} THEN h
              ELSE IF o.stage # "idle"
                   THEN [h EXCEPT !.shared[k].again = @ \/ kind = "rerun"]
              ELSE IF o.queued # "no" THEN h
              ELSE PumpQueue(IF kind = "initial" THEN [b EXCEPT !.initial = Append(@, k)]
                                                 ELSE [b EXCEPT !.rerun = Append(@, k)])
    BY DEF Enqueue
  <2> QED
    BY <1>1, <2>1
<1>4. CASE h.disposed
  BY <1>1, <1>3, <1>4, BeginsNothing
<1>5. CASE ~h.disposed /\ op.stage # "idle"
  <2>1. kind = "rerun" /\ r = [h EXCEPT !.shared[k].again = TRUE]
    BY <1>1, <1>2, <1>3, <1>5
  <2>2. PICK new : new = [op EXCEPT !.again = TRUE]
    OBVIOUS
  <2>3. /\ DOMAIN r = Fields /\ r.ops = h.ops /\ r.order = h.order /\ r.replays = h.replays
        /\ r.active = h.active /\ r.pending = h.pending /\ r.cached = h.cached
        /\ r.debounce = h.debounce /\ r.disposed = h.disposed /\ r.orphans = h.orphans /\ r.calls = h.calls
        /\ r.initial = h.initial /\ r.rerun = h.rerun /\ r.running = h.running
        /\ r.shared = [h.shared EXCEPT ![k] = new]
    BY <1>1, <1>2, <2>1, <2>2 DEF Fields
  <2>4. /\ new \in SharedOperation /\ new.again = TRUE /\ new.stage = op.stage /\ new.queued = op.queued
        /\ new.result = op.result /\ new.replay = op.replay /\ new.read = op.read /\ new.failed = op.failed
    BY <1>2, <2>2, OpFields DEF SharedOperation
  <2>5. Sooner(op, new) /\ ToCome(new)
    BY <1>2, <1>5, <2>4 DEF Sooner, ToCome, OpOK
  <2>6. /\ DOMAIN r.shared = DOMAIN h.shared /\ r.shared[k] = new
        /\ \A j \in DOMAIN h.shared \ {k} : r.shared[j] = h.shared[j]
    BY <2>3
  <2>7. QueuesOnly(h, r)
    <3>1. \A j \in DOMAIN h.shared \ {k} : Sooner(h.shared[j], h.shared[j])
      BY BeginsNothing DEF Begins, QueuesOnly
    <3> QED
      BY <1>1, <2>3, <2>5, <2>6, <3>1 DEF QueuesOnly
  <2>8. HubTypes(r) /\ Linked(r) /\ CacheOK(r) /\ \A j \in DOMAIN r.shared : OpOK(r.shared[j])
    BY <1>2, <2>7, QueuesOnlyKeeps
  <2>9. Busy(r) = Busy(h) /\ \A other : Marked(r, other) = Marked(h, other)
    BY <1>1, <2>4, <2>6 DEF Busy, Marked
  <2>10. Counted(r)
    BY <1>2, <2>3, <2>9 DEF HubOK, Counted
  <2>11. OrderOK(r)
    BY <1>2, <2>3, <2>6, <2>8 DEF HubOK, OrderOK
  <2>12. MarksOK(r)
    BY <1>2, <2>3, <2>9, Zenon DEF MarksOK
  <2>13. Pumped(h) => Pumped(r)
    BY <2>3 DEF Pumped
  <2> QED
    BY <1>1, <1>5, <2>5, <2>6, <2>7, <2>8, <2>10, <2>11, <2>12, <2>13 DEF Begins, Ordered, HubOK
<1>6. CASE ~h.disposed /\ op.stage = "idle" /\ op.queued # "no"
  <2>1. r = h
    BY <1>2, <1>3, <1>6
  <2> QED
    BY <1>1, <1>6, <2>1, BeginsNothing DEF ToCome
<1>7. CASE ~h.disposed /\ op.stage = "idle" /\ op.queued = "no"
  <2>1. PICK b : b = IF kind = "initial" THEN [g EXCEPT !.initial = Append(h.initial, k)]
                                        ELSE [g EXCEPT !.rerun = Append(h.rerun, k)]
    OBVIOUS
  <2>2. PICK new : new = [op EXCEPT !.queued = kind]
    OBVIOUS
  <2>3. /\ DOMAIN b = Fields /\ b.ops = h.ops /\ b.order = h.order /\ b.replays = h.replays
        /\ b.active = h.active /\ b.pending = h.pending /\ b.cached = h.cached
        /\ b.debounce = h.debounce /\ b.disposed = h.disposed /\ b.orphans = h.orphans /\ b.calls = h.calls
        /\ b.running = h.running
        /\ b.initial = (IF kind = "initial" THEN Append(h.initial, k) ELSE h.initial)
        /\ b.rerun = (IF kind = "initial" THEN h.rerun ELSE Append(h.rerun, k))
        /\ b.shared = [h.shared EXCEPT ![k] = new]
    BY <1>1, <1>2, <2>1, <2>2 DEF Fields
  <2>4. r = PumpQueue(b)
    <3>1. g.initial = h.initial /\ g.rerun = h.rerun
      BY <1>1, <1>2 DEF Fields
    <3> QED
      BY <1>2, <1>3, <1>7, <2>1, <3>1
  <2>5. /\ new \in SharedOperation /\ new.again = op.again /\ new.stage = op.stage /\ new.queued = kind
        /\ new.result = op.result /\ new.replay = op.replay /\ new.read = op.read /\ new.failed = op.failed
    BY <1>2, <2>2, OpFields DEF SharedOperation
  <2>6. Sooner(op, new) /\ ToCome(new)
    BY <1>2, <1>7, <2>5 DEF Sooner, ToCome, OpOK
  <2>7. /\ DOMAIN b.shared = DOMAIN h.shared /\ b.shared[k] = new
        /\ \A j \in DOMAIN h.shared \ {k} : b.shared[j] = h.shared[j]
    BY <2>3
  <2>8. QueuesOnly(h, b)
    <3>1. \A j \in DOMAIN h.shared \ {k} : Sooner(h.shared[j], h.shared[j])
      BY BeginsNothing DEF Begins, QueuesOnly
    <3> QED
      BY <1>1, <2>3, <2>6, <2>7, <3>1 DEF QueuesOnly
  <2>9. HubTypes(b) /\ Linked(b) /\ CacheOK(b) /\ \A j \in DOMAIN b.shared : OpOK(b.shared[j])
    BY <1>2, <2>8, QueuesOnlyKeeps
  <2>10. Busy(b) = Busy(h)
    BY <1>1, <2>5, <2>7 DEF Busy
  <2>11. Counted(b)
    BY <1>2, <2>3, <2>10 DEF HubOK, Counted
  <2>12. OrderOK(b)
    BY <1>2, <1>7, <2>3, <2>7, <2>9 DEF HubOK, OrderOK
  <2>13. /\ Marked(b, kind) = Marked(h, kind) \cup {k} /\ k \notin Marked(h, kind)
         /\ \A other \in {"initial", "rerun"} \ {kind} : Marked(b, other) = Marked(h, other)
    BY <1>1, <1>7, <2>5, <2>7 DEF Marked
  <2>14. MarksOK(b)
    <3>1. CASE kind = "initial"
      <4>1. Lists(Append(h.initial, k), Marked(h, "initial") \cup {k})
        BY <1>2, <2>13, <3>1, ListsAppend
      <4> QED
        BY <1>2, <2>3, <2>13, <3>1, <4>1 DEF MarksOK
    <3>2. CASE kind = "rerun"
      <4>1. Lists(Append(h.rerun, k), Marked(h, "rerun") \cup {k})
        BY <1>2, <2>13, <3>2, ListsAppend
      <4> QED
        BY <1>2, <2>3, <2>13, <3>2, <4>1 DEF MarksOK
    <3> QED
      BY <3>1, <3>2
  <2>15. Begins(h, b)
    BY <1>7, <2>8, <2>9, <2>11, <2>12, <2>14 DEF Begins, Ordered, HubOK
  <2>16. Begins(b, r) /\ Pumped(r)
    BY <2>4, <2>15, PumpQueueIs DEF Begins
  <2>17. Begins(h, r)
    BY <2>15, <2>16, BeginsTwice
  <2>18. Sooner(new, r.shared[k])
    BY <2>7, <2>16 DEF Begins, QueuesOnly
  <2>19. ToCome(r.shared[k])
    BY <2>6, <2>18 DEF Sooner, ToCome
  <2> QED
    BY <1>1, <2>16, <2>17, <2>19
<1> QED
  BY <1>4, <1>5, <1>6, <1>7

\* From h to r only what is reserved, what is to be called and the debounce changed.
SameBooks(h, r) ==
    /\ DOMAIN r = Fields /\ r.pending \in Nat /\ r.debounce \in BOOLEAN /\ (r.disposed => ~r.debounce)
    /\ r.ops = h.ops /\ r.shared = h.shared /\ r.order = h.order /\ r.initial = h.initial
    /\ r.rerun = h.rerun /\ r.replays = h.replays /\ r.active = h.active /\ r.running = h.running
    /\ r.cached = h.cached /\ r.disposed = h.disposed /\ r.orphans = h.orphans

LEMMA SameBooksKeep ==
    ASSUME NEW h, NEW r, HubOK(h), SameBooks(h, r)
    PROVE  /\ HubOK(r) /\ (MarksOK(h) => MarksOK(r)) /\ (Pumped(h) => Pumped(r)) /\ (ShownOK(h) => ShownOK(r))
           /\ \A k, v : Fresh(h, k, v) => Fresh(r, k, v)
<1>1. /\ \A k : Subscribers(r, k) = Subscribers(h, k) /\ \A kind : Marked(r, kind) = Marked(h, kind)
      /\ Busy(r) = Busy(h) /\ Cached(r) = Cached(h) /\ CachedBytes(r) = CachedBytes(h)
  BY DEF SameBooks, Subscribers, Marked, Busy, Cached, CachedBytes
<1>2. HubTypes(r) /\ Linked(r)
  BY <1>1 DEF SameBooks, HubOK, HubTypes, Linked
<1>3. Counted(r)
  BY <1>1 DEF SameBooks, HubOK, Counted
<1>4. CacheOK(r)
  BY <1>1, Zenon DEF SameBooks, HubOK, CacheOK
<1>5. OrderOK(r)
  BY DEF SameBooks, HubOK, OrderOK
<1>6. MarksOK(h) => MarksOK(r)
  BY <1>1, Zenon DEF SameBooks, MarksOK
<1>7. Pumped(h) => Pumped(r)
  BY DEF SameBooks, Pumped
<1>8. ShownOK(h) => ShownOK(r)
  BY DEF SameBooks, ShownOK
<1>9. \A k, v : Fresh(h, k, v) => Fresh(r, k, v)
  BY <1>1, Zenon DEF SameBooks, Fresh
<1> QED
  BY <1>2, <1>3, <1>4, <1>5, <1>6, <1>7, <1>8, <1>9 DEF HubOK

\* A rerun of every operation is to come.
LEMMA RerunAllIs ==
    ASSUME NEW h, Ordered(h), NEW base, base = [h EXCEPT !.debounce = FALSE]
    PROVE  LET r == RerunAll(h)
           IN  /\ SameBooks(h, base) /\ Begins(base, r) /\ (Pumped(h) => Pumped(r))
               /\ ~h.disposed => \A k \in DOMAIN r.shared : ToCome(r.shared[k])
<1>1. PICK r, list, size : r = RerunAll(h) /\ list = h.order /\ size = Len(list)
  OBVIOUS
<1>2. /\ size \in Nat /\ 0 \in 0..size /\ size \in 0..size
      /\ \A x \in DOMAIN h.shared : \E i \in 1..size : list[i] = x
      /\ \A i \in 1..size : list[i] \in DOMAIN h.shared
  <2>1. Lists(list, DOMAIN h.shared)
    BY <1>1 DEF Ordered, HubOK, OrderOK
  <2> QED
    BY <1>1, <2>1, ListsAre
<1>3. HubOK(h) /\ MarksOK(h) /\ HubTypes(h) /\ DOMAIN h = Fields /\ h.pending \in Nat
  BY DEF Ordered, HubOK, HubTypes
<1>4. SameBooks(h, base)
  BY <1>3 DEF SameBooks, Fields
<1>5. Ordered(base) /\ (Pumped(h) => Pumped(base))
  BY <1>3, <1>4, SameBooksKeep DEF Ordered
<1>6. PICK f : f = CHOOSE e : e = [n \in 0..size |-> IF n = 0 THEN base ELSE Enqueue(e[n - 1], list[n], "rerun")]
  OBVIOUS
<1>7. r = f[size]
  BY <1>1, <1>6 DEF RerunAll
<1>8. IsLoop("rerun", f, size, base, None, list)
  <2>1. PICK e : IsLoop("rerun", e, size, base, None, list)
    BY <1>2, LoopExists
  <2>2. e = [n \in 0..size |-> IF n = 0 THEN base ELSE Enqueue(e[n - 1], list[n], "rerun")]
    BY <2>1, Zenon DEF IsLoop, Round
  <2>3. f = [n \in 0..size |-> IF n = 0 THEN base ELSE Enqueue(f[n - 1], list[n], "rerun")]
    BY <1>6, <2>2, Zenon
  <2> QED
    BY <2>3, Zenon DEF IsLoop, Round
<1>9. f[0] = base /\ \A n \in 1..size : f[n] = Enqueue(f[n - 1], list[n], "rerun")
  BY <1>2, <1>8, LoopIs DEF Round
<1>10. PICK G : G = {n \in 0..size : /\ Begins(base, f[n]) /\ (Pumped(h) => Pumped(f[n]))
                                     /\ ~h.disposed => \A i \in 1..n : ToCome(f[n].shared[list[i]])}
  OBVIOUS
<1>11. 0 \in G
  <2>1. Begins(base, base) /\ \A i \in 1..0 : FALSE
    BY <1>5, BeginsNothing
  <2> QED
    BY <1>2, <1>5, <1>9, <1>10, <2>1
<1>12. ASSUME NEW n \in 1..size, n - 1 \in G PROVE n \in G
  <2>1. PICK g, b, k : g = f[n - 1] /\ b = f[n] /\ k = list[n]
    OBVIOUS
  <2>2. /\ Begins(base, g) /\ (Pumped(h) => Pumped(g))
        /\ ~h.disposed => \A i \in 1..(n - 1) : ToCome(g.shared[list[i]])
    BY <1>10, <1>12, <2>1
  <2>3. b = Enqueue(g, k, "rerun")
    BY <1>9, <2>1
  <2>4. Ordered(g) /\ g.disposed = h.disposed /\ DOMAIN g.shared = DOMAIN h.shared /\ k \in DOMAIN g.shared
    BY <1>2, <1>4, <2>1, <2>2 DEF Begins, QueuesOnly, SameBooks
  <2>5. Begins(g, b) /\ (Pumped(g) => Pumped(b)) /\ (~g.disposed => ToCome(b.shared[k]))
    BY <2>3, <2>4, EnqueueIs
  <2>6. Begins(base, b)
    BY <2>2, <2>5, BeginsTwice
  <2>7. ASSUME ~h.disposed, NEW i \in 1..n PROVE ToCome(b.shared[list[i]])
    <3>1. CASE i = n
      BY <2>1, <2>4, <2>5, <2>7, <3>1
    <3>2. CASE i # n
      <4>1. i \in 1..(n - 1) /\ list[i] \in DOMAIN g.shared
        BY <1>2, <2>4, <3>2
      <4>2. ToCome(g.shared[list[i]]) /\ Sooner(g.shared[list[i]], b.shared[list[i]])
        BY <2>2, <2>5, <2>7, <4>1 DEF Begins, QueuesOnly
      <4> QED
        BY <4>2 DEF Sooner, ToCome
    <3> QED
      BY <3>1, <3>2
  <2>8. n \in 0..size
    BY <1>2
  <2> QED
    BY <1>10, <2>1, <2>2, <2>5, <2>6, <2>7, <2>8
<1>13. size \in G
  <2>1. \A n \in 0..size : n \in G
    BY <1>2, <1>11, <1>12, CountsUp
  <2> QED
    BY <1>2, <2>1
<1>14. /\ Begins(base, r) /\ (Pumped(h) => Pumped(r))
       /\ ~h.disposed => \A i \in 1..size : ToCome(r.shared[list[i]])
  BY <1>7, <1>10, <1>13
<1>15. DOMAIN r.shared = DOMAIN h.shared
  BY <1>4, <1>14 DEF Begins, QueuesOnly, SameBooks
<1>16. ASSUME ~h.disposed, NEW k \in DOMAIN r.shared PROVE ToCome(r.shared[k])
  <2>1. PICK i \in 1..size : list[i] = k
    BY <1>2, <1>15
  <2> QED
    BY <1>14, <1>16, <2>1
<1> QED
  BY <1>1, <1>4, <1>14, <1>16

\* What was sent stays what was sent, and who waits for an execution still does.
LEMMA BeginsKeeps ==
    ASSUME NEW h, NEW r, HubOK(h), Begins(h, r)
    PROVE  /\ ShownOK(h) => ShownOK(r)
           /\ \A k \in DOMAIN h.shared : \A v : Fresh(h, k, v) => Fresh(r, k, v)
<1>1. /\ r.ops = h.ops /\ DOMAIN r.shared = DOMAIN h.shared
      /\ \A k \in DOMAIN h.shared : Sooner(h.shared[k], r.shared[k])
      /\ \A k : Subscribers(r, k) = Subscribers(h, k)
  BY DEF Begins, QueuesOnly, Subscribers
<1>2. \A s \in DOMAIN h.ops : h.ops[s].attached => h.ops[s].key \in DOMAIN h.shared
  BY DEF HubOK, Linked
<1>3. ShownOK(h) => ShownOK(r)
  BY <1>1, <1>2 DEF ShownOK, Sooner
<1>4. ASSUME NEW k \in DOMAIN h.shared, NEW v, Fresh(h, k, v) PROVE Fresh(r, k, v)
  <2>1. Sooner(h.shared[k], r.shared[k])
    BY <1>1
  <2>2. CASE ToCome(r.shared[k])
    BY <2>2 DEF Fresh
  <2>3. CASE ~ToCome(r.shared[k])
    BY <1>1, <1>4, <2>1, <2>3 DEF Fresh, Sooner, ToCome
  <2> QED
    BY <2>2, <2>3
<1> QED
  BY <1>3, <1>4

LEMMA DeletedKeeps ==
    ASSUME NEW h, NEW r, HubOK(h), HubOK(r), Deleted(h, r)
    PROVE  /\ ShownOK(h) => ShownOK(r)
           /\ \A k \in DOMAIN r.shared : \A v : Fresh(h, k, v) => Fresh(r, k, v)
<1>1. /\ DOMAIN r.ops \subseteq DOMAIN h.ops /\ \A s \in DOMAIN r.ops : r.ops[s] = h.ops[s]
      /\ DOMAIN r.shared \subseteq DOMAIN h.shared /\ \A k \in DOMAIN r.shared : r.shared[k] = h.shared[k]
      /\ \A s \in DOMAIN r.ops : r.ops[s].attached => r.ops[s].key \in DOMAIN r.shared
  BY DEF Deleted, HubOK, Linked
<1>2. ShownOK(h) => ShownOK(r)
  BY <1>1 DEF ShownOK
<1>3. \A k : Subscribers(r, k) \subseteq Subscribers(h, k)
  BY <1>1 DEF Subscribers
<1>4. ASSUME NEW k \in DOMAIN r.shared, NEW v, Fresh(h, k, v) PROVE Fresh(r, k, v)
  <2>1. r.shared[k] = h.shared[k] /\ Subscribers(r, k) \subseteq Subscribers(h, k)
        /\ \A s \in Subscribers(r, k) : r.ops[s] = h.ops[s]
    BY <1>1, <1>3 DEF Subscribers
  <2> QED
    BY <1>4, <2>1 DEF Fresh
<1> QED
  BY <1>2, <1>4

-----------------------------------------------------------------------------
(* What a handler leaves.                                                  *)

\* In r one operation of h is another, and with it the number of those that run.
OneOp(h, r, k, new) ==
    /\ DOMAIN r = Fields /\ r.shared = [h.shared EXCEPT ![k] = new]
    /\ r.ops = h.ops /\ r.order = h.order /\ r.initial = h.initial /\ r.rerun = h.rerun
    /\ r.replays = h.replays /\ r.active = h.active /\ r.pending = h.pending /\ r.cached = h.cached
    /\ r.debounce = h.debounce /\ r.disposed = h.disposed /\ r.orphans = h.orphans /\ r.calls = h.calls
    /\ \/ r.running = h.running /\ (new.stage = "idle" <=> h.shared[k].stage = "idle")
       \/ r.running = h.running - 1 /\ new.stage = "idle" /\ h.shared[k].stage # "idle"

OneOpOK(h, r, k, new) ==
    /\ HubOK(r) /\ (MarksOK(h) => MarksOK(r)) /\ (ShownOK(h) => ShownOK(r))
    /\ (Pumped(h) /\ r.running = h.running => Pumped(r))
    /\ \A j : Subscribers(r, j) = Subscribers(h, j)
    /\ DOMAIN r.shared = DOMAIN h.shared /\ r.shared[k] = new
    /\ \A j \in DOMAIN h.shared \ {k} : \A v : Fresh(h, j, v) => Fresh(r, j, v)

LEMMA OneOpKeeps ==
    ASSUME NEW h, NEW r, NEW k \in DOMAIN h.shared, NEW new, HubOK(h), OneOp(h, r, k, new),
           new \in SharedOperation, OpOK(new), new.result = h.shared[k].result,
           new.replay = h.shared[k].replay, new.queued = h.shared[k].queued
    PROVE  OneOpOK(h, r, k, new)
<1>1. HubTypes(h) /\ Linked(h) /\ Counted(h) /\ CacheOK(h) /\ OrderOK(h)
  BY DEF HubOK
<1>2. /\ DOMAIN r.shared = DOMAIN h.shared /\ r.shared[k] = new
      /\ \A j \in DOMAIN h.shared \ {k} : r.shared[j] = h.shared[j]
      /\ \A j \in DOMAIN h.shared : /\ r.shared[j].replay = h.shared[j].replay
                                    /\ r.shared[j].queued = h.shared[j].queued
                                    /\ r.shared[j].result = h.shared[j].result
                                    /\ r.shared[j] \in SharedOperation /\ OpOK(r.shared[j])
  BY <1>1 DEF OneOp, HubTypes, OrderOK
<1>3. \A j : Subscribers(r, j) = Subscribers(h, j)
  BY DEF OneOp, Subscribers
<1>4. HubTypes(r)
  BY <1>1, <1>2 DEF OneOp, HubTypes
<1>5. Linked(r)
  BY <1>1, <1>2, <1>3 DEF OneOp, Linked
<1>6. CacheOK(r)
  <2>1. Cached(r) = Cached(h)
    BY <1>2 DEF Cached
  <2>2. \A j \in ToSet(h.replays) : j \in DOMAIN h.shared
    BY <1>1 DEF CacheOK, Lists, Cached
  <2>3. CachedBytes(r) = CachedBytes(h)
    BY <1>2, <2>2 DEF CachedBytes, OneOp
  <2> QED
    BY <1>1, <2>1, <2>3, Zenon DEF CacheOK, OneOp
<1>7. OrderOK(r)
  BY <1>1, <1>2 DEF OrderOK, OneOp
<1>8. Counted(r)
  <2>1. IsFiniteSet(Busy(h)) /\ Cardinality(Busy(h)) \in Nat /\ h.running \in Nat /\ h.orphans \in Nat
        /\ MaxConcurrent \in Nat
    BY HubNumbers
  <2>2. /\ h.running = h.orphans + Cardinality(Busy(h)) /\ h.running <= MaxConcurrent
        /\ r.active = Cardinality(DOMAIN r.ops) /\ r.orphans = h.orphans
    BY <1>1 DEF Counted, OneOp
  <2>3. CASE r.running = h.running /\ (new.stage = "idle" <=> h.shared[k].stage = "idle")
    <3>1. Busy(r) = Busy(h)
      BY <1>2, <2>3 DEF Busy
    <3> QED
      BY <2>2, <2>3, <3>1 DEF Counted
  <2>4. CASE r.running = h.running - 1 /\ new.stage = "idle" /\ h.shared[k].stage # "idle"
    <3>1. Busy(r) = Busy(h) \ {k} /\ k \in Busy(h)
      BY <1>2, <2>4 DEF Busy
    <3>2. Cardinality(Busy(r)) = Cardinality(Busy(h)) - 1
      BY <2>1, <3>1, FS_RemoveElement
    <3> QED
      BY <2>1, <2>2, <2>4, <3>2 DEF Counted
  <2> QED
    BY <2>3, <2>4 DEF OneOp
<1>9. MarksOK(h) => MarksOK(r)
  <2>1. \A kind : Marked(r, kind) = Marked(h, kind)
    BY <1>2 DEF Marked
  <2> QED
    BY <2>1, Zenon DEF MarksOK, OneOp
<1>10. ShownOK(h) => ShownOK(r)
  BY <1>1, <1>2 DEF ShownOK, Linked, OneOp
<1>11. Pumped(h) /\ r.running = h.running => Pumped(r)
  BY DEF Pumped, OneOp
<1>12. ASSUME NEW j \in DOMAIN h.shared \ {k}, NEW v, Fresh(h, j, v) PROVE Fresh(r, j, v)
  BY <1>2, <1>3, <1>12 DEF Fresh, OneOp
<1> QED
  BY <1>2, <1>3, <1>4, <1>5, <1>6, <1>7, <1>8, <1>9, <1>10, <1>11, <1>12 DEF HubOK, OneOpOK

Told(sub, what) == [sub EXCEPT !.shown = what, !.needsInitial = @ /\ what = "error"]

ToldOK(h, r, set, what) ==
    /\ HubOK(r) /\ (MarksOK(h) => MarksOK(r)) /\ (Pumped(h) => Pumped(r))
    /\ DOMAIN r = Fields /\ r.shared = h.shared /\ r.order = h.order /\ r.initial = h.initial
    /\ r.rerun = h.rerun /\ r.replays = h.replays /\ r.active = h.active
    /\ r.pending = h.pending /\ r.running = h.running /\ r.cached = h.cached
    /\ r.debounce = h.debounce /\ r.disposed = h.disposed /\ r.orphans = h.orphans
    /\ r.calls = h.calls /\ DOMAIN r.ops = DOMAIN h.ops
    /\ \A j : Subscribers(r, j) = Subscribers(h, j)
    /\ \A s \in DOMAIN h.ops :
          /\ r.ops[s].attached = h.ops[s].attached /\ r.ops[s].key = h.ops[s].key
          /\ r.ops[s].late = h.ops[s].late
          /\ s \notin set => r.ops[s] = h.ops[s]
          /\ s \in set => /\ r.ops[s].shown = what
                          /\ r.ops[s].needsInitial <=> h.ops[s].needsInitial /\ what = "error"

\* The subscribers in set are told what.
LEMMA TellIs ==
    ASSUME NEW h, HubOK(h), NEW set, NEW what \in Value \cup {"error"}
    PROVE  ToldOK(h, Tell(h, set, what), set, what)
<1>1. PICK r : r = Tell(h, set, what)
  OBVIOUS
<1>2. HubTypes(h) /\ Linked(h) /\ Counted(h) /\ CacheOK(h) /\ OrderOK(h) /\ DOMAIN h = Fields
      /\ \A s \in DOMAIN h.ops : h.ops[s] \in Subscription
  BY DEF HubOK, HubTypes
<1>3. r = [h EXCEPT !.ops = [s \in DOMAIN h.ops |-> IF s \in set THEN Told(h.ops[s], what) ELSE h.ops[s]]]
  BY <1>1, Zenon DEF Tell, Told
<1>4. /\ DOMAIN r = Fields /\ r.shared = h.shared /\ r.order = h.order /\ r.initial = h.initial
      /\ r.rerun = h.rerun /\ r.replays = h.replays /\ r.active = h.active
      /\ r.pending = h.pending /\ r.running = h.running /\ r.cached = h.cached
      /\ r.debounce = h.debounce /\ r.disposed = h.disposed /\ r.orphans = h.orphans
      /\ r.calls = h.calls /\ DOMAIN r.ops = DOMAIN h.ops
      /\ \A s \in DOMAIN h.ops : r.ops[s] = IF s \in set THEN Told(h.ops[s], what) ELSE h.ops[s]
  BY <1>2, <1>3 DEF Fields
<1>5. ASSUME NEW s \in DOMAIN h.ops
      PROVE  /\ r.ops[s] \in Subscription
             /\ r.ops[s].attached = h.ops[s].attached /\ r.ops[s].key = h.ops[s].key
             /\ r.ops[s].late = h.ops[s].late
             /\ s \notin set => r.ops[s] = h.ops[s]
             /\ s \in set => /\ r.ops[s].shown = what
                             /\ r.ops[s].needsInitial <=> h.ops[s].needsInitial /\ what = "error"
  <2>1. PICK old, new, needs : old = h.ops[s] /\ new = r.ops[s] /\ needs = (old.needsInitial /\ what = "error")
    OBVIOUS
  <2>2. old \in Subscription /\ needs \in BOOLEAN
    BY <1>2, <2>1
  <2>3. s \in set => new = [old EXCEPT !.shown = what, !.needsInitial = needs]
    BY <1>4, <2>1, Zenon DEF Told
  <2>4. s \notin set => new = old
    BY <1>4, <2>1
  <2> QED
    <3>1. CASE s \in set
      <4>1. new = [old EXCEPT !.shown = what, !.needsInitial = needs]
        BY <2>3, <3>1
      <4>2. /\ new \in Subscription /\ new.attached = old.attached /\ new.key = old.key
            /\ new.late = old.late /\ new.shown = what /\ new.needsInitial = needs
        BY <2>2, <4>1 DEF Subscription
      <4> QED
        BY <2>1, <3>1, <4>2, Zenon
    <3>2. CASE s \notin set
      BY <2>1, <2>2, <2>4, <3>2
    <3> QED
      BY <3>1, <3>2
<1>6. \A j : Subscribers(r, j) = Subscribers(h, j)
  BY <1>4, <1>5 DEF Subscribers
<1>7. HubTypes(r)
  BY <1>2, <1>4, <1>5 DEF HubTypes
<1>8. Linked(r)
  BY <1>2, <1>4, <1>5, <1>6 DEF Linked
<1>9. Counted(r) /\ OrderOK(r)
  BY <1>2, <1>4 DEF Counted, OrderOK, Busy
<1>10. CacheOK(r)
  <2>1. Cached(r) = Cached(h) /\ CachedBytes(r) = CachedBytes(h)
    BY <1>4 DEF Cached, CachedBytes
  <2> QED
    BY <1>2, <1>4, <2>1, Zenon DEF CacheOK
<1>11. (MarksOK(h) => MarksOK(r)) /\ (Pumped(h) => Pumped(r))
  BY <1>4 DEF MarksOK, Pumped, Marked
<1> QED
  BY <1>1, <1>4, <1>5, <1>6, <1>7, <1>8, <1>9, <1>10, <1>11 DEF HubOK, ToldOK

\* The calls of onActiveChange tell whether somebody subscribes now.
Called(h, r) ==
    \/ /\ r.calls = <<>> /\ (h.active > 0 <=> r.active > 0)
       /\ r.debounce = h.debounce \/ r.active = 0
    \/ r.calls \in {<<FALSE>>, <<FALSE, FALSE>>} /\ r.active = 0
    \/ r.calls = <<TRUE>> /\ h.active = 0 /\ r.active > 0
    \/ r.calls = <<FALSE, TRUE>> /\ r.active > 0

KeepsBooks(h, r) ==
    /\ HubOK(r) /\ MarksOK(r) /\ Pumped(r) /\ ShownOK(r) /\ Called(h, r)
    /\ r.pending = h.pending /\ r.disposed = h.disposed /\ (h.disposed => r.running = h.running)

AllAttached(h) == \A s \in DOMAIN h.ops : h.ops[s].attached

\* Who has the answer, or waits for it, still does.
KeepsFresh(h, r) ==
    /\ AllAttached(h) => AllAttached(r)
    /\ \A k \in DOMAIN r.shared : \A v : (k \in DOMAIN h.shared => Fresh(h, k, v)) => Fresh(r, k, v)

LEMMA DeletedIs ==
    ASSUME NEW h, NEW r, HubOK(h), HubOK(r), Deleted(h, r), MarksOK(h), Pumped(h), ShownOK(h), h.calls = <<>>
    PROVE  KeepsBooks(h, r) /\ KeepsFresh(h, r)
<1>1. h.active \in Nat /\ r.active \in Nat /\ r.active <= h.active
      /\ h.debounce \in BOOLEAN /\ r.debounce \in BOOLEAN
  BY HubNumbers DEF Deleted, HubOK, HubTypes
<1>2. Called(h, r)
  <2>1. Append(<<>>, FALSE) = <<FALSE>>
    OBVIOUS
  <2>2. /\ r.calls = IF h.active > 0 /\ r.active = 0 THEN <<FALSE>> ELSE <<>>
        /\ r.debounce = h.debounce \/ r.active = 0
    BY <1>1, <2>1 DEF Deleted
  <2>3. CASE h.active > 0 /\ r.active = 0
    BY <2>2, <2>3 DEF Called
  <2>4. CASE ~(h.active > 0 /\ r.active = 0)
    <3>1. r.calls = <<>>
      BY <2>2, <2>4
    <3>2. h.active > 0 <=> r.active > 0
      BY <1>1, <2>4
    <3> QED
      BY <2>2, <3>1, <3>2, Zenon DEF Called
  <2> QED
    BY <2>3, <2>4
<1>3. ShownOK(r) /\ \A k \in DOMAIN r.shared : \A v : Fresh(h, k, v) => Fresh(r, k, v)
  BY DeletedKeeps
<1>4. AllAttached(h) => AllAttached(r)
  BY DEF AllAttached, Deleted
<1>5. DOMAIN r.shared \subseteq DOMAIN h.shared
  BY DEF Deleted
<1> QED
  BY <1>2, <1>3, <1>4, <1>5 DEF KeepsBooks, KeepsFresh, Deleted

DeliveredOK(h, k, r) ==
    /\ KeepsBooks(h, r) /\ (AllAttached(h) => AllAttached(r))
    /\ \A j \in DOMAIN r.shared \ {k} : j \in DOMAIN h.shared /\ \A v : Fresh(h, j, v) => Fresh(r, j, v)
    /\ k \in DOMAIN r.shared => \A v : h.shared[k].again \/ h.shared[k].read = v => Fresh(r, k, v)

\* The result of an execution, known and sent to those who have another or none.
LEMMA DeliverIs ==
    ASSUME NEW h, HubOK(h), MarksOK(h), Pumped(h), ShownOK(h), h.calls = <<>>, NEW k \in DOMAIN h.shared,
           h.shared[k].stage = "ended", h.shared[k].read \in Value
    PROVE  DeliveredOK(h, k, Deliver(h, k))
<1>1. PICK r, op, v, changed, waiting :
        /\ r = Deliver(h, k) /\ op = h.shared[k] /\ v = op.read /\ changed = (op.result # v)
        /\ waiting = {s \in Subscribers(h, k) : changed \/ h.ops[s].needsInitial}
  OBVIOUS
<1>2. r = IF Size[v] > MaxResultBytes THEN DeleteAll(h, Subscribers(h, k))
          ELSE IF waiting = {} THEN h
          ELSE Tell(CacheReplay([h EXCEPT !.shared[k].result = v], k, v), waiting, v)
  BY <1>1, Zenon DEF Deliver
<1>3. /\ HubTypes(h) /\ Linked(h) /\ Counted(h) /\ CacheOK(h) /\ OrderOK(h) /\ DOMAIN h = Fields
      /\ IsFiniteSet(DOMAIN h.ops) /\ op \in SharedOperation /\ OpOK(op)
      /\ \A s \in DOMAIN h.ops : h.ops[s] \in Subscription
      /\ op.stage = "ended" /\ v \in Value
  BY <1>1 DEF HubOK, HubTypes, OrderOK
<1>4. Subscribers(h, k) \subseteq DOMAIN h.ops /\ IsFiniteSet(Subscribers(h, k))
  BY <1>3, FS_Subset DEF Subscribers
<1>5. CASE Size[v] > MaxResultBytes
  <2>1. r = DeleteAll(h, Subscribers(h, k))
    BY <1>2, <1>5
  <2>2. HubOK(r) /\ Deleted(h, r) /\ DOMAIN r.ops = DOMAIN h.ops \ Subscribers(h, k)
    BY <1>4, <2>1, DeleteAllIs
  <2>3. KeepsBooks(h, r) /\ KeepsFresh(h, r)
    BY <2>2, DeletedIs
  <2>4. Subscribers(r, k) = {}
    BY <2>2 DEF Subscribers, Deleted
  <2>5. k \notin DOMAIN r.shared
    BY <2>2, <2>4 DEF HubOK, Linked
  <2>6. \A j \in DOMAIN r.shared : j \in DOMAIN h.shared
    BY <2>2 DEF Deleted
  <2> QED
    BY <1>1, <2>3, <2>5, <2>6 DEF KeepsFresh, DeliveredOK
<1>6. CASE ~(Size[v] > MaxResultBytes) /\ waiting = {}
  <2>1. r = h
    BY <1>2, <1>6
  <2>2. KeepsBooks(h, r) /\ KeepsFresh(h, r)
    BY <2>1, DeletedNone, DeletedIs
  <2>3. ASSUME NEW w, op.again \/ v = w PROVE Fresh(r, k, w)
    <3>1. Subscribers(h, k) # {}
      BY <1>3 DEF Linked
    <3>2. op.result = v /\ \A s \in Subscribers(h, k) : ~h.ops[s].needsInitial
      BY <1>1, <1>6, <3>1
    <3> QED
      BY <1>1, <1>3, <2>1, <2>3, <3>2 DEF Fresh, ToCome
  <2> QED
    BY <1>1, <2>1, <2>2, <2>3 DEF KeepsFresh, DeliveredOK
<1>7. CASE ~(Size[v] > MaxResultBytes) /\ waiting # {}
  <2>1. PICK known, b, now, op2 : /\ known = [h EXCEPT !.shared[k].result = v] /\ b = CacheReplay(known, k, v)
                                  /\ now = [op EXCEPT !.result = v] /\ op2 = b.shared[k]
    OBVIOUS
  <2>2. r = Tell(b, waiting, v)
    BY <1>2, <1>7, <2>1
  <2>3. /\ DOMAIN known = Fields /\ known.shared = [h.shared EXCEPT ![k] = now]
        /\ known.ops = h.ops /\ known.order = h.order /\ known.initial = h.initial /\ known.rerun = h.rerun
        /\ known.replays = h.replays /\ known.active = h.active /\ known.pending = h.pending
        /\ known.cached = h.cached /\ known.running = h.running
        /\ known.debounce = h.debounce /\ known.disposed = h.disposed /\ known.orphans = h.orphans
        /\ known.calls = h.calls
    BY <1>1, <1>3, <2>1 DEF Fields
  <2>4. /\ now \in SharedOperation /\ now.result = v /\ now.replay = op.replay /\ now.stage = op.stage
        /\ now.read = op.read /\ now.queued = op.queued /\ now.again = op.again /\ now.failed = op.failed
    BY <1>3, <2>1, OpFields DEF SharedOperation
  <2>5. /\ DOMAIN known.shared = DOMAIN h.shared /\ known.shared[k] = now
        /\ \A j \in DOMAIN h.shared \ {k} : known.shared[j] = h.shared[j]
        /\ \A j \in DOMAIN h.shared : /\ known.shared[j].replay = h.shared[j].replay
                                      /\ known.shared[j] \in SharedOperation
    BY <1>1, <1>3, <2>3, <2>4 DEF HubTypes
  <2>6. HubTypes(known)
    BY <1>3, <2>3, <2>5 DEF HubTypes
  <2>7. CacheOK(known)
    <3>1. Cached(known) = Cached(h)
      BY <2>5 DEF Cached
    <3>2. \A j \in ToSet(h.replays) : j \in DOMAIN h.shared
      BY <1>3 DEF CacheOK, Lists, Cached
    <3>3. CachedBytes(known) = CachedBytes(h)
      BY <2>3, <2>5, <3>2 DEF CachedBytes
    <3> QED
      BY <1>3, <2>3, <3>1, <3>3, Zenon DEF CacheOK
  <2>8. /\ CacheOnly(known, b) /\ CacheOK(b)
        /\ \A j \in DOMAIN h.shared \ {k} : Forgot(h.shared[j], b.shared[j])
        /\ op2 \in SharedOperation /\ op2.replay \in {None, v} /\ op2.result = v
        /\ op2.stage = op.stage /\ op2.read = op.read /\ op2.queued = op.queued
        /\ op2.again = op.again /\ op2.failed = op.failed
    <3>1. k \in DOMAIN known.shared
      BY <2>5
    <3>2. /\ CacheOnly(known, b) /\ CacheOK(b)
          /\ \A j \in DOMAIN known.shared \ {k} : Forgot(known.shared[j], b.shared[j])
          /\ b.shared[k] \in SharedOperation /\ b.shared[k].replay \in {None, v}
          /\ b.shared[k].result = known.shared[k].result
          /\ b.shared[k].stage = known.shared[k].stage /\ b.shared[k].read = known.shared[k].read
          /\ b.shared[k].queued = known.shared[k].queued /\ b.shared[k].again = known.shared[k].again
          /\ b.shared[k].failed = known.shared[k].failed
      <4>1. v \in Value /\ b = CacheReplay(known, k, v)
        BY <1>3, <2>1
      <4> HIDE <2>1
      <4> QED
        BY <2>6, <2>7, <3>1, <4>1, CacheReplayIs
    <3>3. op2 = b.shared[k]
      BY <2>1
    <3>4. \A j \in DOMAIN h.shared \ {k} : Forgot(h.shared[j], b.shared[j])
      <4> SUFFICES ASSUME NEW j \in DOMAIN h.shared \ {k} PROVE Forgot(h.shared[j], b.shared[j])
        OBVIOUS
      <4>1. j \in DOMAIN known.shared \ {k} /\ known.shared[j] = h.shared[j]
        BY <2>5
      <4> QED
        BY <3>2, <4>1
    <3> QED
      BY <2>4, <2>5, <3>2, <3>3, <3>4
  <2>9. /\ b.ops = h.ops /\ b.order = h.order /\ b.initial = h.initial /\ b.rerun = h.rerun
        /\ b.active = h.active /\ b.pending = h.pending /\ b.running = h.running
        /\ b.debounce = h.debounce /\ b.disposed = h.disposed /\ b.orphans = h.orphans /\ b.calls = h.calls
        /\ DOMAIN b = Fields /\ DOMAIN b.shared = DOMAIN h.shared
    BY <2>3, <2>5, <2>8 DEF CacheOnly
  <2>10. \A j \in DOMAIN h.shared : /\ b.shared[j] \in SharedOperation /\ OpOK(b.shared[j])
                                    /\ b.shared[j].stage = h.shared[j].stage
                                    /\ b.shared[j].queued = h.shared[j].queued
    <3>1. ASSUME NEW j \in DOMAIN h.shared \ {k}
          PROVE  /\ b.shared[j] \in SharedOperation /\ OpOK(b.shared[j])
                 /\ b.shared[j].stage = h.shared[j].stage /\ b.shared[j].queued = h.shared[j].queued
      <4>1. Forgot(h.shared[j], b.shared[j]) /\ OpOK(h.shared[j])
        BY <1>3, <2>8 DEF OrderOK
      <4> QED
        BY <4>1 DEF Forgot, OpOK
    <3>2. OpOK(op2)
      BY <1>3, <2>8 DEF OpOK
    <3>3. h.shared[k] = op /\ b.shared[k] = op2
      BY <1>1, <2>1
    <3>4. ASSUME NEW j \in DOMAIN h.shared
          PROVE  /\ b.shared[j] \in SharedOperation /\ OpOK(b.shared[j])
                 /\ b.shared[j].stage = h.shared[j].stage /\ b.shared[j].queued = h.shared[j].queued
      <4>1. CASE j = k
        BY <2>8, <3>2, <3>3, <4>1
      <4>2. CASE j # k
        BY <3>1, <4>2
      <4> QED
        BY <4>1, <4>2
    <3> QED
      BY <3>4
  <2>11. \A j : Subscribers(b, j) = Subscribers(h, j)
    BY <2>9 DEF Subscribers
  <2>12. HubTypes(b)
    BY <1>3, <2>9, <2>10 DEF HubTypes
  <2>13. Linked(b)
    BY <1>3, <2>9, <2>11 DEF Linked
  <2>14. Counted(b) /\ OrderOK(b)
    <3>1. Busy(b) = Busy(h)
      BY <2>9, <2>10 DEF Busy
    <3> QED
      BY <1>3, <2>9, <2>10, <3>1 DEF Counted, OrderOK
  <2>15. HubOK(b) /\ MarksOK(b) /\ Pumped(b)
    <3>1. \A kind : Marked(b, kind) = Marked(h, kind)
      BY <2>9, <2>10 DEF Marked
    <3>2. MarksOK(b)
      BY <2>9, <3>1, Zenon DEF MarksOK
    <3> QED
      BY <2>8, <2>9, <2>12, <2>13, <2>14, <3>2 DEF HubOK, Pumped
  <2>16. /\ HubOK(r) /\ MarksOK(r) /\ Pumped(r)
         /\ r.shared = b.shared /\ r.active = h.active /\ r.pending = h.pending /\ r.running = h.running
         /\ r.debounce = h.debounce /\ r.disposed = h.disposed /\ r.calls = h.calls
         /\ DOMAIN r.ops = DOMAIN h.ops /\ \A j : Subscribers(r, j) = Subscribers(h, j)
         /\ \A s \in DOMAIN h.ops :
               /\ r.ops[s].attached = h.ops[s].attached /\ r.ops[s].key = h.ops[s].key
               /\ r.ops[s].late = h.ops[s].late
               /\ s \notin waiting => r.ops[s] = h.ops[s]
               /\ s \in waiting => /\ r.ops[s].shown = v
                                   /\ r.ops[s].needsInitial <=> h.ops[s].needsInitial /\ v = "error"
    BY <1>3, <2>2, <2>9, <2>11, <2>15, TellIs DEF ToldOK
  <2>17. \A s \in Subscribers(h, k) \ waiting : op.result = v /\ ~h.ops[s].needsInitial
    BY <1>1
  <2>18. ShownOK(r)
    <3>1. ASSUME NEW s \in DOMAIN r.ops, r.ops[s].needsInitial PROVE r.ops[s].shown \in {None, "error"}
      BY <2>16, <3>1 DEF ShownOK
    <3>2. ASSUME NEW s \in DOMAIN r.ops, ~r.ops[s].needsInitial, r.ops[s].attached
          PROVE r.ops[s].shown \in {r.shared[r.ops[s].key].result, "error"}
      <4>1. PICK j : j = h.ops[s].key
        OBVIOUS
      <4>2. /\ s \in DOMAIN h.ops /\ h.ops[s].attached /\ r.ops[s].key = j /\ j \in DOMAIN h.shared
            /\ (j = k <=> s \in Subscribers(h, k))
        BY <1>3, <2>16, <3>2, <4>1 DEF Linked, Subscribers
      <4>3. CASE j = k
        <5>1. r.shared[j].result = v
          BY <2>1, <2>8, <2>16, <4>3
        <5>2. CASE s \in waiting
          BY <2>16, <4>2, <5>1, <5>2
        <5>3. CASE s \notin waiting
          <6>1. r.ops[s] = h.ops[s] /\ op.result = v /\ ~h.ops[s].needsInitial
            BY <2>16, <2>17, <4>2, <4>3, <5>3
          <6>2. h.ops[s].shown \in {op.result, "error"}
            BY <1>1, <4>1, <4>2, <4>3, <6>1 DEF ShownOK
          <6> QED
            BY <4>2, <5>1, <6>1, <6>2
        <5> QED
          BY <5>2, <5>3
      <4>4. CASE j # k
        <5>1. s \notin waiting /\ r.ops[s] = h.ops[s]
          BY <1>1, <2>16, <4>2, <4>4
        <5>2. r.shared[j].result = h.shared[j].result
          BY <2>8, <2>16, <4>2, <4>4 DEF Forgot
        <5>3. h.ops[s].shown \in {h.shared[j].result, "error"}
          BY <3>2, <4>1, <4>2, <5>1 DEF ShownOK
        <5> QED
          BY <4>2, <5>1, <5>2, <5>3
      <4> QED
        BY <4>3, <4>4
    <3> QED
      BY <3>1, <3>2 DEF ShownOK
  <2>19. Called(h, r)
    BY <2>16 DEF Called
  <2>20. ASSUME NEW j \in DOMAIN r.shared \ {k} PROVE j \in DOMAIN h.shared /\ \A w : Fresh(h, j, w) => Fresh(r, j, w)
    <3>1. j \in DOMAIN h.shared /\ Forgot(h.shared[j], r.shared[j]) /\ Subscribers(r, j) = Subscribers(h, j)
      BY <2>8, <2>9, <2>16, <2>20
    <3>2. \A s \in Subscribers(h, j) : s \notin waiting /\ s \in DOMAIN h.ops /\ r.ops[s] = h.ops[s]
      BY <1>1, <2>16, <2>20 DEF Subscribers
    <3> QED
      BY <3>1, <3>2 DEF Fresh, Forgot, ToCome
  <2>21. ASSUME NEW w, op.again \/ v = w PROVE Fresh(r, k, w)
    <3>1. \A s \in Subscribers(r, k) : r.ops[s].needsInitial => r.ops[s].shown = "error"
      <4> SUFFICES ASSUME NEW s \in Subscribers(r, k), r.ops[s].needsInitial PROVE r.ops[s].shown = "error"
        OBVIOUS
      <4>1. s \in Subscribers(h, k) /\ s \in DOMAIN h.ops
        BY <1>4, <2>16
      <4>2. s \in waiting
        BY <2>16, <2>17, <4>1
      <4> QED
        BY <2>16, <4>1, <4>2
    <3>2. r.shared[k] = op2
      BY <2>1, <2>16
    <3> QED
      BY <1>3, <2>8, <2>21, <3>1, <3>2 DEF Fresh, ToCome
  <2>22. AllAttached(h) => AllAttached(r)
    BY <2>16 DEF AllAttached
  <2> QED
    BY <1>1, <2>16, <2>18, <2>19, <2>20, <2>21, <2>22 DEF KeepsBooks, DeliveredOK
<1> QED
  BY <1>5, <1>6, <1>7

-----------------------------------------------------------------------------
(* The end of subscribe.                                                   *)

\* With the new subscription, before it is told or executed.
Joined(g, s, k) ==
    LET g1 == IF k \in DOMAIN g.shared THEN g
              ELSE [g EXCEPT !.shared = Put(g.shared, k, NewOperation), !.order = Append(g.order, k)]
        new == [key |-> k, attached |-> TRUE, needsInitial |-> TRUE,
                late |-> g1.shared[k].stage = "ended", shown |-> None]
    IN  SetActiveDelta([g1 EXCEPT !.ops = Put(g1.ops, s, new)], 1)

JoinedOK(g, s, k, r) ==
    /\ HubOK(r) /\ MarksOK(r) /\ Pumped(r) /\ ShownOK(r)
    /\ r.pending = g.pending /\ r.disposed = g.disposed /\ r.running = g.running
    /\ r.debounce = g.debounce /\ r.active = g.active + 1
    /\ r.calls = IF g.active > 0 THEN g.calls ELSE Append(g.calls, TRUE)
    /\ DOMAIN r.shared = DOMAIN g.shared \cup {k}
    /\ \A j \in DOMAIN g.shared : r.shared[j] = g.shared[j]
    /\ k \notin DOMAIN g.shared => r.shared[k] = NewOperation
    /\ DOMAIN r.ops = DOMAIN g.ops \cup {s} /\ \A x \in DOMAIN g.ops : r.ops[x] = g.ops[x]
    /\ r.ops[s].key = k /\ r.ops[s].attached /\ r.ops[s].needsInitial /\ r.ops[s].shown = None
    /\ (r.ops[s].late <=> r.shared[k].stage = "ended")

LEMMA JoinedIs ==
    ASSUME NEW g, HubOK(g), MarksOK(g), Pumped(g), ShownOK(g), NEW s \in Conn \X OpId, s \notin DOMAIN g.ops,
           NEW k \in Key
    PROVE  JoinedOK(g, s, k, Joined(g, s, k))
<1>1. PICK r, g1, new, b :
        /\ r = Joined(g, s, k)
        /\ g1 = IF k \in DOMAIN g.shared THEN g
                ELSE [g EXCEPT !.shared = Put(g.shared, k, NewOperation), !.order = Append(g.order, k)]
        /\ new = [key |-> k, attached |-> TRUE, needsInitial |-> TRUE,
                  late |-> g1.shared[k].stage = "ended", shown |-> None]
        /\ b = [g1 EXCEPT !.ops = Put(g1.ops, s, new)]
  OBVIOUS
<1>2. r = SetActiveDelta(b, 1)
  BY <1>1 DEF Joined
<1>3. /\ HubTypes(g) /\ Linked(g) /\ Counted(g) /\ CacheOK(g) /\ OrderOK(g) /\ DOMAIN g = Fields
      /\ g.active \in Nat /\ g.debounce \in BOOLEAN
  BY HubNumbers DEF HubOK, HubTypes
<1>4. /\ DOMAIN g1 = Fields /\ g1.ops = g.ops /\ g1.initial = g.initial /\ g1.rerun = g.rerun
      /\ g1.replays = g.replays /\ g1.active = g.active /\ g1.pending = g.pending
      /\ g1.running = g.running /\ g1.cached = g.cached /\ g1.debounce = g.debounce
      /\ g1.disposed = g.disposed /\ g1.orphans = g.orphans /\ g1.calls = g.calls
  BY <1>1, <1>3 DEF Fields
<1>5. /\ DOMAIN g1.shared = DOMAIN g.shared \cup {k} /\ \A j \in DOMAIN g.shared : g1.shared[j] = g.shared[j]
      /\ k \notin DOMAIN g.shared => g1.shared[k] = NewOperation
      /\ Lists(g1.order, DOMAIN g.shared \cup {k})
  <2>1. Lists(g.order, DOMAIN g.shared)
    BY <1>3 DEF OrderOK
  <2>2. CASE k \in DOMAIN g.shared
    <3>1. g1 = g /\ DOMAIN g.shared \cup {k} = DOMAIN g.shared
      BY <1>1, <2>2
    <3> QED
      BY <2>1, <2>2, <3>1
  <2>3. CASE k \notin DOMAIN g.shared
    <3>1. g1.shared = Put(g.shared, k, NewOperation) /\ g1.order = Append(g.order, k)
      BY <1>1, <1>3, <2>3 DEF Fields
    <3>2. Lists(g1.order, DOMAIN g.shared \cup {k})
      BY <2>1, <2>3, <3>1, ListsAppend
    <3> QED
      BY <2>3, <3>1, <3>2 DEF Put
  <2> QED
    BY <2>2, <2>3
<1>6. /\ DOMAIN b = Fields /\ b.ops = Put(g.ops, s, new) /\ b.shared = g1.shared /\ b.order = g1.order
      /\ b.initial = g.initial /\ b.rerun = g.rerun
      /\ b.replays = g.replays /\ b.active = g.active /\ b.pending = g.pending
      /\ b.running = g.running /\ b.cached = g.cached /\ b.debounce = g.debounce
      /\ b.disposed = g.disposed /\ b.orphans = g.orphans /\ b.calls = g.calls
  BY <1>1, <1>4 DEF Fields
<1>7. /\ DOMAIN r = Fields /\ r.ops = b.ops /\ r.shared = g1.shared /\ r.order = g1.order
      /\ r.initial = g.initial /\ r.rerun = g.rerun /\ r.replays = g.replays
      /\ r.pending = g.pending /\ r.running = g.running /\ r.cached = g.cached
      /\ r.disposed = g.disposed /\ r.orphans = g.orphans /\ r.active = g.active + 1
      /\ r.debounce = g.debounce
      /\ r.calls = IF g.active > 0 THEN g.calls ELSE Append(g.calls, TRUE)
  <2>1. PICK one, q : one = 1 /\ q = b.active + one
    OBVIOUS
  <2>2. r = SetActiveDelta(b, one)
    BY <1>2, <2>1
  <2>3. /\ DOMAIN r = Fields /\ r.ops = b.ops /\ r.shared = b.shared /\ r.order = b.order
        /\ r.initial = b.initial /\ r.rerun = b.rerun /\ r.replays = b.replays
        /\ r.pending = b.pending /\ r.running = b.running /\ r.cached = b.cached
        /\ r.disposed = b.disposed /\ r.orphans = b.orphans /\ r.active = q
        /\ r.debounce = (b.debounce /\ q > 0)
        /\ r.calls = IF (b.active > 0) # (q > 0) THEN Append(b.calls, q > 0) ELSE b.calls
    BY <1>6, <2>1, <2>2, SetActiveDeltaIs
  <2>4. q = g.active + 1 /\ (q > 0) = TRUE
    BY <1>3, <1>6, <2>1
  <2>5. r.debounce = g.debounce
    BY <1>3, <1>6, <2>3, <2>4
  <2>6. r.calls = IF g.active > 0 THEN g.calls ELSE Append(g.calls, TRUE)
    BY <1>6, <2>3, <2>4
  <2> QED
    BY <1>6, <2>3, <2>4, <2>5, <2>6
<1>8. /\ DOMAIN r.ops = DOMAIN g.ops \cup {s} /\ r.ops[s] = new /\ \A x \in DOMAIN g.ops : r.ops[x] = g.ops[x]
  BY <1>6, <1>7 DEF Put
<1>9. /\ new \in Subscription /\ new.key = k /\ new.attached /\ new.needsInitial /\ new.shown = None
      /\ (new.late <=> r.shared[k].stage = "ended")
  BY <1>1, <1>7 DEF Subscription
<1>10. /\ NewOperation \in SharedOperation /\ OpOK(NewOperation) /\ NewOperation.replay = None
       /\ NewOperation.stage = "idle" /\ NewOperation.queued = "no"
  BY DEF NewOperation, SharedOperation, OpOK
<1>11. /\ Subscribers(r, k) = Subscribers(g, k) \cup {s}
       /\ \A j : j # k => Subscribers(r, j) = Subscribers(g, j)
  BY <1>8, <1>9 DEF Subscribers
<1>12. HubTypes(r)
  <2>1. IsFiniteSet(DOMAIN r.ops) /\ IsFiniteSet(DOMAIN r.shared)
    BY <1>3, <1>5, <1>7, <1>8, FS_AddElement, SMTT(30) DEF HubTypes
  <2>2. \A x \in DOMAIN r.ops : r.ops[x] \in Subscription
    BY <1>3, <1>8, <1>9 DEF HubTypes
  <2>3. \A j \in DOMAIN r.shared : r.shared[j] \in SharedOperation
    BY <1>3, <1>5, <1>7, <1>10 DEF HubTypes
  <2> QED
    BY <1>3, <1>5, <1>7, <1>8, <2>1, <2>2, <2>3 DEF HubTypes
<1>13. Linked(r)
  BY <1>3, <1>5, <1>7, <1>8, <1>9, <1>11 DEF Linked
<1>14. Counted(r)
  <2>1. Busy(r) = Busy(g)
    BY <1>5, <1>7, <1>10 DEF Busy
  <2>2. Cardinality(DOMAIN r.ops) = Cardinality(DOMAIN g.ops) + 1
    BY <1>3, <1>8, FS_AddElement, ZenonT(40) DEF HubTypes
  <2> QED
    BY <1>3, <1>7, <2>1, <2>2 DEF Counted
<1>15. CacheOK(r)
  <2>1. Cached(r) = Cached(g)
    BY <1>5, <1>7, <1>10 DEF Cached
  <2>2. \A j \in ToSet(g.replays) : j \in DOMAIN g.shared
    BY <1>3 DEF CacheOK, Lists, Cached
  <2>3. CachedBytes(r) = CachedBytes(g)
    BY <1>5, <1>7, <2>2 DEF CachedBytes
  <2> QED
    BY <1>3, <1>7, <2>1, <2>3, Zenon DEF CacheOK
<1>16. OrderOK(r)
  BY <1>3, <1>5, <1>7, <1>10 DEF OrderOK
<1>17. MarksOK(r) /\ Pumped(r)
  <2>1. \A kind \in {"initial", "rerun"} : Marked(r, kind) = Marked(g, kind)
    BY <1>5, <1>7, <1>10 DEF Marked
  <2> QED
    BY <1>7, <2>1 DEF MarksOK, Pumped
<1>18. ShownOK(r)
  <2>1. ASSUME NEW x \in DOMAIN r.ops, x # s
        PROVE  /\ r.ops[x].needsInitial => r.ops[x].shown \in {None, "error"}
               /\ ~r.ops[x].needsInitial /\ r.ops[x].attached =>
                     r.ops[x].shown \in {r.shared[r.ops[x].key].result, "error"}
    <3>1. x \in DOMAIN g.ops /\ r.ops[x] = g.ops[x]
      BY <1>8, <2>1
    <3>2. g.ops[x].attached => g.ops[x].key \in DOMAIN g.shared
      BY <1>3, <3>1 DEF Linked
    <3> QED
      BY <1>5, <1>7, <3>1, <3>2 DEF ShownOK
  <2> QED
    BY <1>8, <1>9, <2>1 DEF ShownOK
<1>19. HubOK(r)
  BY <1>12, <1>13, <1>14, <1>15, <1>16 DEF HubOK
<1>20. /\ r.ops[s].key = k /\ r.ops[s].attached /\ r.ops[s].needsInitial /\ r.ops[s].shown = None
       /\ (r.ops[s].late <=> r.shared[k].stage = "ended")
  BY <1>8, <1>9
<1>21. /\ DOMAIN r.shared = DOMAIN g.shared \cup {k} /\ \A j \in DOMAIN g.shared : r.shared[j] = g.shared[j]
       /\ k \notin DOMAIN g.shared => r.shared[k] = NewOperation
  BY <1>5, <1>7
<1>22. r = Joined(g, s, k)
  BY <1>1
<1> QED
  BY <1>7, <1>8, <1>17, <1>18, <1>19, <1>20, <1>21, <1>22 DEF JoinedOK

LEMMA AppendShort ==
    /\ Append(<<>>, FALSE) = <<FALSE>> /\ Append(<<>>, TRUE) = <<TRUE>>
    /\ Append(<<FALSE>>, TRUE) = <<FALSE, TRUE>> /\ Append(<<FALSE>>, FALSE) = <<FALSE, FALSE>>
<1>1. Append(<<>>, FALSE) = <<FALSE>> /\ Append(<<>>, TRUE) = <<TRUE>>
  OBVIOUS
<1>2. ASSUME NEW what \in BOOLEAN PROVE Append(<<FALSE>>, what) = <<FALSE, what>>
  <2>1. PICK one, two, all : one = <<FALSE>> /\ two = <<FALSE, what>> /\ all = Append(one, what)
    OBVIOUS
  <2>2. one \in Seq(BOOLEAN) /\ Len(one) = 1 /\ one[1] = FALSE
    BY <2>1
  <2>3. two \in Seq(BOOLEAN) /\ Len(two) = 2 /\ two[1] = FALSE /\ two[2] = what
    BY <2>1
  <2>4. all \in Seq(BOOLEAN) /\ Len(all) = 2 /\ all[1] = FALSE /\ all[2] = what
    BY <2>1, <2>2, AppendProperties
  <2>5. \A i \in 1..2 : all[i] = two[i]
    BY <2>3, <2>4
  <2>6. all = two
    BY <2>3, <2>4, <2>5, SeqEqual
  <2> QED
    BY <2>1, <2>6
<1> QED
  BY <1>1, <1>2

LEMMA AttachIs ==
    ASSUME NEW h, HubOK(h), MarksOK(h), Pumped(h), ShownOK(h), h.calls = <<>>, NEW s \in Conn \X OpId,
           NEW k \in Key
    PROVE  KeepsBooks(h, Attach(h, s, k)) /\ (~h.disposed => KeepsFresh(h, Attach(h, s, k)))
<1>1. PICK r, g, b, op : /\ r = Attach(h, s, k) /\ g = DeleteOperation(h, s) /\ b = Joined(g, s, k)
                         /\ op = b.shared[k]
  OBVIOUS
<1>2. r = IF op.replay # None
          THEN [Tell(b, {s}, op.replay) EXCEPT !.replays = Append(RemoveFirst(@, k), k)]
          ELSE IF op.stage = "idle" /\ op.queued = "no" THEN Enqueue(b, k, "initial")
          ELSE b
  <2>1. Attach(h, s, k) =
          LET x == Joined(DeleteOperation(h, s), s, k)
          IN  IF x.shared[k].replay # None
              THEN [Tell(x, {s}, x.shared[k].replay) EXCEPT !.replays = Append(RemoveFirst(@, k), k)]
              ELSE IF x.shared[k].stage = "idle" /\ x.shared[k].queued = "no" THEN Enqueue(x, k, "initial")
              ELSE x
    BY Zenon DEF Attach, Joined
  <2> QED
    BY <1>1, <2>1
<1>3. HubOK(g) /\ Deleted(h, g) /\ DOMAIN g.ops = DOMAIN h.ops \ {s}
  BY <1>1, DeleteOperationIs
<1>4. KeepsBooks(h, g) /\ KeepsFresh(h, g)
  BY <1>3, DeletedIs
<1>5. /\ HubOK(b) /\ MarksOK(b) /\ Pumped(b) /\ ShownOK(b)
      /\ b.pending = g.pending /\ b.disposed = g.disposed /\ b.running = g.running
      /\ b.debounce = g.debounce /\ b.active = g.active + 1
      /\ b.calls = IF g.active > 0 THEN g.calls ELSE Append(g.calls, TRUE)
      /\ DOMAIN b.shared = DOMAIN g.shared \cup {k}
      /\ \A j \in DOMAIN g.shared : b.shared[j] = g.shared[j]
      /\ k \notin DOMAIN g.shared => op = NewOperation
      /\ DOMAIN b.ops = DOMAIN g.ops \cup {s} /\ \A x \in DOMAIN g.ops : b.ops[x] = g.ops[x]
      /\ b.ops[s].key = k /\ b.ops[s].attached /\ b.ops[s].needsInitial /\ b.ops[s].shown = None
      /\ (b.ops[s].late <=> op.stage = "ended")
  <2>1. s \notin DOMAIN g.ops /\ MarksOK(g) /\ Pumped(g) /\ ShownOK(g)
    BY <1>3, <1>4 DEF KeepsBooks
  <2>2. b = Joined(g, s, k) /\ op = b.shared[k]
    BY <1>1
  <2>3. JoinedOK(g, s, k, b)
    BY <1>3, <2>1, <2>2, JoinedIs
  <2> QED
    BY <2>2, <2>3 DEF JoinedOK
<1>6. Called(h, b) /\ b.pending = h.pending /\ b.disposed = h.disposed /\ b.running = h.running
  <2>1. h.active \in Nat /\ g.active \in Nat /\ g.active <= h.active
        /\ h.debounce \in BOOLEAN /\ g.debounce \in BOOLEAN
    BY <1>3, HubNumbers DEF Deleted, HubOK, HubTypes
  <2>2. g.calls = IF h.active > 0 /\ g.active = 0 THEN <<FALSE>> ELSE <<>>
    BY <1>3, AppendShort, Zenon DEF Deleted
  <2>3. b.calls = IF g.active > 0 THEN g.calls ELSE Append(g.calls, TRUE)
    BY <1>5
  <2>4. b.active > 0
    BY <1>5, <2>1
  <2>5. CASE g.active > 0
    <3>1. b.calls = <<>> /\ h.active > 0
      <4>1. h.active > 0 /\ ~(h.active > 0 /\ g.active = 0)
        BY <2>1, <2>5
      <4> QED
        BY <2>2, <2>3, <2>5, <4>1, Zenon
    <3>2. b.debounce = h.debounce
      BY <1>3, <1>5, <2>1, <2>5 DEF Deleted
    <3> QED
      BY <1>3, <1>5, <2>4, <3>1, <3>2 DEF Called, Deleted
  <2>6. CASE ~(g.active > 0) /\ h.active > 0
    <3>1. g.active = 0
      BY <2>1, <2>6
    <3>2. b.calls = <<FALSE, TRUE>>
      BY <2>2, <2>3, <2>6, <3>1, AppendShort, Zenon
    <3> QED
      BY <1>3, <1>5, <2>4, <3>2 DEF Called, Deleted
  <2>7. CASE ~(g.active > 0) /\ ~(h.active > 0)
    <3>1. h.active = 0
      BY <2>1, <2>7
    <3>2. b.calls = <<TRUE>>
      BY <2>2, <2>3, <2>7, AppendShort, Zenon
    <3> QED
      BY <1>3, <1>5, <2>4, <3>1, <3>2 DEF Called, Deleted
  <2> QED
    BY <2>5, <2>6, <2>7
<1>7. AllAttached(h) => AllAttached(b)
  BY <1>4, <1>5 DEF KeepsFresh, AllAttached
<1>8. /\ HubTypes(b) /\ Linked(b) /\ Counted(b) /\ CacheOK(b) /\ OrderOK(b) /\ DOMAIN b = Fields
      /\ k \in DOMAIN b.shared /\ op \in SharedOperation /\ OpOK(op)
  BY <1>1, <1>5 DEF HubOK, HubTypes, OrderOK
<1>9. s \notin DOMAIN g.ops
  BY <1>3
<1>10. /\ Subscribers(b, k) = Subscribers(g, k) \cup {s}
       /\ \A j : j # k => Subscribers(b, j) = Subscribers(g, j)
  BY <1>5, <1>9 DEF Subscribers
\* Apart from k, everybody has what they had.
<1>11. ASSUME NEW j \in DOMAIN b.shared \ {k}, NEW v, j \in DOMAIN h.shared => Fresh(h, j, v)
       PROVE  Fresh(b, j, v)
  <2>1. j \in DOMAIN g.shared /\ b.shared[j] = g.shared[j] /\ Subscribers(b, j) = Subscribers(g, j)
    BY <1>5, <1>10, <1>11
  <2>2. Fresh(g, j, v)
    BY <1>4, <1>11, <2>1 DEF KeepsFresh
  <2>3. \A x \in Subscribers(b, j) : b.ops[x] = g.ops[x]
    BY <1>5, <2>1 DEF Subscribers
  <2> QED
    BY <2>1, <2>2, <2>3 DEF Fresh
\* What subscribers of k had, if there were any.
<1>12. ASSUME k \in DOMAIN g.shared, NEW v, k \in DOMAIN h.shared => Fresh(h, k, v)
       PROVE  /\ Fresh(g, k, v) /\ g.shared[k] = op
              /\ \A x \in Subscribers(g, k) : x \in DOMAIN b.ops /\ x # s /\ b.ops[x] = g.ops[x]
  BY <1>1, <1>4, <1>5, <1>9, <1>12 DEF KeepsFresh, Subscribers
<1>13. CASE op.replay # None
  <2>1. PICK t : t = Tell(b, {s}, op.replay)
    OBVIOUS
  <2>2. r = [t EXCEPT !.replays = Append(RemoveFirst(t.replays, k), k)]
    BY <1>2, <1>13, <2>1
  <2>3. op.replay \in Value /\ op.replay = op.result /\ k \in DOMAIN g.shared
    BY <1>5, <1>8, <1>13 DEF SharedOperation, OpOK, NewOperation
  <2>4. /\ HubOK(t) /\ MarksOK(t) /\ Pumped(t) /\ DOMAIN t = Fields /\ t.shared = b.shared
        /\ t.pending = b.pending /\ t.disposed = b.disposed /\ t.running = b.running
        /\ t.debounce = b.debounce /\ t.active = b.active /\ t.calls = b.calls
        /\ DOMAIN t.ops = DOMAIN b.ops /\ \A j : Subscribers(t, j) = Subscribers(b, j)
        /\ \A x \in DOMAIN b.ops :
              /\ t.ops[x].attached = b.ops[x].attached /\ t.ops[x].key = b.ops[x].key
              /\ t.ops[x].late = b.ops[x].late
              /\ x \notin {s} => t.ops[x] = b.ops[x]
              /\ x \in {s} => /\ t.ops[x].shown = op.replay
                              /\ t.ops[x].needsInitial <=> b.ops[x].needsInitial /\ op.replay = "error"
    <3>1. PICK what, set : what = op.replay /\ set = {s}
      OBVIOUS
    <3>2. t = Tell(b, set, what) /\ what \in Value \cup {"error"}
      BY <2>1, <2>3, <3>1
    <3>3. ToldOK(b, t, set, what)
      BY <1>5, <3>2, TellIs
    <3> QED
      BY <1>5, <3>1, <3>3 DEF ToldOK
  <2>5. /\ DOMAIN r = Fields /\ r.replays = Append(RemoveFirst(t.replays, k), k) /\ r.ops = t.ops
        /\ r.shared = t.shared /\ r.order = t.order /\ r.initial = t.initial /\ r.rerun = t.rerun
        /\ r.active = t.active /\ r.pending = t.pending /\ r.running = t.running /\ r.cached = t.cached
        /\ r.debounce = t.debounce /\ r.disposed = t.disposed /\ r.orphans = t.orphans /\ r.calls = t.calls
    BY <2>2, <2>4 DEF Fields
  <2>6. /\ \A j : Subscribers(r, j) = Subscribers(t, j) /\ \A kind : Marked(r, kind) = Marked(t, kind)
        /\ Busy(r) = Busy(t) /\ Cached(r) = Cached(t)
    BY <2>5 DEF Subscribers, Marked, Busy, Cached
  <2>7. CacheOK(r)
    <3>1. /\ Lists(t.replays, Cached(t)) /\ ToSet(t.replays) = Cached(t) /\ IsFiniteSet(CachedBytes(t))
          /\ t.cached = Cardinality(CachedBytes(t)) /\ t.cached <= CacheMaxBytes
      BY <2>4 DEF HubOK, CacheOK, Lists
    <3>2. k \in Cached(t)
      BY <1>1, <1>8, <1>13, <2>4 DEF Cached
    <3>3. Lists(RemoveFirst(t.replays, k), Cached(t) \ {k})
      BY <3>1, ListsRemove
    <3>4. Lists(r.replays, (Cached(t) \ {k}) \cup {k})
      <4>1. PICK less, seq : less = Cached(t) \ {k} /\ seq = RemoveFirst(t.replays, k)
        OBVIOUS
      <4>2. k \notin less /\ Lists(seq, less)
        BY <3>3, <4>1
      <4>3. Lists(Append(seq, k), less \cup {k})
        BY <4>2, ListsAppend
      <4> QED
        BY <2>5, <4>1, <4>3
    <3>5. (Cached(t) \ {k}) \cup {k} = Cached(t)
      BY <3>2
    <3>6. Lists(r.replays, Cached(r)) /\ ToSet(r.replays) = ToSet(t.replays)
      BY <2>6, <3>1, <3>4, <3>5 DEF Lists
    <3>7. CachedBytes(r) = CachedBytes(t)
      BY <2>5, <3>6, Zenon DEF CachedBytes
    <3> QED
      BY <2>5, <3>1, <3>6, <3>7 DEF CacheOK
  <2>8. HubOK(r)
    <3>1. HubTypes(t) /\ Linked(t) /\ Counted(t) /\ OrderOK(t)
      BY <2>4 DEF HubOK
    <3>2. HubTypes(r) /\ Linked(r)
      BY <2>5, <2>6, <3>1 DEF HubTypes, Linked
    <3>3. Counted(r) /\ OrderOK(r)
      BY <2>5, <2>6, <3>1 DEF Counted, OrderOK
    <3> QED
      BY <2>7, <3>2, <3>3 DEF HubOK
  <2>9. MarksOK(r) /\ Pumped(r)
    BY <2>4, <2>5, <2>6, Zenon DEF MarksOK, Pumped
  <2>10. /\ s \in DOMAIN b.ops /\ r.ops[s].shown = op.replay /\ r.ops[s].key = k
         /\ (r.ops[s].needsInitial => r.ops[s].shown = "error")
         /\ \A x \in DOMAIN b.ops \ {s} : r.ops[x] = b.ops[x]
    BY <1>5, <2>4, <2>5
  <2>11. ShownOK(r)
    <3>1. \A x \in DOMAIN b.ops : b.ops[x].attached => b.ops[x].key \in DOMAIN b.shared
      BY <1>8 DEF Linked
    <3>2. r.shared = b.shared /\ DOMAIN r.ops = DOMAIN b.ops /\ r.shared[k].result = op.replay
      BY <1>1, <2>3, <2>4, <2>5
    <3>3. ASSUME NEW x \in DOMAIN r.ops, x # s
          PROVE  /\ r.ops[x].needsInitial => r.ops[x].shown \in {None, "error"}
                 /\ ~r.ops[x].needsInitial /\ r.ops[x].attached =>
                       r.ops[x].shown \in {r.shared[r.ops[x].key].result, "error"}
      BY <1>5, <2>10, <3>2, <3>3 DEF ShownOK
    <3> QED
      BY <2>10, <3>2, <3>3 DEF ShownOK
  <2>12. Called(h, r) /\ r.pending = h.pending /\ r.disposed = h.disposed /\ r.running = h.running
    BY <1>6, <2>4, <2>5 DEF Called
  <2>13. AllAttached(b) => AllAttached(r)
    BY <2>4, <2>5 DEF AllAttached
  <2>14. ASSUME NEW j \in DOMAIN r.shared \ {k}, NEW v, Fresh(b, j, v) PROVE Fresh(r, j, v)
    <3>1. r.shared[j] = b.shared[j] /\ Subscribers(r, j) = Subscribers(b, j)
      BY <2>4, <2>5, <2>6
    <3>2. \A x \in Subscribers(b, j) : r.ops[x] = b.ops[x]
      BY <1>5, <2>10, <2>14 DEF Subscribers
    <3> QED
      BY <2>14, <3>1, <3>2 DEF Fresh
  <2>15. ASSUME NEW v, k \in DOMAIN h.shared => Fresh(h, k, v) PROVE Fresh(r, k, v)
    <3>1. /\ Fresh(g, k, v) /\ g.shared[k] = op
          /\ \A x \in Subscribers(g, k) : x \in DOMAIN b.ops /\ x # s /\ b.ops[x] = g.ops[x]
      BY <1>12, <2>3, <2>15
    <3>2. r.shared[k] = op /\ Subscribers(r, k) = Subscribers(g, k) \cup {s}
      BY <1>1, <1>10, <2>4, <2>5, <2>6
    <3>3. \A x \in Subscribers(g, k) : r.ops[x] = g.ops[x]
      BY <2>10, <3>1
    <3> QED
      BY <2>10, <3>1, <3>2, <3>3 DEF Fresh
  <2>16. KeepsFresh(h, r)
    <3>1. DOMAIN r.shared = DOMAIN b.shared
      BY <2>4, <2>5
    <3> QED
      BY <1>7, <1>11, <2>13, <2>14, <2>15, <3>1 DEF KeepsFresh
  <2> QED
    BY <1>1, <2>8, <2>9, <2>11, <2>12, <2>16 DEF KeepsBooks
<1>14. CASE op.replay = None /\ op.stage = "idle" /\ op.queued = "no"
  <2>1. r = Enqueue(b, k, "initial")
    BY <1>2, <1>14
  <2>2. Begins(b, r) /\ Pumped(r) /\ (~b.disposed => ToCome(r.shared[k]))
    BY <1>1, <1>5, <1>8, <1>14, <2>1, EnqueueIs DEF Ordered
  <2>3. ShownOK(r) /\ \A j \in DOMAIN b.shared : \A v : Fresh(b, j, v) => Fresh(r, j, v)
    BY <1>5, <2>2, BeginsKeeps
  <2>4. HubOK(r) /\ MarksOK(r) /\ QueuesOnly(b, r) /\ (b.disposed => r = b)
    BY <2>2 DEF Begins, Ordered
  <2>5. Called(h, r) /\ r.pending = h.pending /\ r.disposed = h.disposed /\ (h.disposed => r.running = h.running)
    BY <1>6, <2>4 DEF Called, QueuesOnly
  <2>6. KeepsBooks(h, r)
    BY <2>2, <2>3, <2>4, <2>5 DEF KeepsBooks
  <2>7. ASSUME ~h.disposed PROVE KeepsFresh(h, r)
    <3>1. AllAttached(h) => AllAttached(r)
      BY <1>7, <2>4 DEF AllAttached, QueuesOnly
    <3>2. DOMAIN r.shared = DOMAIN b.shared
      BY <2>4 DEF QueuesOnly
    <3>3. \A v : Fresh(r, k, v)
      BY <1>6, <2>2, <2>7 DEF Fresh
    <3> QED
      BY <1>11, <2>3, <3>1, <3>2, <3>3 DEF KeepsFresh
  <2> QED
    BY <1>1, <2>6, <2>7
<1>15. CASE op.replay = None /\ ~(op.stage = "idle" /\ op.queued = "no")
  <2>1. r = b
    BY <1>2, <1>15
  <2>2. KeepsBooks(h, r)
    BY <1>5, <1>6, <2>1 DEF KeepsBooks
  <2>3. ASSUME NEW v, k \in DOMAIN h.shared => Fresh(h, k, v) PROVE Fresh(r, k, v)
    <3>1. k \in DOMAIN g.shared
      BY <1>5, <1>15 DEF NewOperation
    <3>2. /\ Fresh(g, k, v) /\ g.shared[k] = op
          /\ \A x \in Subscribers(g, k) : x \in DOMAIN b.ops /\ x # s /\ b.ops[x] = g.ops[x]
      BY <1>12, <2>3, <3>1
    <3>3. r.shared[k] = op /\ Subscribers(r, k) = Subscribers(g, k) \cup {s}
      BY <1>1, <1>10, <2>1
    <3>4. op.stage = "ended" => r.ops[s].late
      BY <1>5, <2>1
    <3>5. op.stage = "idle" => ToCome(op)
      BY <1>15 DEF ToCome
    <3> QED
      BY <2>1, <3>2, <3>3, <3>4, <3>5 DEF Fresh
  <2> QED
    BY <1>1, <1>7, <1>11, <2>1, <2>2, <2>3 DEF KeepsFresh
<1> QED
  BY <1>13, <1>14, <1>15

-----------------------------------------------------------------------------
(* The hub and the poller together.                                        *)

Calls == {<<>>, <<FALSE>>, <<FALSE, FALSE>>, <<TRUE>>, <<FALSE, TRUE>>}

LEMMA CallsDiffer ==
    /\ <<>> # <<FALSE>> /\ <<>> # <<FALSE, FALSE>> /\ <<>> # <<TRUE>> /\ <<>> # <<FALSE, TRUE>>
    /\ <<FALSE>> # <<FALSE, FALSE>> /\ <<FALSE>> # <<TRUE>> /\ <<FALSE>> # <<FALSE, TRUE>>
    /\ <<FALSE, FALSE>> # <<TRUE>> /\ <<FALSE, FALSE>> # <<FALSE, TRUE>> /\ <<TRUE>> # <<FALSE, TRUE>>
<1>1. PICK none, off, offOff, on, offOn :
        none = <<>> /\ off = <<FALSE>> /\ offOff = <<FALSE, FALSE>> /\ on = <<TRUE>> /\ offOn = <<FALSE, TRUE>>
  OBVIOUS
<1>2. Len(none) = 0 /\ Len(off) = 1 /\ Len(offOff) = 2 /\ Len(on) = 1 /\ Len(offOn) = 2
  BY <1>1
<1>3. off[1] = FALSE /\ on[1] = TRUE /\ offOff[2] = FALSE /\ offOn[2] = TRUE
  BY <1>1
<1>4. none # off /\ none # offOff /\ none # on /\ none # offOn /\ off # offOff /\ off # offOn
      /\ offOff # on /\ on # offOn
  BY <1>2
<1>5. off # on /\ offOff # offOn
  BY <1>3
<1> QED
  BY <1>1, <1>4, <1>5, Zenon

\* What the calls make of the poller.
LEMMA BecomesIs ==
    ASSUME NEW h, Becomes(h), h.calls \in Calls
    PROVE  /\ hub' = [h EXCEPT !.calls = <<>>] /\ table' = table /\ pollFaults' = pollFaults
           /\ h.calls = <<>> => poller' = poller /\ signalled' = signalled
           /\ h.calls = <<FALSE>> => poller' = Stopped(poller) /\ signalled' = signalled
           /\ h.calls = <<FALSE, FALSE>> => poller' = Stopped(Stopped(poller)) /\ signalled' = signalled
           /\ h.calls = <<TRUE>> => poller' = Started(poller) /\ signalled' = {}
           /\ h.calls = <<FALSE, TRUE>> => poller' = Started(Stopped(poller)) /\ signalled' = {}
<1>1. PICK list, size : list = h.calls /\ size = Len(list)
  OBVIOUS
<1>2. size \in Nat
  BY <1>1 DEF Calls
<1>3. PICK f : f = CHOOSE e : e = [n \in 0..size |-> IF n = 0 THEN poller
                                                     ELSE IF list[n] THEN Started(e[n - 1]) ELSE Stopped(e[n - 1])]
  OBVIOUS
<1>4. poller' = f[size]
  BY <1>1, <1>3 DEF Becomes
<1>5. IsLoop("tell", f, size, poller, None, list)
  <2>1. PICK e : IsLoop("tell", e, size, poller, None, list)
    BY <1>2, LoopExists
  <2>2. e = [n \in 0..size |-> IF n = 0 THEN poller ELSE IF list[n] THEN Started(e[n - 1]) ELSE Stopped(e[n - 1])]
    BY <2>1, Zenon DEF IsLoop, Round
  <2>3. f = [n \in 0..size |-> IF n = 0 THEN poller ELSE IF list[n] THEN Started(f[n - 1]) ELSE Stopped(f[n - 1])]
    BY <1>3, <2>2, Zenon
  <2> QED
    BY <2>3, Zenon DEF IsLoop, Round
<1>6. f[0] = poller /\ \A n \in 1..size : f[n] = IF list[n] THEN Started(f[n - 1]) ELSE Stopped(f[n - 1])
  BY <1>2, <1>5, LoopIs DEF Round
<1>7. /\ hub' = [h EXCEPT !.calls = <<>>] /\ table' = table /\ pollFaults' = pollFaults
      /\ signalled' = IF \E i \in 1..size : list[i] = TRUE THEN {} ELSE signalled
  BY <1>1 DEF Becomes, Contains
<1>8. CASE list = <<>>
  <2>1. size = 0 /\ ~ \E i \in 1..size : list[i] = TRUE
    BY <1>1, <1>8
  <2>2. poller' = poller /\ signalled' = signalled
    BY <1>4, <1>6, <1>7, <2>1
  <2> QED
    BY <1>1, <1>7, <1>8, <2>2, CallsDiffer, Zenon
<1>9. CASE list = <<FALSE>>
  <2>1. size = 1 /\ 1 \in 1..size /\ list[1] = FALSE /\ 1 - 1 = 0
    BY <1>1, <1>9
  <2>2. ~ \E i \in 1..size : list[i] = TRUE
    BY <2>1
  <2>3. poller' = Stopped(poller) /\ signalled' = signalled
    BY <1>4, <1>6, <1>7, <2>1, <2>2, Zenon
  <2> QED
    BY <1>1, <1>7, <1>9, <2>3, CallsDiffer, Zenon
<1>10. CASE list = <<FALSE, FALSE>>
  <2>1. size = 2 /\ 1 \in 1..size /\ 2 \in 1..size /\ list[1] = FALSE /\ list[2] = FALSE
        /\ 1 - 1 = 0 /\ 2 - 1 = 1
    BY <1>1, <1>10
  <2>2. ~ \E i \in 1..size : list[i] = TRUE
    BY <2>1
  <2>3. poller' = Stopped(Stopped(poller)) /\ signalled' = signalled
    BY <1>4, <1>6, <1>7, <2>1, <2>2, Zenon
  <2> QED
    BY <1>1, <1>7, <1>10, <2>3, CallsDiffer, Zenon
<1>11. CASE list = <<TRUE>>
  <2>1. size = 1 /\ 1 \in 1..size /\ list[1] = TRUE /\ 1 - 1 = 0
    BY <1>1, <1>11
  <2>2. poller' = Started(poller) /\ signalled' = {}
    BY <1>4, <1>6, <1>7, <2>1, Zenon
  <2> QED
    BY <1>1, <1>7, <1>11, <2>2, CallsDiffer, Zenon
<1>12. CASE list = <<FALSE, TRUE>>
  <2>1. size = 2 /\ 1 \in 1..size /\ 2 \in 1..size /\ list[1] = FALSE /\ list[2] = TRUE
        /\ 1 - 1 = 0 /\ 2 - 1 = 1
    BY <1>1, <1>12
  <2>2. poller' = Started(Stopped(poller)) /\ signalled' = {}
    BY <1>4, <1>6, <1>7, <2>1, Zenon
  <2> QED
    BY <1>1, <1>7, <1>12, <2>2, CallsDiffer, Zenon
<1> QED
  BY <1>1, <1>8, <1>9, <1>10, <1>11, <1>12, Zenon DEF Calls

\* The poller runs only while somebody subscribes.
PollerFollows == poller.on => hub.active > 0

\* The handlers leave h, and have told the poller of it.
PollerTold(h) ==
    /\ SameBooks(h, hub') /\ hub'.calls = <<>> /\ hub'.pending = h.pending /\ hub'.debounce = h.debounce
    /\ [PollNext]_pollVars /\ table' = table
    /\ poller'.on => h.active > 0
    /\ poller.on = (hub.active > 0) => poller'.on = (h.active > 0)
    /\ h.calls # <<>> => ~poller'.known
    /\ h.calls = <<>> => poller' = poller /\ signalled' = signalled

\* The calls the handlers make are steps of the poller, and leave it running
\* exactly if somebody subscribes.
LEMMA CallsAreMade ==
    ASSUME NEW h, HubOK(h), Called(hub, h), Becomes(h), PollerInv, PollerFollows,
           hub.active \in Nat
    PROVE  PollerTold(h)
<1>1. h.calls \in Calls
  BY DEF Called, Calls
<1>2. /\ hub' = [h EXCEPT !.calls = <<>>] /\ table' = table /\ pollFaults' = pollFaults
      /\ h.calls = <<>> => poller' = poller /\ signalled' = signalled
      /\ h.calls = <<FALSE>> => poller' = Stopped(poller) /\ signalled' = signalled
      /\ h.calls = <<FALSE, FALSE>> => poller' = Stopped(Stopped(poller)) /\ signalled' = signalled
      /\ h.calls = <<TRUE>> => poller' = Started(poller) /\ signalled' = {}
      /\ h.calls = <<FALSE, TRUE>> => poller' = Started(Stopped(poller)) /\ signalled' = {}
  BY <1>1, BecomesIs
<1>3. SameBooks(h, hub') /\ hub'.calls = <<>> /\ hub'.pending = h.pending /\ hub'.debounce = h.debounce
  BY <1>2 DEF SameBooks, HubOK, HubTypes, OrderOK, Fields
<1>4. /\ poller \in [on : BOOLEAN, known : BOOLEAN, seen : SUBSET RowId,
                     poll : PollStage, current : BOOLEAN, ids : SUBSET RowId, due : BOOLEAN]
      /\ (~poller.on => ~poller.known)
      /\ h.active \in Nat
  BY HubNumbers DEF PollerInv, PollTypeOK
<1>5. CASE h.calls = <<>>
  <2>1. poller' = poller /\ signalled' = signalled /\ (h.active > 0 <=> hub.active > 0)
    BY <1>2, <1>5 DEF Called
  <2> QED
    BY <1>2, <1>3, <1>5, <2>1 DEF pollVars, PollerFollows, PollerTold
<1>6. CASE h.calls \in {<<FALSE>>, <<FALSE, FALSE>>}
  <2>1. Stopped(Stopped(poller)) = Stopped(poller) /\ Stopped(poller).on = FALSE /\ Stopped(poller).known = FALSE
    BY <1>4 DEF Stopped
  <2>2. poller' = Stopped(poller) /\ signalled' = signalled
    BY <1>2, <1>6, <2>1, Zenon
  <2>3. [PollNext]_pollVars
    <3>1. CASE poller.on
      BY <1>2, <2>2, <3>1 DEF PollNext, Stop
    <3>2. CASE ~poller.on
      BY <1>2, <2>2, <3>2 DEF Stopped, pollVars
    <3> QED
      BY <3>1, <3>2
  <2>4. h.active = 0 /\ h.calls # <<>> /\ ~(h.active > 0)
    <3>1. h.active = 0 /\ h.calls # <<>>
      BY <1>6, CallsDiffer, Zenon DEF Called
    <3> QED
      BY <3>1
  <2> QED
    <3>1. poller'.on = (h.active > 0)
      <4>1. poller'.on = FALSE
        BY <2>1, <2>2
      <4>2. (h.active > 0) = FALSE
        BY <1>4, <2>4
      <4> QED
        BY <4>1, <4>2, Zenon
    <3>2. ~poller'.on /\ ~poller'.known
      BY <2>1, <2>2
    <3> QED
      BY <1>2, <1>3, <2>3, <2>4, <3>1, <3>2, Zenon DEF PollerTold
<1>7. CASE h.calls = <<TRUE>>
  <2>1. hub.active = 0 /\ h.active > 0
    BY <1>7 DEF Called
  <2>2. ~poller.on
    BY <2>1 DEF PollerFollows
  <2>3. poller'.on = TRUE /\ poller'.known = FALSE
    BY <1>2, <1>4, <1>7, <2>2 DEF Started, RunPoll
  <2>4. PollNext
    BY <1>2, <1>7, <2>2 DEF PollNext, Start
  <2> QED
    BY <1>2, <1>3, <1>7, <2>1, <2>3, <2>4 DEF PollerTold
<1>8. CASE h.calls = <<FALSE, TRUE>>
  <2>1. h.active > 0
    BY <1>8 DEF Called
  <2>2. CASE poller.on
    <3>1. poller'.on = TRUE /\ poller'.known = FALSE
      BY <1>2, <1>4, <1>8, <2>2 DEF Started, Stopped, RunPoll
    <3>2. PollNext
      BY <1>2, <1>8, <2>2 DEF PollNext, Restart
    <3> QED
      BY <1>2, <1>3, <1>8, <2>1, <3>1, <3>2 DEF PollerTold
  <2>3. CASE ~poller.on
    <3>1. poller' = Started(poller)
      BY <1>2, <1>8, <2>3 DEF Stopped
    <3>2. poller'.on = TRUE /\ poller'.known = FALSE
      BY <1>4, <2>3, <3>1 DEF Started, RunPoll
    <3>3. PollNext
      BY <1>2, <1>8, <2>3, <3>1 DEF PollNext, Start
    <3> QED
      BY <1>2, <1>3, <1>8, <2>1, <3>2, <3>3 DEF PollerTold
  <2> QED
    BY <2>2, <2>3
<1> QED
  BY <1>1, <1>5, <1>6, <1>7, <1>8 DEF Calls
-----------------------------------------------------------------------------
(* The poller.                                                             *)

LEMMA PollTypeStep ==
    ASSUME PollTypeOK, [PollNext]_pollVars
    PROVE  PollTypeOK'
<1> USE PollerAssumption DEF PollTypeOK, PollStage, RowId
<1>1. CASE Insert
  <2> DEFINE n == table.allocated + 1
  <2>1. n \in 1..MaxRows /\ n \notin 1..table.allocated
    BY <1>1 DEF Insert
  <2>2. /\ table'.allocated = n
        /\ table'.open = table.open \cup {n}
        /\ table'.rows = table.rows
    BY <1>1 DEF Insert
  <2>3. table' \in [allocated : 0..MaxRows, open : SUBSET RowId, rows : SUBSET RowId]
    <3>1. n \in 0..MaxRows /\ table.open \cup {n} \in SUBSET RowId
      BY <2>1
    <3>2. table' = [table EXCEPT !.allocated = n, !.open = table.open \cup {n}]
      BY <1>1 DEF Insert
    <3> HIDE DEF n
    <3> QED
      BY <3>1, <3>2
  <2>4. table'.open \cap table'.rows = {}
    BY <2>1, <2>2
  <2>5. table'.open \cup table'.rows \subseteq 1..table'.allocated
    BY <2>1, <2>2
  <2> QED
    BY <1>1, <2>3, <2>4, <2>5 DEF Insert
<1>2. ASSUME NEW i \in RowId, Commit(i) \/ RollBack(i) PROVE PollTypeOK'
  <2>1. CASE Commit(i)
    <3>1. /\ table' \in [allocated : 0..MaxRows, open : SUBSET RowId, rows : SUBSET RowId]
          /\ table'.open = table.open \ {i}
          /\ table'.rows = table.rows \cup {i}
          /\ table'.allocated = table.allocated
          /\ i \in table.open
      BY <2>1 DEF Commit
    <3> QED
      BY <2>1, <3>1 DEF Commit
  <2>2. CASE RollBack(i)
    BY <2>2 DEF RollBack
  <2> QED
    BY <1>2, <2>1, <2>2
<1>3. CASE Start
  BY <1>3 DEF Start, Started, RunPoll
<1>4. CASE Stop
  BY <1>4 DEF Stop, Stopped
<1>5. CASE Restart
  BY <1>5 DEF Restart, Started, Stopped, RunPoll
<1>6. CASE Interval
  BY <1>6 DEF Interval, RunPoll
<1>7. CASE Read
  BY <1>7 DEF Read
<1>8. CASE Outdated
  BY <1>8 DEF Outdated
<1>9. ASSUME NEW stage \in {"none", "pruning"}, Compare(stage) PROVE PollTypeOK'
  <2>1. Newest(poller.ids) \subseteq poller.ids
    BY DEF Newest
  <2>2. /\ table' = table /\ pollFaults' = pollFaults
        /\ signalled' \in SUBSET RowId
    BY <1>9 DEF Compare
  <2>3. poller' = [poller EXCEPT !.poll = stage, !.known = TRUE, !.seen = Newest(poller.ids),
                                 !.ids = {}, !.due = @ /\ ~Raises(poller, poller.ids)]
    BY <1>9 DEF Compare, Compared
  <2>4. (poller.due /\ ~Raises(poller, poller.ids)) \in BOOLEAN
    OBVIOUS
  <2> QED
    BY <2>1, <2>2, <2>3, <2>4
<1>10. CASE Prune
  BY <1>10 DEF Prune
<1>11. CASE PollFails
  BY <1>11 DEF PollFails
<1>12. CASE RefreshDue
  BY <1>12 DEF RefreshDue
<1>13. CASE UNCHANGED pollVars
  BY <1>13 DEF pollVars
<1> QED
  BY <1>1, <1>2, <1>3, <1>4, <1>5, <1>6, <1>7, <1>8, <1>9, <1>10, <1>11, <1>12, <1>13
  DEF PollNext

\* The state of the poller and the table have their types in every reachable
\* state (liveQueryInvalidationPoller.ts).
THEOREM PollTypeCorrect == PollSpec => []PollTypeOK
<1>1. PollInit => PollTypeOK
  BY PollerAssumption DEF PollInit, PollTypeOK, PollStage
<1>2. PollTypeOK /\ [PollNext]_pollVars => PollTypeOK'
  BY PollTypeStep
<1> QED
  BY <1>1, <1>2, PTL DEF PollSpec

\* A poller that is off has nothing in seenIds, and no poll of its own.
OffIsEmpty == ~poller.on => poller.seen = {} /\ ~poller.current

\* What the poller takes for seen, its present listener was told of: rows are
\* never written off between two generations or by a poll that raises nothing.
THEOREM SeenWasSignalled == PollSpec => []SeenIsSignalled
<1> DEFINE Inv == OffIsEmpty /\ SeenIsSignalled
<1>1. PollInit => Inv
  BY DEF PollInit, OffIsEmpty, SeenIsSignalled
<1>2. PollTypeOK /\ Inv /\ [PollNext]_pollVars => Inv'
  <2> SUFFICES ASSUME PollTypeOK, Inv, [PollNext]_pollVars PROVE Inv'
    OBVIOUS
  <2> USE DEF OffIsEmpty, SeenIsSignalled, PollTypeOK
  <2>1. CASE Insert
    BY <2>1 DEF Insert
  <2>2. ASSUME NEW i \in RowId, Commit(i) \/ RollBack(i) PROVE Inv'
    BY <2>2 DEF Commit, RollBack
  <2>3. CASE Start
    BY <2>3 DEF Start, Started, RunPoll
  <2>4. CASE Stop
    BY <2>4 DEF Stop, Stopped
  <2>5. CASE Restart
    BY <2>5 DEF Restart, Started, Stopped, RunPoll
  <2>6. CASE Interval
    BY <2>6 DEF Interval, RunPoll
  <2>7. CASE Read
    BY <2>7 DEF Read
  <2>8. CASE Outdated
    BY <2>8 DEF Outdated
  <2>9. ASSUME NEW stage \in {"none", "pruning"}, Compare(stage) PROVE Inv'
    <3>1. poller'.known = TRUE /\ poller'.seen = Newest(poller.ids) /\ poller'.on = poller.on
      BY <2>9 DEF Compare, Compared
    <3>2. Newest(poller.ids) \subseteq poller.ids
      BY DEF Newest
    <3>3. CASE Raises(poller, poller.ids)
      <4>1. signalled' = signalled \cup poller.ids
        BY <2>9, <3>3 DEF Compare
      <4> QED
        BY <2>9, <3>1, <3>2, <4>1 DEF Compare, Compared
    <3>4. CASE ~Raises(poller, poller.ids)
      <4>1. signalled' = signalled
        BY <2>9, <3>4 DEF Compare
      <4>2. Newest(poller.ids) \subseteq poller.seen
        BY <3>4 DEF Raises
      <4> QED
        BY <2>9, <3>1, <4>1, <4>2 DEF Compare, Compared
    <3> QED
      BY <3>3, <3>4
  <2>10. CASE Prune
    BY <2>10 DEF Prune
  <2>11. CASE PollFails
    BY <2>11 DEF PollFails
  <2>12. CASE RefreshDue
    BY <2>12 DEF RefreshDue
  <2>13. CASE UNCHANGED pollVars
    BY <2>13 DEF pollVars
  <2> QED
    BY <2>1, <2>2, <2>3, <2>4, <2>5, <2>6, <2>7, <2>8, <2>9, <2>10, <2>11, <2>12, <2>13
    DEF PollNext
<1> QED
  BY <1>1, <1>2, PollTypeCorrect, PTL DEF PollSpec

\* What the poller knows, seen from the live queries.
LEMMA PollerStep ==
    ASSUME PollerInv, [PollNext]_pollVars
    PROVE  PollerInv'
<1>1. PollTypeOK'
  BY PollTypeStep DEF PollerInv
<1> USE DEF PollerInv, PollTypeOK
<1>2. CASE Insert
  <2>1. /\ table'.allocated = table.allocated + 1 /\ table.allocated \in Nat
        /\ table'.open = table.open \cup {table.allocated + 1}
        /\ poller' = poller /\ signalled' = signalled
    BY <1>2 DEF Insert
  <2> QED
    BY <1>1, <2>1
<1>3. ASSUME NEW i \in RowId, Commit(i) \/ RollBack(i) PROVE PollerInv'
  BY <1>1, <1>3 DEF Commit, RollBack
<1>4. CASE Start
  BY <1>1, <1>4 DEF Start, Started, RunPoll
<1>5. CASE Stop
  BY <1>1, <1>5 DEF Stop, Stopped
<1>6. CASE Restart
  BY <1>1, <1>6 DEF Restart, Started, Stopped, RunPoll
<1>7. CASE Interval
  BY <1>1, <1>7 DEF Interval, RunPoll
<1>8. CASE Read
  BY <1>1, <1>8 DEF Read
<1>9. CASE Outdated
  BY <1>1, <1>9 DEF Outdated
<1>10. ASSUME NEW stage \in {"none", "pruning"}, Compare(stage) PROVE PollerInv'
  <2>1. /\ poller'.on = poller.on /\ poller'.ids = {} /\ table' = table
        /\ signalled' \subseteq signalled \cup poller.ids /\ poller.on
    BY <1>10 DEF Compare, Compared
  <2> QED
    BY <1>1, <2>1
<1>11. CASE Prune
  BY <1>1, <1>11 DEF Prune
<1>12. CASE PollFails
  BY <1>1, <1>12 DEF PollFails
<1>13. CASE RefreshDue
  BY <1>1, <1>13 DEF RefreshDue
<1>14. CASE UNCHANGED pollVars
  BY <1>1, <1>14 DEF pollVars
<1> QED
  BY <1>2, <1>3, <1>4, <1>5, <1>6, <1>7, <1>8, <1>9, <1>10, <1>11, <1>12, <1>13, <1>14 DEF PollNext

\* What the handlers leave keeps the invariant.
LEMMA HubStep ==
    ASSUME LiveInv, NEW h, HubOK(h), MarksOK(h), Pumped(h), ShownOK(h), PollerTold(h),
           h.disposed = hub.disposed, phase' = phase, phase \in {"disposed", "released"} => h.running = 0
    PROVE  HubInv' /\ PollerInv' /\ PhaseInv'
<1>1. /\ SameBooks(h, hub') /\ hub'.calls = <<>> /\ [PollNext]_pollVars
      /\ (poller'.on => h.active > 0) /\ (poller.on = (hub.active > 0) => poller'.on = (h.active > 0))
  BY DEF PollerTold
<1>2. HubOK(hub') /\ MarksOK(hub') /\ Pumped(hub') /\ ShownOK(hub')
  BY <1>1, SameBooksKeep
<1>3. HubInv'
  BY <1>1, <1>2 DEF HubInv
<1>4. PollerInv'
  BY <1>1, PollerStep DEF LiveInv
<1>5. hub'.active = h.active /\ hub'.running = h.running /\ hub'.disposed = h.disposed
  BY <1>1 DEF SameBooks
<1>6. PhaseInv'
  BY <1>1, <1>5 DEF LiveInv, PhaseInv
<1> QED
  BY <1>3, <1>4, <1>6

\* Who has the present answer, or waits for it, still does.
KeepsRest(h, r) ==
    /\ AllAttached(h) => AllAttached(r)
    /\ \A k \in DOMAIN r.shared :
          (k \in DOMAIN h.shared => Fresh(h, k, answer[k])) => Fresh(r, k, answer[k])

\* Nobody that has the answer, or waits for it, is left without.
LEMMA RestStep ==
    ASSUME LiveInv, NEW h, HubOK(h), PollerTold(h), Called(hub, h), answer' = answer,
           h.disposed = hub.disposed, ~hub.disposed => KeepsRest(hub, h)
    PROVE  RestInv'
<1>1. /\ SameBooks(h, hub') /\ hub'.debounce = h.debounce /\ table' = table
      /\ (h.calls # <<>> => ~poller'.known) /\ (h.calls = <<>> => poller' = poller /\ signalled' = signalled)
  BY DEF PollerTold
<1>2. /\ HubOK(hub') /\ hub'.ops = h.ops /\ hub'.shared = h.shared /\ hub'.disposed = h.disposed
      /\ \A k, v : Fresh(h, k, v) => Fresh(hub', k, v)
  BY <1>1, SameBooksKeep DEF SameBooks
<1> SUFFICES ASSUME ~hub'.disposed PROVE RestInv'
  BY DEF RestInv
<1>3. ~hub.disposed /\ KeepsRest(hub, h)
  BY <1>2
<1>4. /\ \A s \in DOMAIN hub.ops : hub.ops[s].attached
      /\ Outstanding \/ \A k \in DOMAIN hub.shared : Fresh(hub, k, answer[k])
  BY <1>3 DEF LiveInv, RestInv
<1>5. \A s \in DOMAIN hub'.ops : hub'.ops[s].attached
  BY <1>2, <1>3, <1>4 DEF KeepsRest, AllAttached
<1>6. CASE h.active = 0
  <2>1. DOMAIN h.ops = {}
    <3>1. IsFiniteSet(DOMAIN h.ops) /\ Cardinality(DOMAIN h.ops) = 0
      BY <1>6 DEF HubOK, HubTypes, Counted
    <3> QED
      BY <3>1, FS_EmptySet
  <2>2. DOMAIN h.shared = {}
    BY <2>1 DEF HubOK, Linked, Subscribers
  <2> QED
    BY <1>2, <1>5, <2>2 DEF RestInv
<1>7. CASE h.active # 0 /\ Outstanding
  <2>1. Outstanding'
    <3>1. CASE h.calls = <<>>
      <4>1. h.debounce = hub.debounce
        BY <1>7, <3>1, CallsDiffer, Zenon DEF Called
      <4> QED
        BY <1>1, <1>7, <3>1, <4>1 DEF Outstanding
    <3>2. CASE h.calls # <<>>
      BY <1>1, <3>2 DEF Outstanding
    <3> QED
      BY <3>1, <3>2
  <2> QED
    BY <1>5, <2>1 DEF RestInv
<1>8. CASE ~Outstanding
  <2>1. \A k \in DOMAIN h.shared : Fresh(h, k, answer[k])
    BY <1>3, <1>4, <1>8 DEF KeepsRest
  <2>2. \A k \in DOMAIN hub'.shared : Fresh(hub', k, answer'[k])
    BY <1>2, <2>1
  <2> QED
    BY <1>5, <2>2 DEF RestInv
<1> QED
  BY <1>6, <1>7, <1>8

-----------------------------------------------------------------------------
(* One lemma per action.                                                   *)

LEMMA LiveFacts ==
    ASSUME LiveInv
    PROVE  /\ HubOK(hub) /\ MarksOK(hub) /\ Pumped(hub) /\ ShownOK(hub) /\ hub.calls = <<>>
           /\ HubTypes(hub) /\ DOMAIN hub = Fields /\ hub.active \in Nat /\ hub.running \in Nat
           /\ hub.debounce \in BOOLEAN /\ PollerInv /\ PollerFollows
           /\ \A k \in DOMAIN hub.shared : hub.shared[k] \in SharedOperation /\ OpOK(hub.shared[k])
           /\ \A k \in DOMAIN hub.shared : hub.shared[k].stage # "idle" =>
                 hub.running > 0 /\ phase \notin {"disposed", "released"}
<1>1. /\ HubOK(hub) /\ MarksOK(hub) /\ Pumped(hub) /\ ShownOK(hub) /\ hub.calls = <<>>
      /\ HubTypes(hub) /\ DOMAIN hub = Fields /\ hub.debounce \in BOOLEAN /\ PollerInv /\ PollerFollows
      /\ \A k \in DOMAIN hub.shared : hub.shared[k] \in SharedOperation /\ OpOK(hub.shared[k])
  BY DEF LiveInv, HubInv, HubOK, HubTypes, PhaseInv, PollerFollows, OrderOK
<1>2. hub.active \in Nat /\ hub.running \in Nat /\ hub.orphans \in Nat /\ IsFiniteSet(Busy(hub))
      /\ Cardinality(Busy(hub)) \in Nat /\ hub.running = hub.orphans + Cardinality(Busy(hub))
  BY <1>1, HubNumbers DEF HubOK, Counted
<1>3. ASSUME NEW k \in DOMAIN hub.shared, hub.shared[k].stage # "idle"
      PROVE  hub.running > 0 /\ phase \notin {"disposed", "released"}
  <2>1. k \in Busy(hub)
    BY <1>3 DEF Busy
  <2>2. Cardinality(Busy(hub)) # 0
    BY <1>2, <2>1, FS_EmptySet
  <2>3. hub.running > 0
    BY <1>2, <2>2
  <2> QED
    BY <2>3 DEF LiveInv, PhaseInv
<1> QED
  BY <1>1, <1>2, <1>3

\* The poller is not told of what leaves the subscriptions as they are.
LEMMA QuietIs ==
    ASSUME LiveInv, HubOK(hub'), hub'.calls = <<>>, UNCHANGED pollVars, hub'.active = hub.active
    PROVE  PollerTold(hub') /\ (hub'.debounce = hub.debounce => Called(hub, hub'))
<1>1. SameBooks(hub', hub')
  BY DEF HubOK, HubTypes, SameBooks, OrderOK
<1>2. PollerFollows
  BY LiveFacts
<1>3. poller' = poller /\ table' = table /\ signalled' = signalled
  BY DEF pollVars
<1> QED
  BY <1>1, <1>2, <1>3 DEF PollerTold, Called, PollerFollows

\* The connection c becomes new, which reserves an operation or none.
LEMMA ConnStep ==
    ASSUME ConnInv, NEW c \in Conn, NEW new \in Connection, conn' = [conn EXCEPT ![c] = new],
           new.validating => new.chain # <<>> /\ Head(new.chain).type = "subscribe",
           hub'.pending = hub.pending + (IF new.validating /\ ~new.replaces THEN 1 ELSE 0)
                                      - (IF conn[c].validating /\ ~conn[c].replaces THEN 1 ELSE 0)
    PROVE  ConnInv'
<1>1. /\ conn \in [Conn -> Connection] /\ IsFiniteSet(Validating) /\ hub.pending = Cardinality(Validating)
      /\ \A d \in Conn : conn[d].validating => conn[d].chain # <<>> /\ Head(conn[d].chain).type = "subscribe"
      /\ Cardinality(Validating) \in Nat
  BY FS_CardinalityType DEF ConnInv
<1>2. conn' \in [Conn -> Connection] /\ conn'[c] = new /\ \A d \in Conn \ {c} : conn'[d] = conn[d]
  BY <1>1
<1>3. \A d \in Conn : conn'[d].validating => conn'[d].chain # <<>> /\ Head(conn'[d].chain).type = "subscribe"
  BY <1>1, <1>2
<1>4. PICK old, now : old = Validating /\ now = Validating'
  OBVIOUS
<1>5. /\ c \in old <=> conn[c].validating /\ ~conn[c].replaces
      /\ c \in now <=> new.validating /\ ~new.replaces
      /\ now \ {c} = old \ {c}
  BY <1>2, <1>4 DEF Validating
<1>6. /\ IsFiniteSet(old) /\ Cardinality(old) = hub.pending /\ hub.pending \in Nat
      /\ hub'.pending = hub.pending + (IF c \in now THEN 1 ELSE 0) - (IF c \in old THEN 1 ELSE 0)
  BY <1>1, <1>4, <1>5
<1>7. IsFiniteSet(now) /\ Cardinality(now) = hub'.pending
  <2>1. CASE c \in now /\ c \in old
    <3>1. now = (now \ {c}) \cup {c} /\ old = (old \ {c}) \cup {c}
      BY <2>1
    <3>2. now = old
      BY <1>5, <3>1, Zenon
    <3>3. hub'.pending = hub.pending
      BY <1>6, <2>1
    <3> QED
      BY <1>6, <3>2, <3>3, Zenon
  <2>2. CASE c \notin now /\ c \notin old
    <3>1. now = now \ {c} /\ old = old \ {c}
      BY <2>2
    <3>2. now = old
      BY <1>5, <3>1, Zenon
    <3>3. hub'.pending = hub.pending
      BY <1>6, <2>2
    <3> QED
      BY <1>6, <3>2, <3>3, Zenon
  <2>3. CASE c \in now /\ c \notin old
    <3>1. now = old \cup {c}
      BY <1>5, <2>3
    <3>2. IsFiniteSet(old \cup {c}) /\ Cardinality(old \cup {c}) = Cardinality(old) + 1
      BY <1>6, <2>3, FS_AddElement
    <3> QED
      BY <1>6, <2>3, <3>1, <3>2
  <2>4. CASE c \notin now /\ c \in old
    <3>1. now = old \ {c}
      BY <1>5, <2>4
    <3>2. IsFiniteSet(old \ {c}) /\ Cardinality(old \ {c}) = Cardinality(old) - 1
      BY <1>6, <2>4, FS_RemoveElement
    <3> QED
      BY <1>6, <2>4, <3>1, <3>2
  <2> QED
    BY <2>1, <2>2, <2>3, <2>4
<1> QED
  BY <1>2, <1>3, <1>4, <1>7 DEF ConnInv

\* The connections and what they reserve are as they were.
LEMMA ConnSame ==
    ASSUME ConnInv, conn' = conn, hub'.pending = hub.pending
    PROVE  ConnInv'
  BY DEF ConnInv, Validating

\* What a connection may be.
LEMMA ConnFields ==
    ASSUME LiveInv, NEW c \in Conn
    PROVE  /\ conn[c] \in Connection /\ conn[c].chain \in Seq(Message) /\ conn[c].validating \in BOOLEAN
           /\ conn[c].validating => conn[c].chain # <<>> /\ Head(conn[c].chain).type = "subscribe"
  BY DEF LiveInv, ConnInv, Connection

\* Steps that leave the handlers' state as it is.
LEMMA HubUntouched ==
    ASSUME LiveInv, hub' = hub, UNCHANGED pollVars, phase' = phase, answer' = answer
    PROVE  HubInv' /\ PollerInv' /\ PhaseInv' /\ RestInv'
<1>1. HubInv' /\ PhaseInv' /\ PollerInv'
  BY DEF LiveInv, HubInv, PhaseInv, PollerInv, PollTypeOK, pollVars
<1>2. RestInv'
  BY DEF LiveInv, RestInv, Outstanding, pollVars
<1> QED
  BY <1>1, <1>2

LEMMA HandledIs ==
    ASSUME LiveInv, NEW c \in Conn, conn[c].chain # <<>>, conn' = Handled(c),
           hub'.pending = hub.pending - (IF conn[c].validating /\ ~conn[c].replaces THEN 1 ELSE 0)
    PROVE  ConnInv'
<1>1. PICK new : new = [conn[c] EXCEPT !.chain = Tail(conn[c].chain), !.validating = FALSE, !.replaces = FALSE]
  OBVIOUS
<1>2. conn[c] \in Connection /\ conn[c].chain \in Seq(Message) /\ ConnInv
  BY ConnFields DEF LiveInv
<1>3. Tail(conn[c].chain) \in Seq(Message)
  BY <1>2
<1>4. new \in Connection /\ new.validating = FALSE
  BY <1>1, <1>2, <1>3 DEF Connection
<1>5. conn' = [conn EXCEPT ![c] = new]
  BY <1>1 DEF Handled
<1>6. hub.pending \in Nat
  BY LiveFacts DEF HubTypes
<1>7. hub'.pending = hub.pending + (IF new.validating /\ ~new.replaces THEN 1 ELSE 0)
                                 - (IF conn[c].validating /\ ~conn[c].replaces THEN 1 ELSE 0)
  BY <1>4, <1>6
<1> QED
  BY <1>2, <1>4, <1>5, <1>7, ConnStep

LEMMA ReservedCounts ==
    ASSUME LiveInv, NEW c \in Conn, conn[c].validating
    PROVE  hub.pending - (IF conn[c].replaces THEN 0 ELSE 1) \in Nat /\ hub.pending \in Nat
<1>1. IsFiniteSet(Validating) /\ hub.pending = Cardinality(Validating) /\ hub.pending \in Nat
  BY FS_CardinalityType DEF LiveInv, ConnInv
<1>2. CASE ~conn[c].replaces
  <2>1. c \in Validating
    BY <1>2 DEF Validating
  <2>2. hub.pending # 0
    BY <1>1, <2>1, FS_EmptySet
  <2> QED
    BY <1>1, <1>2, <2>2
<1> QED
  BY <1>1, <1>2

\* Steps that only change what is reserved.
LEMMA ReservedIs ==
    ASSUME LiveInv, SameBooks(hub, hub'), hub'.calls = <<>>, hub'.debounce = hub.debounce,
           UNCHANGED pollVars, phase' = phase, answer' = answer
    PROVE  HubInv' /\ PollerInv' /\ PhaseInv' /\ RestInv'
<1>1. /\ HubOK(hub') /\ MarksOK(hub') /\ Pumped(hub') /\ ShownOK(hub')
      /\ \A k, v : Fresh(hub, k, v) => Fresh(hub', k, v)
  BY LiveFacts, SameBooksKeep
<1>2. /\ hub'.active = hub.active /\ hub'.disposed = hub.disposed /\ hub'.running = hub.running
      /\ hub'.ops = hub.ops /\ hub'.shared = hub.shared
  BY DEF SameBooks
<1>3. PollerTold(hub') /\ Called(hub, hub')
  BY <1>1, <1>2, QuietIs
<1>4. KeepsRest(hub, hub')
  BY <1>1, <1>2 DEF KeepsRest, AllAttached
<1>5. phase \in {"disposed", "released"} => hub'.running = 0
  BY <1>2 DEF LiveInv, PhaseInv
<1>6. HubInv' /\ PollerInv' /\ PhaseInv'
  BY <1>1, <1>2, <1>3, <1>5, HubStep
<1>7. RestInv'
  BY <1>1, <1>2, <1>3, <1>4, RestStep
<1> QED
  BY <1>6, <1>7

LEMMA SendStep ==
    ASSUME LiveInv, NEW c \in Conn, NEW m \in Message, Send(c, m)
    PROVE  LiveInv' /\ [PollNext]_pollVars
<1>1. /\ hub' = hub /\ UNCHANGED pollVars /\ phase' = phase /\ answer' = answer /\ execFaults' = execFaults
      /\ messages < MaxMessages /\ messages' = messages + 1
  BY DEF Send
<1>2. /\ conn[c] \in Connection /\ conn[c].chain \in Seq(Message) /\ ConnInv
      /\ conn[c].validating => conn[c].chain # <<>> /\ Head(conn[c].chain).type = "subscribe"
  BY ConnFields DEF LiveInv
<1>3. hub'.pending = hub.pending /\ hub.pending \in Nat
  BY <1>1, LiveFacts DEF HubTypes
<1>4. ConnInv'
  <2>1. CASE conn' = [conn EXCEPT ![c].kicked = TRUE]
    <3>1. PICK new : new = [conn[c] EXCEPT !.kicked = TRUE]
      OBVIOUS
    <3>2. /\ new \in Connection /\ new.validating = conn[c].validating /\ new.replaces = conn[c].replaces
          /\ new.chain = conn[c].chain
      BY <1>2, <3>1 DEF Connection
    <3>3. conn' = [conn EXCEPT ![c] = new]
      BY <2>1, <3>1
    <3>4. hub'.pending = hub.pending + (IF new.validating /\ ~new.replaces THEN 1 ELSE 0)
                                     - (IF conn[c].validating /\ ~conn[c].replaces THEN 1 ELSE 0)
      BY <1>3, <3>2
    <3> QED
      BY <1>2, <3>2, <3>3, <3>4, ConnStep
  <2>2. CASE conn' = [conn EXCEPT ![c].chain = Append(@, m)]
    <3>1. PICK new : new = [conn[c] EXCEPT !.chain = Append(conn[c].chain, m)]
      OBVIOUS
    <3>2. /\ Append(conn[c].chain, m) \in Seq(Message) /\ Append(conn[c].chain, m) # <<>>
          /\ conn[c].chain # <<>> => Head(Append(conn[c].chain, m)) = Head(conn[c].chain)
      <4>1. PICK old, more : old = conn[c].chain /\ more = Append(old, m)
        OBVIOUS
      <4>2. old \in Seq(Message) /\ Len(old) \in Nat
        BY <1>2, <4>1
      <4>3. more \in Seq(Message) /\ Len(more) = Len(old) + 1 /\ \A i \in 1..Len(old) : more[i] = old[i]
        BY <4>1, <4>2, AppendProperties
      <4>4. more # <<>>
        BY <4>2, <4>3
      <4>5. ASSUME old # <<>> PROVE Head(more) = Head(old)
        <5>1. 1 \in 1..Len(old) /\ Head(old) = old[1] /\ Head(more) = more[1]
          BY <4>2, <4>3, <4>4, <4>5
        <5> QED
          BY <4>3, <5>1
      <4> QED
        BY <4>1, <4>3, <4>4, <4>5
    <3>3. /\ new \in Connection /\ new.validating = conn[c].validating /\ new.replaces = conn[c].replaces
          /\ new.chain = Append(conn[c].chain, m)
      BY <1>2, <3>1, <3>2 DEF Connection
    <3>4. conn' = [conn EXCEPT ![c] = new]
      BY <2>2, <3>1
    <3>5. hub'.pending = hub.pending + (IF new.validating /\ ~new.replaces THEN 1 ELSE 0)
                                     - (IF conn[c].validating /\ ~conn[c].replaces THEN 1 ELSE 0)
      BY <1>3, <3>3
    <3>6. new.validating => new.chain # <<>> /\ Head(new.chain).type = "subscribe"
      BY <1>2, <3>2, <3>3
    <3> QED
      BY <1>2, <3>3, <3>4, <3>5, <3>6, ConnStep
  <2> QED
    BY <2>1, <2>2 DEF Send
<1>5. HubInv' /\ PollerInv' /\ PhaseInv' /\ RestInv'
  BY <1>1, HubUntouched
<1>6. messages' \in 0..MaxMessages
  BY <1>1, LiveQueryAssumption DEF LiveInv
<1> QED
  BY <1>1, <1>4, <1>5, <1>6 DEF LiveInv

LEMMA RefuseStep ==
    ASSUME LiveInv, NEW c \in Conn, Refuse(c)
    PROVE  LiveInv' /\ [PollNext]_pollVars
<1>1. /\ hub' = hub /\ UNCHANGED pollVars /\ phase' = phase /\ answer' = answer
      /\ execFaults' = execFaults /\ messages' = messages
      /\ conn' = Handled(c) /\ conn[c].chain # <<>> /\ ~conn[c].validating
  BY DEF Refuse, Handling
<1>2. ConnInv'
  <2>1. hub.pending \in Nat
    BY LiveFacts DEF HubTypes
  <2>2. hub'.pending = hub.pending - (IF conn[c].validating /\ ~conn[c].replaces THEN 1 ELSE 0)
    BY <1>1, <2>1
  <2> QED
    BY <1>1, <2>2, HandledIs
<1>3. HubInv' /\ PollerInv' /\ PhaseInv' /\ RestInv'
  BY <1>1, HubUntouched
<1> QED
  BY <1>1, <1>2, <1>3 DEF LiveInv

LEMMA SubscribeStep ==
    ASSUME LiveInv, NEW c \in Conn, Subscribe(c)
    PROVE  LiveInv' /\ [PollNext]_pollVars
<1>1. PICK replaces, more : replaces = (Target(c) \in DOMAIN hub.ops) /\ more = (IF replaces THEN 0 ELSE 1)
  OBVIOUS
<1>2. /\ UNCHANGED pollVars /\ phase' = phase /\ answer' = answer
      /\ execFaults' = execFaults /\ messages' = messages
      /\ conn[c].chain # <<>> /\ ~conn[c].validating /\ Head(conn[c].chain).type = "subscribe"
      /\ conn' = [conn EXCEPT ![c].validating = TRUE, ![c].replaces = replaces]
      /\ hub' = [hub EXCEPT !.pending = hub.pending + more]
  BY <1>1 DEF Subscribe, Handling, Current
<1>3. /\ conn[c] \in Connection /\ conn[c].chain \in Seq(Message) /\ ConnInv
      /\ hub.pending \in Nat /\ more \in Nat /\ replaces \in BOOLEAN
  BY <1>1, ConnFields, LiveFacts DEF LiveInv, HubTypes
<1>4. SameBooks(hub, hub') /\ hub'.calls = <<>> /\ hub'.debounce = hub.debounce /\ hub'.pending = hub.pending + more
  BY <1>2, <1>3, LiveFacts DEF SameBooks, HubOK, HubTypes, OrderOK, Fields
<1>5. HubInv' /\ PollerInv' /\ PhaseInv' /\ RestInv'
  BY <1>2, <1>4, ReservedIs
<1>6. ConnInv'
  <2>1. PICK new : new = [conn[c] EXCEPT !.validating = TRUE, !.replaces = replaces]
    OBVIOUS
  <2>2. new \in Connection /\ new.validating = TRUE /\ new.replaces = replaces /\ new.chain = conn[c].chain
    BY <1>3, <2>1 DEF Connection
  <2>3. conn' = [conn EXCEPT ![c] = new]
    BY <1>2, <2>1
  <2>4. hub'.pending = hub.pending + (IF new.validating /\ ~new.replaces THEN 1 ELSE 0)
                                   - (IF conn[c].validating /\ ~conn[c].replaces THEN 1 ELSE 0)
    BY <1>1, <1>2, <1>3, <1>4, <2>2
  <2> QED
    BY <1>2, <1>3, <2>2, <2>3, <2>4, ConnStep
<1> QED
  BY <1>2, <1>5, <1>6 DEF LiveInv

LEMMA AbandonStep ==
    ASSUME LiveInv, NEW c \in Conn, Abandon(c)
    PROVE  LiveInv' /\ [PollNext]_pollVars
<1>1. PICK less : less = IF conn[c].replaces THEN 0 ELSE 1
  OBVIOUS
<1>2. /\ UNCHANGED pollVars /\ phase' = phase /\ answer' = answer
      /\ execFaults' = execFaults /\ messages' = messages
      /\ conn[c].validating /\ conn' = Handled(c)
      /\ hub' = [hub EXCEPT !.pending = hub.pending - less]
  BY <1>1 DEF Abandon, Unreserved
<1>3. conn[c].chain # <<>> /\ hub.pending - less \in Nat /\ hub.pending \in Nat
  BY <1>1, <1>2, ConnFields, ReservedCounts
<1>4. SameBooks(hub, hub') /\ hub'.calls = <<>> /\ hub'.debounce = hub.debounce /\ hub'.pending = hub.pending - less
  BY <1>2, <1>3, LiveFacts DEF SameBooks, HubOK, HubTypes, OrderOK, Fields
<1>5. HubInv' /\ PollerInv' /\ PhaseInv' /\ RestInv'
  BY <1>2, <1>4, ReservedIs
<1>6. ConnInv'
  <2>1. hub'.pending = hub.pending - (IF conn[c].validating /\ ~conn[c].replaces THEN 1 ELSE 0)
    BY <1>1, <1>2, <1>4
  <2> QED
    BY <1>2, <1>3, <2>1, HandledIs
<1> QED
  BY <1>2, <1>5, <1>6 DEF LiveInv

\* Steps whose handlers leave h, but for what it reserves, as one of the lemmas
\* above says.
LEMMA BecomesStep ==
    ASSUME LiveInv, NEW g, NEW h, KeepsBooks(hub, g), ~hub.disposed => KeepsFresh(hub, g),
           SameBooks(g, h), h.calls = g.calls, h.debounce = g.debounce, Becomes(h),
           phase' = phase, answer' = answer
    PROVE  HubInv' /\ PollerInv' /\ PhaseInv' /\ RestInv' /\ [PollNext]_pollVars /\ hub'.pending = h.pending
<1>1. /\ HubOK(g) /\ MarksOK(g) /\ Pumped(g) /\ ShownOK(g) /\ Called(hub, g)
      /\ g.disposed = hub.disposed /\ (hub.disposed => g.running = hub.running)
  BY DEF KeepsBooks
<1>2. /\ HubOK(h) /\ MarksOK(h) /\ Pumped(h) /\ ShownOK(h)
      /\ \A k, v : Fresh(g, k, v) => Fresh(h, k, v)
  BY <1>1, SameBooksKeep
<1>3. h.active = g.active /\ h.running = g.running /\ h.disposed = g.disposed /\ h.ops = g.ops /\ h.shared = g.shared
  BY DEF SameBooks
<1>4. Called(hub, h)
  BY <1>1, <1>3 DEF Called
<1>5. ~hub.disposed => KeepsRest(hub, h)
  BY <1>2, <1>3 DEF KeepsFresh, KeepsRest, AllAttached
<1>6. PollerTold(h)
  BY <1>2, <1>4, LiveFacts, CallsAreMade
<1>7. h.disposed = hub.disposed /\ (phase \in {"disposed", "released"} => h.running = 0)
  BY <1>1, <1>3 DEF LiveInv, PhaseInv
<1>8. HubInv' /\ PollerInv' /\ PhaseInv'
  BY <1>2, <1>6, <1>7, HubStep
<1>9. RestInv'
  BY <1>2, <1>4, <1>5, <1>6, <1>7, RestStep
<1> QED
  BY <1>6, <1>8, <1>9 DEF PollerTold

LEMMA SameIsSame ==
    ASSUME NEW h, HubOK(h)
    PROVE  SameBooks(h, h)
  BY DEF HubOK, HubTypes, SameBooks, OrderOK

LEMMA CloseStep ==
    ASSUME LiveInv, NEW c \in Conn, Close(c)
    PROVE  LiveInv' /\ [PollNext]_pollVars
<1>1. PICK h, set : h = DeleteAll(hub, set) /\ set = OfConn(hub, c)
  OBVIOUS
<1>2. /\ phase' = phase /\ answer' = answer /\ execFaults' = execFaults /\ messages' = messages
      /\ Becomes(h)
      /\ conn' = [conn EXCEPT ![c].gone = TRUE, ![c].closed = TRUE,
                              ![c].chain = IF conn[c].validating THEN <<Head(conn[c].chain)>> ELSE <<>>]
  BY <1>1 DEF Close
<1>3. IsFiniteSet(set)
  BY <1>1, LiveFacts, FS_Subset DEF OfConn, HubTypes
<1>4. HubOK(h) /\ Deleted(hub, h)
  BY <1>1, <1>3, LiveFacts, DeleteAllIs
<1>5. KeepsBooks(hub, h) /\ KeepsFresh(hub, h)
  BY <1>4, LiveFacts, DeletedIs
<1>6. HubInv' /\ PollerInv' /\ PhaseInv' /\ RestInv' /\ [PollNext]_pollVars /\ hub'.pending = hub.pending
  <2>1. h.pending = hub.pending /\ SameBooks(h, h)
    BY <1>4, <1>5, SameIsSame DEF KeepsBooks
  <2> QED
    BY <1>2, <1>5, <2>1, BecomesStep
<1>7. ConnInv'
  <2>1. PICK chain, new : /\ chain = (IF conn[c].validating THEN <<Head(conn[c].chain)>> ELSE <<>>)
                          /\ new = [conn[c] EXCEPT !.gone = TRUE, !.closed = TRUE, !.chain = chain]
    OBVIOUS
  <2>2. /\ conn[c] \in Connection /\ conn[c].chain \in Seq(Message) /\ ConnInv
        /\ conn[c].validating => conn[c].chain # <<>> /\ Head(conn[c].chain).type = "subscribe"
    BY ConnFields DEF LiveInv
  <2>3. chain \in Seq(Message) /\ (conn[c].validating => chain # <<>> /\ Head(chain).type = "subscribe")
    <3>1. CASE conn[c].validating
      <4>1. PICK m : m = Head(conn[c].chain)
        OBVIOUS
      <4>2. m \in Message /\ m.type = "subscribe" /\ chain = <<m>>
        BY <2>1, <2>2, <3>1, <4>1
      <4> QED
        BY <4>2
    <3>2. CASE ~conn[c].validating
      BY <2>1, <3>2
    <3> QED
      BY <3>1, <3>2
  <2>4. /\ new \in Connection /\ new.validating = conn[c].validating /\ new.replaces = conn[c].replaces
        /\ new.chain = chain
    BY <2>1, <2>2, <2>3 DEF Connection
  <2>5. conn' = [conn EXCEPT ![c] = new]
    BY <1>2, <2>1
  <2>6. hub'.pending = hub.pending + (IF new.validating /\ ~new.replaces THEN 1 ELSE 0)
                                   - (IF conn[c].validating /\ ~conn[c].replaces THEN 1 ELSE 0)
    <3>1. hub.pending \in Nat
      BY LiveFacts DEF HubTypes
    <3> QED
      BY <1>6, <2>4, <3>1
  <2> QED
    BY <2>2, <2>3, <2>4, <2>5, <2>6, ConnStep
<1> QED
  BY <1>2, <1>6, <1>7 DEF LiveInv

LEMMA CompleteStep ==
    ASSUME LiveInv, NEW c \in Conn, Complete(c)
    PROVE  LiveInv' /\ [PollNext]_pollVars
<1>1. PICK h : h = DeleteOperation(hub, Target(c))
  OBVIOUS
<1>2. /\ phase' = phase /\ answer' = answer /\ execFaults' = execFaults /\ messages' = messages
      /\ Becomes(h) /\ conn' = Handled(c) /\ conn[c].chain # <<>> /\ ~conn[c].validating
  BY <1>1 DEF Complete, Handling
<1>3. HubOK(h) /\ Deleted(hub, h)
  BY <1>1, LiveFacts, DeleteOperationIs
<1>4. KeepsBooks(hub, h) /\ KeepsFresh(hub, h)
  BY <1>3, LiveFacts, DeletedIs
<1>5. HubInv' /\ PollerInv' /\ PhaseInv' /\ RestInv' /\ [PollNext]_pollVars /\ hub'.pending = hub.pending
  <2>1. h.pending = hub.pending /\ SameBooks(h, h)
    BY <1>3, <1>4, SameIsSame DEF KeepsBooks
  <2> QED
    BY <1>2, <1>4, <2>1, BecomesStep
<1>6. ConnInv'
  <2>1. hub.pending \in Nat
    BY LiveFacts DEF HubTypes
  <2>2. hub'.pending = hub.pending - (IF conn[c].validating /\ ~conn[c].replaces THEN 1 ELSE 0)
    BY <1>2, <1>5, <2>1
  <2> QED
    BY <1>2, <2>2, HandledIs
<1> QED
  BY <1>2, <1>5, <1>6 DEF LiveInv

LEMMA AcceptStep ==
    ASSUME LiveInv, NEW c \in Conn, Accept(c)
    PROVE  LiveInv' /\ [PollNext]_pollVars
<1>1. PICK g, h, less, s, k :
        /\ g = Attach(hub, s, k) /\ h = Unreserved(g, c) /\ less = (IF conn[c].replaces THEN 0 ELSE 1)
        /\ s = Target(c) /\ k = Current(c).key
  OBVIOUS
<1>2. /\ phase' = phase /\ answer' = answer /\ execFaults' = execFaults /\ messages' = messages
      /\ Becomes(h) /\ conn' = Handled(c) /\ conn[c].validating
      /\ h = [g EXCEPT !.pending = g.pending - less]
  BY <1>1 DEF Accept, Unreserved
<1>3. conn[c].chain # <<>> /\ s \in Conn \X OpId /\ k \in Key
  <2>1. PICK m : m = Head(conn[c].chain)
    OBVIOUS
  <2>2. conn[c].chain # <<>> /\ conn[c].chain \in Seq(Message) /\ m.type = "subscribe"
    BY <1>2, <2>1, ConnFields
  <2>3. m \in Message
    BY <2>1, <2>2
  <2>4. m.id \in OpId /\ m.key \in Key
    BY <2>2, <2>3 DEF Message
  <2> QED
    BY <1>1, <2>1, <2>2, <2>4 DEF Target, Current
<1>4. KeepsBooks(hub, g) /\ (~hub.disposed => KeepsFresh(hub, g))
  BY <1>1, <1>3, LiveFacts, AttachIs
<1>5. hub.pending - less \in Nat /\ hub.pending \in Nat /\ g.pending = hub.pending
  BY <1>1, <1>2, <1>4, ReservedCounts DEF KeepsBooks
<1>6. SameBooks(g, h) /\ h.calls = g.calls /\ h.debounce = g.debounce /\ h.pending = hub.pending - less
  BY <1>2, <1>4, <1>5 DEF KeepsBooks, SameBooks, HubOK, HubTypes, OrderOK, Fields
<1>7. HubInv' /\ PollerInv' /\ PhaseInv' /\ RestInv' /\ [PollNext]_pollVars /\ hub'.pending = hub.pending - less
  BY <1>2, <1>4, <1>6, BecomesStep
<1>8. ConnInv'
  <2>1. hub'.pending = hub.pending - (IF conn[c].validating /\ ~conn[c].replaces THEN 1 ELSE 0)
    BY <1>1, <1>2, <1>7
  <2> QED
    BY <1>2, <1>3, <2>1, HandledIs
<1> QED
  BY <1>2, <1>7, <1>8 DEF LiveInv

LEMMA SucceedStep ==
    ASSUME LiveInv, NEW k \in Key, Succeed(k)
    PROVE  LiveInv' /\ [PollNext]_pollVars
<1>1. PICK h, r, op, new :
        /\ h = [hub EXCEPT !.shared[k].stage = "ended", !.shared[k].failed = FALSE] /\ r = Deliver(h, k)
        /\ op = hub.shared[k] /\ new = [op EXCEPT !.stage = "ended", !.failed = FALSE]
  OBVIOUS
<1>2. /\ phase' = phase /\ answer' = answer /\ execFaults' = execFaults /\ messages' = messages /\ conn' = conn
      /\ Becomes(r) /\ k \in DOMAIN hub.shared /\ op.stage = "read"
  BY <1>1 DEF Succeed, InStage
<1>3. op \in SharedOperation /\ OpOK(op) /\ op.read \in Value /\ op.queued = "no"
  BY <1>1, <1>2, LiveFacts DEF OpOK
<1>4. /\ new \in SharedOperation /\ new.stage = "ended" /\ new.result = op.result /\ new.replay = op.replay
      /\ new.queued = op.queued /\ new.again = op.again /\ new.read = op.read
  BY <1>1, <1>3 DEF SharedOperation
<1>5. OpOK(new)
  BY <1>3, <1>4 DEF OpOK
<1>6. OneOp(hub, h, k, new)
  BY <1>1, <1>2, <1>4, LiveFacts DEF OneOp, Fields
<1>7. /\ HubOK(h) /\ MarksOK(h) /\ ShownOK(h) /\ Pumped(h)
      /\ DOMAIN h.shared = DOMAIN hub.shared /\ h.shared[k] = new
      /\ \A j \in DOMAIN hub.shared \ {k} : \A v : Fresh(hub, j, v) => Fresh(h, j, v)
  <2>1. OneOpOK(hub, h, k, new)
    <3>1. /\ k \in DOMAIN hub.shared /\ HubOK(hub) /\ new.result = hub.shared[k].result
          /\ new.replay = hub.shared[k].replay /\ new.queued = hub.shared[k].queued
      BY <1>1, <1>2, <1>4, LiveFacts
    <3> QED
      BY <1>4, <1>5, <1>6, <3>1, OneOpKeeps, Zenon
  <2>2. h.running = hub.running
    BY <1>4, <1>6 DEF OneOp
  <2> QED
    BY <2>1, <2>2, LiveFacts DEF OneOpOK
<1>8. h.calls = <<>> /\ h.active = hub.active /\ h.debounce = hub.debounce /\ h.pending = hub.pending
      /\ h.disposed = hub.disposed /\ h.running = hub.running /\ h.ops = hub.ops
  BY <1>4, <1>6, LiveFacts DEF OneOp
<1>9. /\ KeepsBooks(h, r) /\ (AllAttached(h) => AllAttached(r))
      /\ \A j \in DOMAIN r.shared \ {k} : j \in DOMAIN h.shared
                                           /\ \A v : Fresh(h, j, v) => Fresh(r, j, v)
      /\ k \in DOMAIN r.shared => \A v : new.again \/ new.read = v => Fresh(r, k, v)
  <2>1. k \in DOMAIN h.shared /\ h.shared[k].stage = "ended" /\ h.shared[k].read \in Value
    BY <1>2, <1>3, <1>4, <1>7
  <2>2. DeliveredOK(h, k, r)
    <3>1. DeliveredOK(h, k, Deliver(h, k))
      BY <1>7, <1>8, <2>1, DeliverIs, Zenon
    <3> QED
      BY <1>1, <3>1, Zenon
  <2> QED
    BY <1>7, <2>2 DEF DeliveredOK
<1>10. KeepsBooks(hub, r)
  BY <1>8, <1>9 DEF KeepsBooks, Called
<1>11. KeepsFresh(hub, r)
  <2>1. AllAttached(hub) => AllAttached(r)
    BY <1>8, <1>9 DEF AllAttached
  <2>2. ASSUME NEW v, Fresh(hub, k, v) PROVE new.again \/ new.read = v
    BY <1>1, <1>2, <1>3, <1>4, <2>2 DEF Fresh, ToCome
  <2> QED
    BY <1>2, <1>7, <1>9, <2>1, <2>2 DEF KeepsFresh
<1>12. HubInv' /\ PollerInv' /\ PhaseInv' /\ RestInv' /\ [PollNext]_pollVars /\ hub'.pending = hub.pending
  <2>1. r.pending = hub.pending /\ SameBooks(r, r)
    BY <1>10, SameIsSame DEF KeepsBooks
  <2> QED
    BY <1>2, <1>10, <1>11, <2>1, BecomesStep
<1>13. ConnInv'
  BY <1>2, <1>12, ConnSame DEF LiveInv
<1> QED
  BY <1>2, <1>12, <1>13 DEF LiveInv

\* Steps that leave the handlers r and do not touch the poller.
LEMMA QuietStep ==
    ASSUME LiveInv, HubOK(hub'), MarksOK(hub'), Pumped(hub'), ShownOK(hub'), hub'.calls = <<>>,
           hub'.active = hub.active, hub'.disposed = hub.disposed, hub'.debounce = hub.debounce,
           hub'.pending = hub.pending, phase \notin {"disposed", "released"},
           ~hub.disposed => KeepsRest(hub, hub'),
           UNCHANGED pollVars, phase' = phase, answer' = answer, conn' = conn
    PROVE  HubInv' /\ PollerInv' /\ PhaseInv' /\ RestInv' /\ ConnInv'
<1>1. PollerTold(hub') /\ Called(hub, hub')
  BY QuietIs
<1>2. HubInv' /\ PollerInv' /\ PhaseInv'
  BY <1>1, HubStep
<1>3. RestInv'
  BY <1>1, RestStep
<1>4. ConnInv'
  BY ConnSame DEF LiveInv
<1> QED
  BY <1>2, <1>3, <1>4

LEMMA ExecuteStep ==
    ASSUME LiveInv, NEW k \in Key, Execute(k)
    PROVE  LiveInv' /\ [PollNext]_pollVars
<1>1. PICK op, new : op = hub.shared[k] /\ new = [op EXCEPT !.stage = "read", !.read = answer[k]]
  OBVIOUS
<1>2. /\ UNCHANGED pollVars /\ phase' = phase /\ answer' = answer /\ conn' = conn
      /\ execFaults' = execFaults /\ messages' = messages
      /\ hub' = [hub EXCEPT !.shared[k].stage = "read", !.shared[k].read = answer[k]]
      /\ k \in DOMAIN hub.shared /\ op.stage = "asked"
  BY <1>1 DEF Execute, InStage
<1>3. op \in SharedOperation /\ OpOK(op) /\ op.queued = "no" /\ answer[k] \in Value
  BY <1>1, <1>2, LiveFacts DEF OpOK, LiveInv
<1>4. /\ new \in SharedOperation /\ new.stage = "read" /\ new.result = op.result /\ new.replay = op.replay
      /\ new.queued = op.queued /\ new.again = op.again /\ new.read = answer[k]
  BY <1>1, <1>3 DEF SharedOperation
<1>5. OpOK(new)
  BY <1>3, <1>4 DEF OpOK
<1>6. OneOp(hub, hub', k, new)
  BY <1>1, <1>2, <1>4, LiveFacts DEF OneOp, Fields
<1>7. OneOpOK(hub, hub', k, new)
  <2>1. /\ k \in DOMAIN hub.shared /\ HubOK(hub) /\ new.result = hub.shared[k].result
        /\ new.replay = hub.shared[k].replay /\ new.queued = hub.shared[k].queued
    BY <1>1, <1>2, <1>4, LiveFacts
  <2> QED
    BY <1>4, <1>5, <1>6, <2>1, OneOpKeeps, Zenon
<1>8. /\ hub'.calls = <<>> /\ hub'.active = hub.active /\ hub'.debounce = hub.debounce
      /\ hub'.pending = hub.pending /\ hub'.disposed = hub.disposed /\ hub'.running = hub.running
      /\ hub'.ops = hub.ops
  BY <1>4, <1>6, LiveFacts DEF OneOp
<1>9. HubOK(hub') /\ MarksOK(hub') /\ Pumped(hub') /\ ShownOK(hub')
  BY <1>7, <1>8, LiveFacts DEF OneOpOK
<1>10. KeepsRest(hub, hub')
  <2>1. Fresh(hub', k, answer[k])
    BY <1>4, <1>7 DEF Fresh, OneOpOK
  <2> QED
    BY <1>2, <1>7, <1>8, <2>1 DEF KeepsRest, OneOpOK, AllAttached
<1>11. phase \notin {"disposed", "released"}
  BY <1>1, <1>2, LiveFacts
<1>12. HubInv' /\ PollerInv' /\ PhaseInv' /\ RestInv' /\ ConnInv'
  BY <1>2, <1>8, <1>9, <1>10, <1>11, QuietStep
<1> QED
  BY <1>2, <1>12 DEF LiveInv

LEMMA FailStep ==
    ASSUME LiveInv, NEW k \in Key, Fail(k)
    PROVE  LiveInv' /\ [PollNext]_pollVars
<1>1. PICK op, new, h, set :
        /\ op = hub.shared[k] /\ new = [op EXCEPT !.stage = "ended", !.failed = TRUE]
        /\ h = [hub EXCEPT !.shared[k].stage = "ended", !.shared[k].failed = TRUE]
        /\ set = Subscribers(hub, k)
  OBVIOUS
<1>2. /\ UNCHANGED pollVars /\ phase' = phase /\ answer' = answer /\ conn' = conn
      /\ execFaults' = execFaults + 1 /\ execFaults < MaxExecFaults /\ messages' = messages
      /\ hub' = Tell(h, set, "error") /\ k \in DOMAIN hub.shared /\ op.stage = "asked"
  BY <1>1 DEF Fail, InStage
<1>3. op \in SharedOperation /\ OpOK(op) /\ op.queued = "no"
  BY <1>1, <1>2, LiveFacts DEF OpOK
<1>4. /\ new \in SharedOperation /\ new.stage = "ended" /\ new.result = op.result /\ new.replay = op.replay
      /\ new.queued = op.queued /\ new.again = op.again /\ new.failed = TRUE
  BY <1>1, <1>3 DEF SharedOperation
<1>5. OpOK(new)
  BY <1>3, <1>4 DEF OpOK
<1>6. OneOp(hub, h, k, new)
  BY <1>1, <1>2, <1>4, LiveFacts DEF OneOp, Fields
<1>7. OneOpOK(hub, h, k, new)
  <2>1. /\ k \in DOMAIN hub.shared /\ HubOK(hub) /\ new.result = hub.shared[k].result
        /\ new.replay = hub.shared[k].replay /\ new.queued = hub.shared[k].queued
    BY <1>1, <1>2, <1>4, LiveFacts
  <2> QED
    BY <1>4, <1>5, <1>6, <2>1, OneOpKeeps, Zenon
<1>8. /\ h.calls = <<>> /\ h.active = hub.active /\ h.debounce = hub.debounce
      /\ h.pending = hub.pending /\ h.disposed = hub.disposed /\ h.running = hub.running
      /\ h.ops = hub.ops
  BY <1>4, <1>6, LiveFacts DEF OneOp
<1>9. HubOK(h) /\ MarksOK(h) /\ Pumped(h) /\ ShownOK(h)
  BY <1>7, <1>8, LiveFacts DEF OneOpOK
<1>10. ToldOK(h, hub', set, "error")
  <2>1. "error" \in Value \cup {"error"}
    OBVIOUS
  <2>2. ToldOK(h, Tell(h, set, "error"), set, "error")
    BY <1>9, <2>1, TellIs, Zenon
  <2> QED
    BY <1>2, <2>2, Zenon
<1>11. /\ HubOK(hub') /\ MarksOK(hub') /\ Pumped(hub') /\ hub'.calls = <<>> /\ hub'.active = hub.active
       /\ hub'.debounce = hub.debounce /\ hub'.pending = hub.pending /\ hub'.disposed = hub.disposed
       /\ hub'.shared = h.shared /\ DOMAIN hub'.ops = DOMAIN hub.ops
       /\ \A j : Subscribers(hub', j) = Subscribers(hub, j)
       /\ \A s \in DOMAIN hub.ops : /\ hub'.ops[s].attached = hub.ops[s].attached
                                    /\ s \notin set => hub'.ops[s] = hub.ops[s]
                                    /\ s \in set => hub'.ops[s].shown = "error"
  BY <1>7, <1>8, <1>9, <1>10 DEF ToldOK, OneOpOK
<1>12. ShownOK(hub')
  <2>1. ASSUME NEW s \in DOMAIN hub'.ops
        PROVE  /\ hub'.ops[s].needsInitial => hub'.ops[s].shown \in {None, "error"}
               /\ ~hub'.ops[s].needsInitial /\ hub'.ops[s].attached =>
                     hub'.ops[s].shown \in {hub'.shared[hub'.ops[s].key].result, "error"}
    <3>1. CASE s \in set
      BY <1>11, <3>1
    <3>2. CASE s \notin set
      <4>1. s \in DOMAIN h.ops /\ hub'.ops[s] = h.ops[s] /\ hub'.shared = h.shared
        BY <1>8, <1>11, <3>2
      <4> QED
        BY <1>9, <4>1 DEF ShownOK
    <3> QED
      BY <3>1, <3>2
  <2> QED
    BY <2>1 DEF ShownOK
<1>13. KeepsRest(hub, hub')
  <2>1. Fresh(hub', k, answer[k])
    BY <1>4, <1>7, <1>11 DEF Fresh, OneOpOK
  <2>2. ASSUME NEW j \in DOMAIN hub.shared \ {k}, NEW v, Fresh(hub, j, v) PROVE Fresh(hub', j, v)
    <3>1. hub'.shared[j] = h.shared[j] /\ Subscribers(hub', j) = Subscribers(h, j) /\ Fresh(h, j, v)
      BY <1>7, <1>11, <2>2 DEF OneOpOK
    <3>2. \A s \in Subscribers(h, j) : hub'.ops[s] = h.ops[s]
      BY <1>1, <1>8, <1>11, <2>2 DEF Subscribers
    <3> QED
      BY <3>1, <3>2 DEF Fresh
  <2>3. DOMAIN hub'.shared = DOMAIN hub.shared
    BY <1>7, <1>11 DEF OneOpOK
  <2>4. AllAttached(hub) => AllAttached(hub')
    BY <1>11 DEF AllAttached
  <2> QED
    BY <2>1, <2>2, <2>3, <2>4 DEF KeepsRest
<1>14. phase \notin {"disposed", "released"}
  BY <1>1, <1>2, LiveFacts
<1>15. HubInv' /\ PollerInv' /\ PhaseInv' /\ RestInv' /\ ConnInv'
  BY <1>2, <1>11, <1>12, <1>13, <1>14, QuietStep
<1>16. execFaults' \in 0..MaxExecFaults
  BY <1>2, LiveQueryAssumption DEF LiveInv
<1> QED
  BY <1>2, <1>15, <1>16 DEF LiveInv

LEMMA FinallyStep ==
    ASSUME LiveInv, NEW k \in Key, Finally(k)
    PROVE  LiveInv' /\ [PollNext]_pollVars
<1>0. PICK h : h = [hub EXCEPT !.shared[k].stage = "idle", !.shared[k].read = None,
                               !.shared[k].again = FALSE, !.running = hub.running - 1]
  OBVIOUS
<1>1. PICK op, new, g : /\ op = hub.shared[k]
                        /\ new = [op EXCEPT !.stage = "idle", !.read = None, !.again = FALSE]
                        /\ g = IF op.again THEN Enqueue(h, k, "rerun") ELSE h
  OBVIOUS
<1>2. /\ UNCHANGED pollVars /\ phase' = phase /\ answer' = answer /\ conn' = conn
      /\ execFaults' = execFaults /\ messages' = messages
      /\ hub' = PumpQueue(g) /\ k \in DOMAIN hub.shared /\ op.stage = "ended"
  BY <1>0, <1>1 DEF Finally, InStage
<1>3. op \in SharedOperation /\ OpOK(op) /\ op.queued = "no"
  BY <1>1, <1>2, LiveFacts DEF OpOK
<1>4. /\ new \in SharedOperation /\ new.stage = "idle" /\ new.result = op.result /\ new.replay = op.replay
      /\ new.queued = op.queued /\ new.again = FALSE /\ new.failed = op.failed
  BY <1>1, <1>3 DEF SharedOperation
<1>5. OpOK(new)
  BY <1>3, <1>4 DEF OpOK
<1>6. OneOp(hub, h, k, new)
  BY <1>0, <1>1, <1>2, <1>4, LiveFacts DEF OneOp, Fields
<1>7. OneOpOK(hub, h, k, new)
  <2>1. /\ k \in DOMAIN hub.shared /\ HubOK(hub) /\ new.result = hub.shared[k].result
        /\ new.replay = hub.shared[k].replay /\ new.queued = hub.shared[k].queued
    BY <1>1, <1>2, <1>4, LiveFacts
  <2> QED
    BY <1>4, <1>5, <1>6, <2>1, OneOpKeeps, Zenon
<1>8. /\ h.calls = <<>> /\ h.active = hub.active /\ h.debounce = hub.debounce
      /\ h.pending = hub.pending /\ h.disposed = hub.disposed /\ h.ops = hub.ops
  BY <1>6, LiveFacts DEF OneOp
<1>9. HubOK(h) /\ MarksOK(h) /\ ShownOK(h) /\ Ordered(h) /\ DOMAIN h.shared = DOMAIN hub.shared
      /\ h.shared[k] = new
  BY <1>7, <1>8, LiveFacts DEF OneOpOK, Ordered
<1>10. Begins(h, g) /\ (op.again /\ ~h.disposed => ToCome(g.shared[k]))
  <2>1. CASE op.again
    <3>1. g = Enqueue(h, k, "rerun") /\ k \in DOMAIN h.shared
      BY <1>1, <1>2, <1>9, <2>1
    <3>2. Begins(h, Enqueue(h, k, "rerun")) /\ (~h.disposed => ToCome(Enqueue(h, k, "rerun").shared[k]))
      BY <1>9, <3>1, EnqueueIs
    <3> QED
      BY <3>1, <3>2, Zenon
  <2>2. CASE ~op.again
    BY <1>1, <1>9, <2>2, BeginsNothing
  <2> QED
    BY <2>1, <2>2
<1>11. Begins(g, hub') /\ Pumped(hub') /\ Begins(h, hub')
  <2>1. Ordered(g)
    BY <1>10 DEF Begins
  <2>2. Begins(g, PumpQueue(g)) /\ Pumped(PumpQueue(g))
    BY <2>1, PumpQueueIs
  <2>3. Begins(g, hub') /\ Pumped(hub')
    BY <1>2, <2>2, Zenon
  <2> QED
    BY <1>10, <2>3, BeginsTwice
<1>12. /\ HubOK(g) /\ HubOK(hub') /\ MarksOK(hub') /\ DOMAIN hub'.shared = DOMAIN h.shared
       /\ DOMAIN g.shared = DOMAIN h.shared
       /\ hub'.calls = <<>> /\ hub'.active = hub.active /\ hub'.debounce = hub.debounce
       /\ hub'.pending = hub.pending /\ hub'.disposed = hub.disposed /\ hub'.ops = hub.ops
  BY <1>8, <1>10, <1>11 DEF Begins, Ordered, QueuesOnly
<1>13. /\ ShownOK(hub') /\ \A j \in DOMAIN h.shared : \A v : Fresh(h, j, v) => Fresh(hub', j, v)
  BY <1>9, <1>11, BeginsKeeps
<1>14. ASSUME ~hub.disposed, Fresh(hub, k, answer[k]) PROVE Fresh(hub', k, answer[k])
  <2>1. CASE op.again
    <3>1. Fresh(g, k, answer[k]) /\ k \in DOMAIN g.shared
      BY <1>2, <1>8, <1>9, <1>10, <1>12, <1>14, <2>1 DEF Fresh
    <3> QED
      BY <1>11, <1>12, <3>1, BeginsKeeps
  <2>2. CASE ~op.again
    <3>1. Subscribers(h, k) = Subscribers(hub, k)
      BY <1>7 DEF OneOpOK
    <3>2. Fresh(h, k, answer[k])
      BY <1>1, <1>2, <1>3, <1>4, <1>8, <1>9, <1>14, <2>2, <3>1 DEF Fresh, ToCome
    <3> QED
      BY <1>2, <1>9, <1>13, <3>2
  <2> QED
    BY <2>1, <2>2
<1>15. ~hub.disposed => KeepsRest(hub, hub')
  BY <1>2, <1>7, <1>9, <1>12, <1>13, <1>14 DEF KeepsRest, AllAttached, OneOpOK
<1>16. phase \notin {"disposed", "released"}
  BY <1>1, <1>2, LiveFacts
<1>17. HubInv' /\ PollerInv' /\ PhaseInv' /\ RestInv' /\ ConnInv'
  BY <1>2, <1>11, <1>12, <1>13, <1>15, <1>16, QuietStep
<1> QED
  BY <1>2, <1>17 DEF LiveInv

LEMMA OrphanEndsStep ==
    ASSUME LiveInv, OrphanEnds
    PROVE  LiveInv' /\ [PollNext]_pollVars
<1>1. PICK h : h = [hub EXCEPT !.orphans = hub.orphans - 1, !.running = hub.running - 1]
  OBVIOUS
<1>2. /\ UNCHANGED pollVars /\ phase' = phase /\ answer' = answer /\ conn' = conn
      /\ execFaults' = execFaults /\ messages' = messages
      /\ hub' = PumpQueue(h) /\ hub.orphans > 0
  BY <1>1 DEF OrphanEnds
<1>3. /\ DOMAIN h = Fields /\ h.ops = hub.ops /\ h.shared = hub.shared /\ h.order = hub.order
      /\ h.initial = hub.initial /\ h.rerun = hub.rerun /\ h.replays = hub.replays /\ h.active = hub.active
      /\ h.pending = hub.pending /\ h.cached = hub.cached /\ h.debounce = hub.debounce
      /\ h.disposed = hub.disposed /\ h.calls = <<>>
      /\ h.orphans = hub.orphans - 1 /\ h.running = hub.running - 1
  BY <1>1, LiveFacts DEF Fields
<1>4. /\ hub.running \in Nat /\ hub.orphans \in Nat /\ Cardinality(Busy(hub)) \in Nat /\ MaxConcurrent \in Nat
      /\ hub.running = hub.orphans + Cardinality(Busy(hub)) /\ hub.running <= MaxConcurrent
      /\ hub.active = Cardinality(DOMAIN hub.ops)
  BY LiveFacts, HubNumbers DEF HubOK, Counted
<1>5. /\ \A k : Subscribers(h, k) = Subscribers(hub, k) /\ \A kind : Marked(h, kind) = Marked(hub, kind)
      /\ Busy(h) = Busy(hub) /\ Cached(h) = Cached(hub) /\ CachedBytes(h) = CachedBytes(hub)
  BY <1>3 DEF Subscribers, Marked, Busy, Cached, CachedBytes
<1>6. HubOK(h)
  <2>1. HubTypes(hub) /\ Linked(hub) /\ CacheOK(hub) /\ OrderOK(hub)
    BY LiveFacts DEF HubOK
  <2>2. HubTypes(h) /\ Linked(h)
    BY <1>2, <1>3, <1>4, <1>5, <2>1 DEF HubTypes, Linked
  <2>3. Counted(h)
    BY <1>2, <1>3, <1>4, <1>5 DEF Counted
  <2>4. CacheOK(h)
    BY <1>3, <1>5, <2>1, Zenon DEF CacheOK
  <2>5. OrderOK(h)
    BY <1>3, <2>1 DEF OrderOK
  <2> QED
    BY <2>2, <2>3, <2>4, <2>5 DEF HubOK
<1>7. MarksOK(h) /\ Ordered(h)
  <2>1. MarksOK(h)
    BY <1>3, <1>5, LiveFacts, Zenon DEF MarksOK
  <2> QED
    BY <1>6, <2>1 DEF Ordered
<1>8. ShownOK(h) /\ \A k, v : Fresh(hub, k, v) => Fresh(h, k, v)
  <2>1. ShownOK(h)
    BY <1>3, LiveFacts DEF ShownOK
  <2>2. \A k, v : Fresh(hub, k, v) => Fresh(h, k, v)
    BY <1>3, <1>5, Zenon DEF Fresh
  <2> QED
    BY <2>1, <2>2
<1>9. Begins(h, hub') /\ Pumped(hub')
  <2>1. Begins(h, PumpQueue(h)) /\ Pumped(PumpQueue(h))
    BY <1>7, PumpQueueIs
  <2> QED
    BY <1>2, <2>1, Zenon
<1>10. /\ HubOK(hub') /\ MarksOK(hub') /\ DOMAIN hub'.shared = DOMAIN hub.shared
       /\ hub'.calls = <<>> /\ hub'.active = hub.active /\ hub'.debounce = hub.debounce
       /\ hub'.pending = hub.pending /\ hub'.disposed = hub.disposed /\ hub'.ops = hub.ops
  BY <1>3, <1>9 DEF Begins, Ordered, QueuesOnly
<1>11. ShownOK(hub') /\ \A k \in DOMAIN h.shared : \A v : Fresh(h, k, v) => Fresh(hub', k, v)
  BY <1>6, <1>8, <1>9, BeginsKeeps
<1>12. KeepsRest(hub, hub')
  BY <1>3, <1>8, <1>10, <1>11 DEF KeepsRest, AllAttached
<1>13. phase \notin {"disposed", "released"}
  BY <1>2, <1>4 DEF LiveInv, PhaseInv
<1>14. HubInv' /\ PollerInv' /\ PhaseInv' /\ RestInv' /\ ConnInv'
  BY <1>2, <1>9, <1>10, <1>11, <1>12, <1>13, QuietStep
<1> QED
  BY <1>2, <1>14 DEF LiveInv

LEMMA DebouncedStep ==
    ASSUME LiveInv, Debounced
    PROVE  LiveInv' /\ [PollNext]_pollVars
<1>1. PICK base : base = [hub EXCEPT !.debounce = FALSE]
  OBVIOUS
<1>2. /\ UNCHANGED pollVars /\ phase' = phase /\ answer' = answer /\ conn' = conn
      /\ execFaults' = execFaults /\ messages' = messages
      /\ hub' = RerunAll(hub) /\ hub.debounce
  BY DEF Debounced
<1>3. ~hub.disposed
  BY <1>2, LiveFacts DEF HubOK, OrderOK
<1>4. /\ SameBooks(hub, base) /\ Begins(base, hub') /\ Pumped(hub')
      /\ \A k \in DOMAIN hub'.shared : ToCome(hub'.shared[k])
  <2>1. Ordered(hub)
    BY LiveFacts DEF Ordered
  <2>2. /\ SameBooks(hub, base) /\ Begins(base, RerunAll(hub)) /\ (Pumped(hub) => Pumped(RerunAll(hub)))
        /\ ~hub.disposed => \A k \in DOMAIN RerunAll(hub).shared : ToCome(RerunAll(hub).shared[k])
    BY <1>1, <2>1, RerunAllIs
  <2> QED
    BY <1>2, <1>3, <2>2, LiveFacts, Zenon
<1>5. HubOK(base) /\ ShownOK(base)
  BY <1>4, LiveFacts, SameBooksKeep
<1>6. ShownOK(hub')
  BY <1>4, <1>5, BeginsKeeps
<1>7. base.calls = <<>> /\ base.pending = hub.pending
  BY <1>1, LiveFacts DEF Fields
<1>8. /\ HubOK(hub') /\ MarksOK(hub') /\ hub'.calls = <<>> /\ hub'.active = hub.active
      /\ hub'.pending = hub.pending /\ hub'.disposed = hub.disposed /\ hub'.ops = hub.ops
  BY <1>4, <1>7 DEF Begins, Ordered, QueuesOnly, SameBooks
<1>9. PollerTold(hub')
  BY <1>2, <1>8, QuietIs
<1>10. phase \notin {"disposed", "released"}
  BY <1>3 DEF LiveInv, PhaseInv
<1>11. HubInv' /\ PollerInv' /\ PhaseInv'
  BY <1>2, <1>4, <1>6, <1>8, <1>9, <1>10, HubStep
<1>12. RestInv'
  <2>1. \A s \in DOMAIN hub.ops : hub.ops[s].attached
    BY <1>3 DEF LiveInv, RestInv
  <2>2. \A k \in DOMAIN hub'.shared : Fresh(hub', k, answer'[k])
    BY <1>4 DEF Fresh
  <2> QED
    BY <1>8, <2>1, <2>2 DEF RestInv
<1>13. ConnInv'
  BY <1>2, <1>8, ConnSame DEF LiveInv
<1> QED
  BY <1>2, <1>11, <1>12, <1>13 DEF LiveInv

LEMMA PollComparesStep ==
    ASSUME LiveInv, PollCompares
    PROVE  LiveInv' /\ [PollNext]_pollVars
<1>1. PICK stage \in {"none", "pruning"} : Compare(stage)
  BY DEF PollCompares
<1>2. PICK raises, new : raises = Raises(poller, poller.ids) /\ new = (hub.debounce \/ (raises /\ ~hub.disposed))
  OBVIOUS
<1>3. /\ poller' = Compared(stage) /\ table' = table
      /\ signalled' = (IF raises THEN signalled \cup poller.ids ELSE signalled)
      /\ (~poller.known => raises)
  BY <1>1, <1>2 DEF Compare, Raises
<1>4. /\ hub' = [hub EXCEPT !.debounce = new] /\ phase' = phase /\ answer' = answer /\ conn' = conn
      /\ execFaults' = execFaults /\ messages' = messages
  BY <1>2 DEF PollCompares
<1>5. PollNext /\ poller'.on = poller.on
  BY <1>1, <1>3, LiveFacts DEF PollNext, Compared, PollerInv, PollTypeOK
<1>6. new \in BOOLEAN /\ (hub.disposed => ~new)
  BY <1>2, LiveFacts DEF HubOK, HubTypes, OrderOK
<1>7. SameBooks(hub, hub') /\ hub'.calls = <<>> /\ hub'.debounce = new /\ hub'.pending = hub.pending
  BY <1>4, <1>6, LiveFacts DEF SameBooks, HubOK, HubTypes, Fields
<1>8. /\ HubOK(hub') /\ MarksOK(hub') /\ Pumped(hub') /\ ShownOK(hub')
      /\ \A k, v : Fresh(hub, k, v) => Fresh(hub', k, v)
  BY <1>7, LiveFacts, SameBooksKeep
<1>9. HubInv'
  BY <1>7, <1>8 DEF HubInv
<1>10. PollerInv'
  BY <1>5, LiveFacts, PollerStep
<1>11. PhaseInv'
  BY <1>4, <1>5, <1>7 DEF LiveInv, PhaseInv, SameBooks
<1>12. RestInv'
  <2> SUFFICES ASSUME ~hub'.disposed PROVE RestInv'
    BY DEF RestInv
  <2>1. ~hub.disposed /\ hub'.ops = hub.ops /\ hub'.shared = hub.shared
    BY <1>7 DEF SameBooks
  <2>2. /\ \A s \in DOMAIN hub.ops : hub.ops[s].attached
        /\ Outstanding \/ \A k \in DOMAIN hub.shared : Fresh(hub, k, answer[k])
    BY <2>1 DEF LiveInv, RestInv
  <2>3. ASSUME ~Outstanding' PROVE ~Outstanding
    <3>1. ~new /\ table'.rows \subseteq signalled'
      BY <1>7, <2>3 DEF Outstanding
    <3>2. ~raises /\ ~hub.debounce
      BY <1>2, <2>1, <3>1
    <3> QED
      BY <1>3, <3>1, <3>2 DEF Outstanding
  <2> QED
    BY <1>4, <1>8, <2>1, <2>2, <2>3 DEF RestInv
<1>13. ConnInv'
  BY <1>4, <1>7, ConnSame DEF LiveInv
<1> QED
  BY <1>4, <1>5, <1>9, <1>10, <1>11, <1>12, <1>13 DEF LiveInv

LEMMA PollStepsStep ==
    ASSUME LiveInv, PollSteps
    PROVE  LiveInv' /\ [PollNext]_pollVars
<1>1. /\ hub' = hub /\ phase' = phase /\ answer' = answer /\ conn' = conn
      /\ execFaults' = execFaults /\ messages' = messages
  BY DEF PollSteps, liveVars
<1>2. PollNext
  BY DEF PollSteps, PollNext
<1>3. poller'.on = poller.on /\ poller'.known = poller.known /\ signalled' = signalled
      /\ (table'.rows \subseteq signalled => table.rows \subseteq signalled)
  <2>1. /\ table \in [allocated : 0..MaxRows, open : SUBSET RowId, rows : SUBSET RowId]
        /\ poller \in [on : BOOLEAN, known : BOOLEAN, seen : SUBSET RowId,
                       poll : PollStage, current : BOOLEAN, ids : SUBSET RowId, due : BOOLEAN]
    BY LiveFacts DEF PollerInv, PollTypeOK
  <2>2. CASE Interval
    BY <2>1, <2>2 DEF Interval, RunPoll
  <2>3. CASE Read
    BY <2>1, <2>3 DEF Read
  <2>4. CASE Outdated
    BY <2>1, <2>4 DEF Outdated
  <2>5. CASE Prune
    BY <2>1, <2>5 DEF Prune
  <2>6. CASE PollFails
    BY <2>1, <2>6 DEF PollFails
  <2>7. CASE RefreshDue
    BY <2>1, <2>7 DEF RefreshDue
  <2> QED
    BY <2>2, <2>3, <2>4, <2>5, <2>6, <2>7 DEF PollSteps
<1>4. HubInv' /\ ConnInv'
  BY <1>1 DEF LiveInv, HubInv, ConnInv, Validating
<1>5. PollerInv'
  BY <1>2, LiveFacts, PollerStep
<1>6. PhaseInv'
  BY <1>1, <1>3 DEF LiveInv, PhaseInv
<1>7. RestInv'
  BY <1>1, <1>3 DEF LiveInv, RestInv, Outstanding
<1> QED
  BY <1>1, <1>2, <1>4, <1>5, <1>6, <1>7 DEF LiveInv

LEMMA TransactionsStep ==
    ASSUME LiveInv, Transactions
    PROVE  LiveInv' /\ [PollNext]_pollVars
<1>1. /\ hub' = hub /\ phase' = phase /\ conn' = conn
      /\ execFaults' = execFaults /\ messages' = messages
  BY DEF Transactions, liveVars
<1>2. /\ poller' = poller /\ signalled' = signalled /\ PollNext
      /\ answer' \in [Key -> Value]
  BY DEF Transactions, Insert, Commit, RollBack, PollNext, liveVars, LiveInv
<1>3. HubInv' /\ ConnInv'
  BY <1>1 DEF LiveInv, HubInv, ConnInv, Validating
<1>4. PollerInv'
  BY <1>2, LiveFacts, PollerStep
<1>5. PhaseInv'
  BY <1>1, <1>2 DEF LiveInv, PhaseInv
<1>6. table \in [allocated : 0..MaxRows, open : SUBSET RowId, rows : SUBSET RowId]
      /\ table.open \cap signalled = {}
  BY LiveFacts DEF PollerInv, PollTypeOK
<1>7. RestInv'
  <2>1. CASE UNCHANGED liveVars /\ table'.rows = table.rows
    BY <1>2, <2>1 DEF LiveInv, RestInv, Outstanding, liveVars
  <2>2. ASSUME NEW i \in RowId, Commit(i) PROVE RestInv'
    <3>1. i \in table'.rows /\ i \notin signalled'
      BY <1>2, <1>6, <2>2 DEF Commit
    <3>2. Outstanding'
      BY <3>1 DEF Outstanding
    <3> QED
      BY <1>1, <3>2 DEF LiveInv, RestInv
  <2>3. CASE Insert /\ UNCHANGED liveVars
    BY <1>6, <2>1, <2>3 DEF Insert
  <2>4. ASSUME NEW i \in RowId, RollBack(i), UNCHANGED liveVars PROVE RestInv'
    BY <1>6, <2>1, <2>4 DEF RollBack
  <2> QED
    BY <2>2, <2>3, <2>4 DEF Transactions
<1> QED
  BY <1>1, <1>2, <1>3, <1>4, <1>5, <1>7 DEF LiveInv

LEMMA ReleaseStep ==
    ASSUME LiveInv, Release
    PROVE  LiveInv' /\ [PollNext]_pollVars
<1>1. /\ hub' = hub /\ answer' = answer /\ conn' = conn /\ execFaults' = execFaults /\ messages' = messages
      /\ UNCHANGED pollVars /\ phase = "disposed" /\ phase' = "released"
  BY DEF Release
<1>2. HubInv' /\ ConnInv' /\ PollerInv' /\ RestInv'
  BY <1>1 DEF LiveInv, HubInv, ConnInv, Validating, PollerInv, PollTypeOK, RestInv, Outstanding, pollVars
<1>3. PhaseInv'
  BY <1>1 DEF LiveInv, PhaseInv, Phase, pollVars
<1> QED
  BY <1>1, <1>2, <1>3 DEF LiveInv

LEMMA NoOperations ==
    ASSUME NEW h, h.initial = <<>>, h.rerun = <<>>, \A k \in DOMAIN h.shared : h.shared[k].queued = "no"
    PROVE  MarksOK(h) /\ Pumped(h)
<1>1. Marked(h, "initial") = {} /\ Marked(h, "rerun") = {}
  BY DEF Marked
<1>2. MarksOK(h)
  BY <1>1, ListsEmpty, Zenon DEF MarksOK
<1> QED
  BY <1>2 DEF Pumped

LEMMA DisposeStep ==
    ASSUME LiveInv, Dispose
    PROVE  LiveInv' /\ [PollNext]_pollVars
<1>1. PICK h, set : /\ h = [hub EXCEPT !.disposed = TRUE, !.debounce = FALSE, !.initial = <<>>,
                                       !.rerun = <<>>, !.calls = <<FALSE>>]
                    /\ set = {s \in DOMAIN hub.ops : hub.ops[s].attached}
  OBVIOUS
<1>2. PICK r : r = DeleteAll(h, set)
  OBVIOUS
<1>3. /\ phase = "up" /\ phase' = "draining" /\ Becomes(r)
      /\ answer' = answer /\ execFaults' = execFaults /\ messages' = messages
      /\ conn' = [c \in Conn |-> [conn[c] EXCEPT !.closed = conn[c].closed \/ OfConn(hub, c) # {}]]
  BY <1>1, <1>2 DEF Dispose
<1>4. /\ DOMAIN h = Fields /\ h.ops = hub.ops /\ h.shared = hub.shared /\ h.order = hub.order
      /\ h.initial = <<>> /\ h.rerun = <<>> /\ h.replays = hub.replays /\ h.active = hub.active
      /\ h.pending = hub.pending /\ h.cached = hub.cached /\ h.debounce = FALSE
      /\ h.disposed = TRUE /\ h.calls = <<FALSE>> /\ h.orphans = hub.orphans /\ h.running = hub.running
  BY <1>1, LiveFacts DEF Fields
<1>5. HubOK(h)
  <2>1. /\ \A k : Subscribers(h, k) = Subscribers(hub, k)
        /\ Busy(h) = Busy(hub) /\ Cached(h) = Cached(hub) /\ CachedBytes(h) = CachedBytes(hub)
    BY <1>4 DEF Subscribers, Busy, Cached, CachedBytes
  <2>2. HubTypes(hub) /\ Linked(hub) /\ Counted(hub) /\ CacheOK(hub) /\ OrderOK(hub)
    BY LiveFacts DEF HubOK
  <2>3. HubTypes(h) /\ Linked(h)
    BY <1>4, <2>1, <2>2 DEF HubTypes, Linked
  <2>4. Counted(h) /\ OrderOK(h)
    BY <1>4, <2>1, <2>2 DEF Counted, OrderOK
  <2>5. CacheOK(h)
    BY <1>4, <2>1, <2>2, Zenon DEF CacheOK
  <2> QED
    BY <2>3, <2>4, <2>5 DEF HubOK
<1>6. set = DOMAIN hub.ops /\ IsFiniteSet(set)
  <2>1. ~hub.disposed
    BY <1>3 DEF LiveInv, PhaseInv
  <2>2. \A s \in DOMAIN hub.ops : hub.ops[s].attached
    BY <2>1 DEF LiveInv, RestInv
  <2>3. IsFiniteSet(DOMAIN hub.ops)
    BY LiveFacts DEF HubTypes
  <2> QED
    BY <1>1, <2>2, <2>3
<1>7. HubOK(r) /\ Deleted(h, r) /\ DOMAIN r.ops = {}
  <2>1. HubOK(DeleteAll(h, set)) /\ Deleted(h, DeleteAll(h, set)) /\ DOMAIN DeleteAll(h, set).ops = DOMAIN h.ops \ set
    BY <1>5, <1>6, DeleteAllIs
  <2>2. DOMAIN h.ops \ set = {}
    BY <1>4, <1>6
  <2> QED
    BY <1>2, <2>1, <2>2, Zenon
<1>8. r.active = 0 /\ DOMAIN r.shared = {} /\ r.disposed = TRUE /\ r.pending = hub.pending /\ r.running = hub.running
  <2>1. r.active = 0
    BY <1>7, FS_EmptySet DEF HubOK, Counted
  <2>2. DOMAIN r.shared = {}
    BY <1>7 DEF HubOK, Linked, Subscribers
  <2> QED
    BY <1>4, <1>7, <2>1, <2>2 DEF Deleted
<1>9. MarksOK(r) /\ Pumped(r) /\ ShownOK(r)
  <2>1. r.initial = <<>> /\ r.rerun = <<>>
    BY <1>7, <1>8 DEF HubOK, OrderOK
  <2>2. MarksOK(r) /\ Pumped(r)
    BY <1>8, <2>1, NoOperations
  <2> QED
    BY <1>7, <2>2 DEF ShownOK
<1>10. Called(hub, r)
  <2>1. r.calls = IF h.active > 0 /\ r.active = 0 THEN Append(<<FALSE>>, FALSE) ELSE <<FALSE>>
    BY <1>4, <1>7, Zenon DEF Deleted
  <2>2. r.calls \in {<<FALSE>>, <<FALSE, FALSE>>}
    BY <2>1, AppendShort, Zenon
  <2> QED
    BY <1>8, <2>2, Zenon DEF Called
<1>11. PollerTold(r)
  BY <1>3, <1>7, <1>10, LiveFacts, CallsAreMade
<1>12. /\ SameBooks(r, hub') /\ hub'.calls = <<>> /\ hub'.pending = r.pending /\ [PollNext]_pollVars
       /\ (poller.on = (hub.active > 0) => poller'.on = (r.active > 0)) /\ (poller'.on => r.active > 0)
  BY <1>11 DEF PollerTold
<1>13. HubInv'
  <2>1. HubOK(hub') /\ MarksOK(hub') /\ Pumped(hub') /\ ShownOK(hub')
    BY <1>7, <1>9, <1>12, SameBooksKeep
  <2> QED
    BY <1>12, <2>1 DEF HubInv
<1>14. PollerInv'
  BY <1>12, LiveFacts, PollerStep
<1>15. hub'.active = r.active /\ hub'.disposed = TRUE
  BY <1>8, <1>12 DEF SameBooks
<1>16. PhaseInv'
  BY <1>3, <1>12, <1>15 DEF LiveInv, PhaseInv, Phase
<1>17. RestInv'
  BY <1>15 DEF RestInv
<1>18. ConnInv'
  <2>1. conn \in [Conn -> Connection] /\ \A c \in Conn : (conn[c].closed \/ OfConn(hub, c) # {}) \in BOOLEAN
    BY DEF LiveInv, ConnInv, Connection
  <2>2. ASSUME NEW c \in Conn
        PROVE  /\ conn'[c] \in Connection /\ conn'[c].validating = conn[c].validating
               /\ conn'[c].replaces = conn[c].replaces /\ conn'[c].chain = conn[c].chain
    <3>1. PICK shut : shut = (conn[c].closed \/ OfConn(hub, c) # {})
      OBVIOUS
    <3>2. conn'[c] = [conn[c] EXCEPT !.closed = shut] /\ shut \in BOOLEAN /\ conn[c] \in Connection
      BY <1>3, <2>1, <3>1
    <3> QED
      BY <3>2 DEF Connection
  <2>3. conn' \in [Conn -> Connection]
    <3>1. conn' = [c \in Conn |-> conn'[c]]
      BY <1>3
    <3> QED
      BY <2>2, <3>1
  <2>4. Validating' = Validating
    BY <2>2 DEF Validating
  <2>5. hub'.pending = hub.pending
    BY <1>8, <1>12
  <2> QED
    BY <2>2, <2>3, <2>4, <2>5 DEF LiveInv, ConnInv
<1> QED
  BY <1>3, <1>12, <1>13, <1>14, <1>16, <1>17, <1>18 DEF LiveInv

LEMMA DrainedStep ==
    ASSUME LiveInv, Drained
    PROVE  LiveInv' /\ [PollNext]_pollVars
<1>1. PICK ops : ops = [s \in DOMAIN hub.ops |-> [hub.ops[s] EXCEPT !.attached = FALSE]]
  OBVIOUS
<1>2. /\ phase = "draining" /\ phase' = "disposed" /\ hub.running = 0
      /\ hub' = [hub EXCEPT !.shared = <<>>, !.order = <<>>, !.replays = <<>>, !.cached = 0, !.ops = ops]
      /\ poller' = Stopped(poller) /\ table' = table /\ signalled' = signalled /\ pollFaults' = pollFaults
      /\ answer' = answer /\ conn' = conn /\ execFaults' = execFaults /\ messages' = messages
  BY <1>1 DEF Drained
<1>3. /\ DOMAIN hub' = Fields /\ hub'.ops = ops /\ hub'.shared = <<>> /\ hub'.order = <<>>
      /\ hub'.initial = hub.initial /\ hub'.rerun = hub.rerun /\ hub'.replays = <<>>
      /\ hub'.active = hub.active /\ hub'.pending = hub.pending /\ hub'.running = hub.running
      /\ hub'.cached = 0 /\ hub'.debounce = hub.debounce /\ hub'.disposed = hub.disposed
      /\ hub'.orphans = hub.orphans /\ hub'.calls = <<>>
  BY <1>2, LiveFacts DEF Fields
<1>4. DOMAIN hub'.shared = {}
  <2>1. DOMAIN <<>> = {}
    OBVIOUS
  <2> QED
    BY <1>3, <2>1, Zenon
<1>5. /\ DOMAIN ops = DOMAIN hub.ops
      /\ \A s \in DOMAIN ops : /\ ops[s] \in Subscription /\ ops[s].attached = FALSE
                               /\ ops[s].needsInitial = hub.ops[s].needsInitial /\ ops[s].shown = hub.ops[s].shown
  <2>1. \A s \in DOMAIN hub.ops : hub.ops[s] \in Subscription
    BY LiveFacts DEF HubTypes
  <2> QED
    BY <1>1, <2>1 DEF Subscription
<1>6. hub.disposed /\ hub.initial = <<>> /\ hub.rerun = <<>> /\ ~hub.debounce
  BY <1>2, LiveFacts DEF LiveInv, PhaseInv, HubOK, OrderOK
<1>7. HubTypes(hub') /\ Linked(hub')
  <2>1. HubTypes(hub')
    BY <1>3, <1>4, <1>5, LiveFacts, FS_EmptySet DEF HubTypes
  <2>2. Linked(hub')
    BY <1>3, <1>4, <1>5 DEF Linked
  <2> QED
    BY <2>1, <2>2
<1>8. Counted(hub')
  <2>1. Busy(hub') = {} /\ Cardinality({}) = 0
    BY <1>4, FS_EmptySet DEF Busy
  <2>2. hub.orphans \in Nat /\ Cardinality(Busy(hub)) \in Nat /\ MaxConcurrent \in Nat
        /\ hub.running = hub.orphans + Cardinality(Busy(hub)) /\ hub.active = Cardinality(DOMAIN hub.ops)
    BY LiveFacts, HubNumbers DEF HubOK, Counted
  <2>3. hub'.running = 0 /\ hub'.orphans = 0
    BY <1>2, <1>3, <2>2
  <2> QED
    BY <1>3, <1>5, <2>1, <2>2, <2>3 DEF Counted
<1>9. CacheOK(hub')
  <2>1. Cached(hub') = {}
    BY <1>4 DEF Cached
  <2>2. ToSet(<<>>) = {}
    BY ListsEmpty, Zenon DEF Lists
  <2>3. CachedBytes(hub') = {}
    BY <1>3, <2>2 DEF CachedBytes
  <2>4. CacheMaxBytes \in Nat
    BY LiveQueryAssumption
  <2>5. Lists(hub'.replays, Cached(hub'))
    BY <1>3, <2>1, ListsEmpty, Zenon
  <2> QED
    BY <1>3, <2>3, <2>4, <2>5, FS_EmptySet DEF CacheOK
<1>10. OrderOK(hub')
  <2>1. Lists(hub'.order, DOMAIN hub'.shared)
    BY <1>3, <1>4, ListsEmpty, Zenon
  <2> QED
    BY <1>3, <1>4, <1>6, <2>1 DEF OrderOK
<1>11. HubOK(hub')
  BY <1>7, <1>8, <1>9, <1>10 DEF HubOK
<1>12. MarksOK(hub') /\ Pumped(hub')
  BY <1>3, <1>4, <1>6, NoOperations
<1>13. ShownOK(hub')
  BY <1>3, <1>5, LiveFacts DEF ShownOK
<1>14. HubInv' /\ ConnInv'
  BY <1>2, <1>3, <1>11, <1>12, <1>13, ConnSame DEF LiveInv, HubInv
<1>15. [PollNext]_pollVars /\ poller'.on = FALSE
  <2>1. poller \in [on : BOOLEAN, known : BOOLEAN, seen : SUBSET RowId,
                    poll : PollStage, current : BOOLEAN, ids : SUBSET RowId, due : BOOLEAN]
    BY LiveFacts DEF PollerInv, PollTypeOK
  <2>2. CASE poller.on
    BY <1>2, <2>1, <2>2 DEF PollNext, Stop, Stopped
  <2>3. CASE ~poller.on
    BY <1>2, <2>1, <2>3 DEF pollVars, Stopped
  <2> QED
    BY <2>2, <2>3
<1>16. PollerInv'
  BY <1>15, LiveFacts, PollerStep
<1>17. PhaseInv'
  BY <1>2, <1>3, <1>6, <1>15 DEF LiveInv, PhaseInv, Phase
<1>18. RestInv'
  BY <1>3, <1>6 DEF RestInv
<1> QED
  BY <1>2, <1>14, <1>15, <1>16, <1>17, <1>18 DEF LiveInv

-----------------------------------------------------------------------------
(* What always holds.                                                      *)

LEMMA InitLive == Init => LiveInv
<1> SUFFICES ASSUME Init PROVE LiveInv
  OBVIOUS
<1>1. /\ hub.ops = <<>> /\ hub.shared = <<>> /\ hub.order = <<>> /\ hub.initial = <<>> /\ hub.rerun = <<>>
      /\ hub.replays = <<>> /\ hub.active = 0 /\ hub.pending = 0 /\ hub.running = 0 /\ hub.cached = 0
      /\ hub.debounce = FALSE /\ hub.disposed = FALSE /\ hub.orphans = 0 /\ hub.calls = <<>>
      /\ DOMAIN hub = Fields
  BY DEF Init, Fields
<1>2. DOMAIN hub.ops = {} /\ DOMAIN hub.shared = {} /\ ToSet(<<>>) = {}
  <2>1. DOMAIN <<>> = {}
    OBVIOUS
  <2>2. ToSet(<<>>) = {}
    BY ListsEmpty, Zenon DEF Lists
  <2> QED
    BY <1>1, <2>1, <2>2, Zenon
<1>3. /\ MaxConcurrent \in Nat /\ CacheMaxBytes \in Nat /\ MaxMessages \in Nat /\ MaxExecFaults \in Nat
      /\ IsFiniteSet({}) /\ Cardinality({}) = 0
  BY LiveQueryAssumption, FS_EmptySet
<1>4. HubTypes(hub) /\ Linked(hub)
  <2>1. /\ \A s \in DOMAIN hub.ops : FALSE
        /\ \A k \in DOMAIN hub.shared : FALSE
    BY <1>2, Zenon
  <2>2. /\ DOMAIN hub = Fields
        /\ DOMAIN hub.ops \subseteq Conn \X OpId /\ IsFiniteSet(DOMAIN hub.ops)
        /\ DOMAIN hub.shared \subseteq Key /\ IsFiniteSet(DOMAIN hub.shared)
    BY <1>1, <1>2, <1>3, Zenon
  <2>3. hub.debounce \in BOOLEAN /\ hub.disposed \in BOOLEAN
    BY <1>1, Zenon
  <2>4. hub.pending \in Nat /\ hub.orphans \in Nat
    <3>1. hub.pending = 0 /\ hub.orphans = 0 /\ 0 \in Nat
      BY <1>1
    <3> QED
      BY <3>1, Zenon
  <2> QED
    BY <2>1, <2>2, <2>3, <2>4, Zenon DEF HubTypes, Linked
<1>5. Counted(hub)
  <2>1. Busy(hub) = {}
    BY <1>2 DEF Busy
  <2> QED
    BY <1>1, <1>2, <1>3, <2>1 DEF Counted
<1>6. CacheOK(hub)
  <2>1. Cached(hub) = {} /\ CachedBytes(hub) = {}
    BY <1>1, <1>2 DEF Cached, CachedBytes
  <2>2. Lists(hub.replays, Cached(hub))
    BY <1>1, <2>1, ListsEmpty, Zenon
  <2> QED
    BY <1>1, <1>3, <2>1, <2>2 DEF CacheOK
<1>7. OrderOK(hub)
  <2>1. Lists(hub.order, DOMAIN hub.shared)
    BY <1>1, <1>2, ListsEmpty, Zenon
  <2> QED
    BY <1>1, <1>2, <2>1 DEF OrderOK
<1>8. HubInv
  <2>1. MarksOK(hub) /\ Pumped(hub)
    BY <1>1, <1>2, NoOperations
  <2>2. ShownOK(hub)
    BY <1>2 DEF ShownOK
  <2> QED
    BY <1>1, <1>4, <1>5, <1>6, <1>7, <2>1, <2>2 DEF HubInv, HubOK
<1>9. RestInv
  BY <1>2 DEF RestInv
<1>10. PollInit /\ phase = "up" /\ messages = 0 /\ execFaults = 0
       /\ answer \in [Key -> {v \in Value : Size[v] = 1}]
       /\ conn = [c \in Conn |-> [closed |-> FALSE, kicked |-> FALSE, gone |-> FALSE, chain |-> <<>>,
                                  validating |-> FALSE, replaces |-> FALSE]]
  BY DEF Init
<1>11. PollTypeOK
  BY <1>10, PollerAssumption DEF PollInit, PollTypeOK, PollStage
<1>12. PollerInv
  BY <1>10, <1>11 DEF PollInit, PollerInv
<1>13. PhaseInv
  <2>1. poller.on = FALSE
    BY <1>10 DEF PollInit
  <2>2. (hub.active > 0) = FALSE /\ hub.disposed = FALSE
    BY <1>1
  <2>3. phase \in Phase /\ phase = "up" /\ phase \notin {"disposed", "released"}
    BY <1>10 DEF Phase
  <2> QED
    BY <2>1, <2>2, <2>3, Zenon DEF PhaseInv
<1>14. ConnInv
  <2>1. PICK first : first = [closed |-> FALSE, kicked |-> FALSE, gone |-> FALSE, chain |-> <<>>,
                              validating |-> FALSE, replaces |-> FALSE]
    OBVIOUS
  <2>2. <<>> \in Seq(Message)
    BY EmptySeq
  <2>3. first \in Connection /\ first.validating = FALSE
    BY <2>1, <2>2 DEF Connection
  <2>4. conn \in [Conn -> Connection] /\ \A c \in Conn : conn[c] = first
    BY <1>10, <2>1, <2>3
  <2>5. Validating = {}
    BY <2>3, <2>4 DEF Validating
  <2> QED
    BY <1>1, <1>3, <2>3, <2>4, <2>5 DEF ConnInv
<1>15. answer \in [Key -> Value] /\ messages \in 0..MaxMessages /\ execFaults \in 0..MaxExecFaults
  BY <1>3, <1>10
<1> QED
  BY <1>8, <1>9, <1>12, <1>13, <1>14, <1>15 DEF LiveInv

LEMMA NextLive ==
    ASSUME LiveInv, [Next]_vars
    PROVE  LiveInv' /\ [PollNext]_pollVars
<1>1. ASSUME NEW c \in Conn, \/ \E m \in Message : Send(c, m)
                             \/ Close(c) \/ Refuse(c) \/ Subscribe(c) \/ Abandon(c) \/ Accept(c) \/ Complete(c)
      PROVE  LiveInv' /\ [PollNext]_pollVars
  BY <1>1, SendStep, CloseStep, RefuseStep, SubscribeStep, AbandonStep, AcceptStep, CompleteStep
<1>2. ASSUME NEW k \in Key, Execute(k) \/ Succeed(k) \/ Fail(k) \/ Finally(k)
      PROVE  LiveInv' /\ [PollNext]_pollVars
  BY <1>2, ExecuteStep, SucceedStep, FailStep, FinallyStep
<1>3. CASE OrphanEnds \/ Debounced \/ PollCompares \/ PollSteps \/ Transactions \/ Dispose \/ Drained \/ Release
  BY <1>3, OrphanEndsStep, DebouncedStep, PollComparesStep, PollStepsStep, TransactionsStep, DisposeStep,
     DrainedStep, ReleaseStep
<1>4. CASE UNCHANGED vars
  <2>1. /\ hub' = hub /\ UNCHANGED pollVars /\ phase' = phase /\ answer' = answer /\ conn' = conn
        /\ messages' = messages /\ execFaults' = execFaults
    BY <1>4 DEF vars, liveVars
  <2>2. HubInv' /\ PollerInv' /\ PhaseInv' /\ RestInv'
    BY <2>1, HubUntouched
  <2>3. ConnInv'
    BY <2>1, ConnSame DEF LiveInv
  <2> QED
    BY <2>1, <2>2, <2>3 DEF LiveInv
<1> QED
  BY <1>1, <1>2, <1>3, <1>4 DEF Next

\* The invariant holds in every reachable state.
THEOREM LiveInvariant == Spec => []LiveInv
<1>1. Init => LiveInv
  BY InitLive
<1>2. LiveInv /\ [Next]_vars => LiveInv'
  BY NextLive
<1> QED
  BY <1>1, <1>2, PTL DEF Spec


-----------------------------------------------------------------------------
(* What follows from it.                                                   *)

LEMMA ListsOver ==
    ASSUME NEW seq, NEW set, NEW all, Lists(seq, set), set \subseteq all
    PROVE  seq \in Seq(all)
BY SeqMonotonic DEF Lists

\* Types: what the handlers of liveQueryWebSocket.ts keep in their maps,
\* queues and counters is always of the kind the code expects there.
THEOREM LiveTypeCorrect == Spec => []TypeOK
<1>1. ASSUME LiveInv PROVE TypeOK
  <2>1. /\ HubOK(hub) /\ MarksOK(hub) /\ PollTypeOK /\ phase \in Phase /\ conn \in [Conn -> Connection]
        /\ hub.calls = <<>>
    BY <1>1, Zenon DEF LiveInv, HubInv, PollerInv, PhaseInv, ConnInv
  <2>2. HubTypes(hub) /\ Counted(hub) /\ CacheOK(hub) /\ Lists(hub.order, DOMAIN hub.shared)
    BY <2>1, Zenon DEF HubOK, OrderOK
  <2>3. /\ DOMAIN hub.ops \subseteq Conn \X OpId /\ IsFiniteSet(DOMAIN hub.ops)
        /\ \A s \in DOMAIN hub.ops : hub.ops[s] \in Subscription
        /\ DOMAIN hub.shared \subseteq Key /\ IsFiniteSet(DOMAIN hub.shared)
        /\ \A k \in DOMAIN hub.shared : hub.shared[k] \in SharedOperation
        /\ hub.pending \in Nat /\ hub.orphans \in Nat
        /\ hub.debounce \in BOOLEAN /\ hub.disposed \in BOOLEAN
    BY <2>2, Zenon DEF HubTypes
  <2>4. hub.order \in Seq(Key) /\ hub.initial \in Seq(Key) /\ hub.rerun \in Seq(Key) /\ hub.replays \in Seq(Key)
    <3>1. /\ Lists(hub.initial, Marked(hub, "initial")) /\ Lists(hub.rerun, Marked(hub, "rerun"))
          /\ Lists(hub.replays, Cached(hub))
      BY <2>1, <2>2, Zenon DEF MarksOK, CacheOK
    <3>2. Marked(hub, "initial") \subseteq Key /\ Marked(hub, "rerun") \subseteq Key /\ Cached(hub) \subseteq Key
      BY <2>3 DEF Marked, Cached
    <3> QED
      BY <2>2, <2>3, <3>1, <3>2, ListsOver, Zenon
  <2>5. \A n \in {"active", "pending", "running", "cached", "orphans"} : hub[n] \in Nat
    <3>1. hub.active \in Nat
      BY <2>2, <2>3, FS_CardinalityType, Zenon DEF Counted
    <3>2. hub.cached \in Nat
      BY <2>2, FS_CardinalityType, Zenon DEF CacheOK
    <3>3. hub.running \in Nat
      <4>1. PICK n : n = Cardinality(Busy(hub))
        OBVIOUS
      <4>2. n \in Nat
        BY <2>3, <4>1, FS_Subset, FS_CardinalityType, Busy(hub) \subseteq DOMAIN hub.shared DEF Busy
      <4>3. hub.running = hub.orphans + n
        BY <2>2, <4>1, Zenon DEF Counted
      <4> QED
        BY <2>3, <4>2, <4>3
    <3> QED
      BY <2>3, <3>1, <3>2, <3>3, Zenon
  <2>6. answer \in [Key -> Value] /\ messages \in 0..MaxMessages /\ execFaults \in 0..MaxExecFaults
    BY <1>1 DEF LiveInv
  <2> QED
    BY <2>1, <2>3, <2>4, <2>5, <2>6, Zenon DEF TypeOK
<1> QED
  BY <1>1, LiveInvariant, PTL

LEMMA ListsConcat ==
    ASSUME NEW A, NEW a, NEW B, NEW b, Lists(a, A), Lists(b, B), A \cap B = {}
    PROVE  Lists(a \o b, A \cup B)
<1>1. PICK all, new, m, n : all = A \cup B /\ new = a \o b /\ m = Len(a) /\ n = Len(b)
  OBVIOUS
<1>2. a \in Seq(all) /\ b \in Seq(all) /\ m \in Nat /\ n \in Nat
  <2>1. A \subseteq all /\ B \subseteq all
    BY <1>1
  <2> QED
    BY <1>1, <2>1, ListsOver, ListsAre
<1>3. new \in Seq(all) /\ Len(new) = m + n
      /\ \A i \in 1..m + n : new[i] = IF i <= m THEN a[i] ELSE b[i - m]
  BY <1>1, <1>2, ConcatProperties, ZenonT(40)
<1>4. /\ \A i \in 1..m : a[i] \in A
      /\ \A i, j \in 1..m : a[i] = a[j] => i = j
      /\ \A x \in A : \E i \in 1..m : a[i] = x
  BY <1>1, ListsAre
<1>5. /\ \A i \in 1..n : b[i] \in B
      /\ \A i, j \in 1..n : b[i] = b[j] => i = j
      /\ \A x \in B : \E i \in 1..n : b[i] = x
  BY <1>1, ListsAre
<1>6. ASSUME NEW i \in 1..m + n
      PROVE  \/ i \in 1..m /\ new[i] = a[i]
             \/ i \notin 1..m /\ i - m \in 1..n /\ new[i] = b[i - m]
  <2>1. new[i] = IF i <= m THEN a[i] ELSE b[i - m]
    BY <1>3
  <2>2. IF i <= m THEN i \in 1..m ELSE i \notin 1..m /\ i - m \in 1..n
    BY <1>2
  <2> QED
    BY <2>1, <2>2, Zenon
<1>7. ASSUME NEW i \in 1..Len(new), NEW j \in 1..Len(new), new[i] = new[j] PROVE i = j
  <2>1. i \in 1..m + n /\ j \in 1..m + n /\ i \in Int /\ j \in Int
    BY <1>2, <1>3
  <2>2. CASE i \in 1..m /\ j \in 1..m
    BY <1>4, <1>6, <1>7, <2>1, <2>2
  <2>3. CASE i \in 1..m /\ j \notin 1..m
    <3>1. a[i] \in A /\ new[i] = a[i] /\ b[j - m] \in B /\ new[j] = b[j - m]
      BY <1>4, <1>5, <1>6, <2>1, <2>3
    <3> QED
      BY <1>7, <3>1
  <2>4. CASE i \notin 1..m /\ j \in 1..m
    <3>1. a[j] \in A /\ new[j] = a[j] /\ b[i - m] \in B /\ new[i] = b[i - m]
      BY <1>4, <1>5, <1>6, <2>1, <2>4
    <3> QED
      BY <1>7, <3>1
  <2>5. CASE i \notin 1..m /\ j \notin 1..m
    <3>1. i - m \in 1..n /\ new[i] = b[i - m] /\ j - m \in 1..n /\ new[j] = b[j - m]
      BY <1>6, <2>1, <2>5
    <3>2. i - m = j - m
      BY <1>5, <1>7, <3>1
    <3> QED
      BY <1>2, <2>1, <3>2
  <2> QED
    BY <2>2, <2>3, <2>4, <2>5
<1>8. ASSUME NEW x \in all PROVE \E i \in 1..Len(new) : new[i] = x
  <2>1. CASE x \in A
    <3>1. PICK i \in 1..m : a[i] = x
      BY <1>4, <2>1
    <3>2. i \in 1..Len(new) /\ new[i] = x
      BY <1>2, <1>3, <3>1
    <3> QED
      BY <3>2
  <2>2. CASE x \in B
    <3>1. PICK i \in 1..n : b[i] = x
      BY <1>5, <2>2
    <3>2. PICK j : j = i + m
      OBVIOUS
    <3>3. j \in 1..m + n /\ new[j] = b[i]
      <4>1. i \in Int /\ 1 <= i /\ i <= n /\ j = i + m
        BY <1>2, <3>1, <3>2
      <4>2. j \in 1..m + n /\ ~(j <= m)
        BY <1>2, <4>1
      <4>3. j - m = i
        BY <1>2, <4>1
      <4>4. new[j] = b[j - m]
        BY <1>3, <4>2
      <4> QED
        BY <4>2, <4>3, <4>4, Zenon
    <3> QED
      BY <1>3, <3>1, <3>3, Zenon
  <2> QED
    BY <1>1, <1>8, <2>1, <2>2
<1>9. Lists(new, all)
  <2>1. new \in Seq(all)
    BY <1>3
  <2> QED
    BY <1>7, <1>8, <2>1, ListsBy, Zenon
<1> QED
  BY <1>1, <1>9

\* The two queues together list what is marked as queued.
LEMMA QueueLists ==
    ASSUME HubInv
    PROVE  Lists(hub.initial \o hub.rerun, {k \in DOMAIN hub.shared : hub.shared[k].queued # "no"})
<1>1. Lists(hub.initial, Marked(hub, "initial")) /\ Lists(hub.rerun, Marked(hub, "rerun"))
  BY Zenon DEF HubInv, MarksOK
<1>2. Marked(hub, "initial") \cap Marked(hub, "rerun") = {}
  BY DEF Marked
<1>3. Lists(hub.initial \o hub.rerun, Marked(hub, "initial") \cup Marked(hub, "rerun"))
  BY <1>1, <1>2, ListsConcat, Zenon
<1>4. \A k \in DOMAIN hub.shared : hub.shared[k].queued \in {"no", "initial", "rerun"}
  BY DEF HubInv, HubOK, HubTypes, SharedOperation
<1>5. Marked(hub, "initial") \cup Marked(hub, "rerun") = {k \in DOMAIN hub.shared : hub.shared[k].queued # "no"}
  BY <1>4 DEF Marked
<1> QED
  BY <1>3, <1>5, Zenon

LEMMA AccountingHolds == LiveInv => Accounting
<1> SUFFICES ASSUME LiveInv PROVE Accounting
  OBVIOUS
<1>1. HubOK(hub) /\ PhaseInv /\ ConnInv
  BY Zenon DEF LiveInv, HubInv
<1>2. Counted(hub) /\ CacheOK(hub) /\ OrderOK(hub)
  BY <1>1, Zenon DEF HubOK
<1>3. hub.active = Cardinality(DOMAIN hub.ops) /\ hub.running <= MaxConcurrent
  BY <1>2, Zenon DEF Counted
<1>4. hub.running = hub.orphans + Cardinality({k \in DOMAIN hub.shared : hub.shared[k].stage # "idle"})
  BY <1>2, Zenon DEF Counted, Busy
<1>5. hub.pending = Cardinality({c \in Conn : conn[c].validating /\ ~conn[c].replaces})
  BY <1>1, Zenon DEF ConnInv, Validating
<1>6. /\ hub.cached = Cardinality(CachedBytes(hub)) /\ hub.cached <= CacheMaxBytes
      /\ ToSet(hub.replays) = Cached(hub)
  BY <1>2, Zenon DEF CacheOK, Lists
<1>7. ToSet(hub.replays) \subseteq DOMAIN hub.shared
  BY <1>6 DEF Cached
<1>8. phase = "up" => poller.on = (hub.active > 0)
  BY <1>1, Zenon DEF PhaseInv
<1>9. phase \in {"disposed", "released"} => hub.running = 0 /\ ~hub.debounce
  <2>1. phase \in {"disposed", "released"} => phase # "up"
    OBVIOUS
  <2> QED
    BY <1>1, <1>2, <2>1, Zenon DEF PhaseInv, OrderOK
<1> QED
  BY <1>3, <1>4, <1>5, <1>6, <1>7, <1>8, <1>9, Zenon DEF Accounting

LEMMA QueuesHold == LiveInv => QueuesConsistent
<1> SUFFICES ASSUME LiveInv PROVE QueuesConsistent
  OBVIOUS
<1>1. HubInv
  BY Zenon DEF LiveInv
<1>2. PICK queue, marked : queue = hub.initial \o hub.rerun
                           /\ marked = {k \in DOMAIN hub.shared : hub.shared[k].queued # "no"}
  OBVIOUS
<1>3. IsInjective(queue) /\ ToSet(queue) = marked
  BY <1>1, <1>2, QueueLists, Zenon DEF Lists
<1>4. \A k \in marked : /\ k \in DOMAIN hub.shared /\ hub.shared[k].queued # "no"
                        /\ hub.shared[k].stage = "idle" /\ Subscribers(hub, k) # {}
  <2>1. \A k \in DOMAIN hub.shared : OpOK(hub.shared[k]) /\ Subscribers(hub, k) # {}
    BY <1>1, Zenon DEF HubInv, HubOK, OrderOK, Linked
  <2>2. \A k \in DOMAIN hub.shared : hub.shared[k].queued # "no" => hub.shared[k].stage = "idle"
    BY <2>1, Zenon DEF OpOK
  <2> QED
    BY <1>2, <2>1, <2>2
<1>5. queue # <<>> => hub.running = MaxConcurrent
  <2>1. hub.initial = <<>> /\ hub.rerun = <<>> => queue = <<>>
    BY <1>2
  <2> QED
    BY <1>1, <2>1, Zenon DEF HubInv, Pumped
<1>6. \A k \in DOMAIN hub.shared : hub.shared[k].queued # "no" => k \in marked
  BY <1>2
<1> QED
  BY <1>2, <1>3, <1>4, <1>5, <1>6, Zenon DEF QueuesConsistent

\* The counters, marks, queues and the cache of liveQueryWebSocket.ts agree
\* with what they count and list, whichever handlers run, fail or overtake one
\* another: subscribe, deleteOperation, enqueue, pumpQueue, cacheReplay, dispose.
THEOREM CountersAgree == Spec => []HubConsistent
<1>1. LiveInv => HubConsistent
  BY AccountingHolds, QueuesHold, Zenon DEF HubConsistent
<1> QED
  BY <1>1, LiveInvariant, PTL

\* No invalidation is lost between a commit, the poll that signals it, its
\* debounce and the rerun of executeOperation: once all of that is over, each
\* subscription shows the present answer, unless the last execution failed, the
\* client was told of an error, or it joined between the end of an execution
\* and its finally.
THEOREM RestShowsAnswers == Spec => []RestIsCurrent
<1>1. ASSUME LiveInv, AtRest, NEW s \in DOMAIN hub.ops PROVE IsCurrent(s)
  <2>1. HubInv /\ RestInv /\ HubTypes(hub) /\ Linked(hub) /\ OrderOK(hub) /\ ShownOK(hub) /\ Counted(hub)
    BY <1>1, Zenon DEF LiveInv, HubInv, HubOK
  <2>2. ~Outstanding /\ ~hub.disposed /\ hub.running = 0 /\ hub.initial \o hub.rerun = <<>>
    BY <1>1, Zenon DEF AtRest, Outstanding
  <2>3. hub.ops[s].attached /\ \A k \in DOMAIN hub.shared : Fresh(hub, k, answer[k])
    BY <2>1, <2>2, Zenon DEF RestInv
  <2>4. PICK k, op : k = hub.ops[s].key /\ op = hub.shared[k]
    OBVIOUS
  <2>5. k \in DOMAIN hub.shared /\ s \in Subscribers(hub, k)
    BY <2>1, <2>3, <2>4, Zenon DEF Linked, Subscribers
  <2>6. op.queued = "no"
    <3>1. PICK marked : marked = {j \in DOMAIN hub.shared : hub.shared[j].queued # "no"}
      OBVIOUS
    <3>2. Lists(<<>>, marked)
      BY <2>1, <2>2, <3>1, QueueLists, Zenon
    <3>3. marked = {}
      BY <3>2, ListsEmpty, Zenon
    <3> QED
      BY <2>4, <2>5, <3>1, <3>3
  <2>7. op.stage = "idle"
    <3>1. PICK busy, n : busy = Busy(hub) /\ n = Cardinality(busy)
      OBVIOUS
    <3>2. IsFiniteSet(busy) /\ n \in Nat
      BY <2>1, <3>1, FS_Subset, FS_CardinalityType, Busy(hub) \subseteq DOMAIN hub.shared DEF Busy, HubTypes
    <3>3. hub.orphans \in Nat /\ 0 = hub.orphans + n
      BY <2>1, <2>2, <3>1, Zenon DEF Counted, HubTypes
    <3>4. n = 0
      BY <3>2, <3>3
    <3>5. busy = {}
      BY <3>1, <3>2, <3>4, FS_EmptySet, Zenon
    <3> QED
      BY <2>4, <2>5, <3>1, <3>5 DEF Busy
  <2>8. ~op.again
    BY <2>1, <2>4, <2>5, <2>7, Zenon DEF OrderOK, OpOK
  <2>9. ~ToCome(op)
    BY <2>6, <2>7, <2>8 DEF ToCome
  <2>10. \/ op.failed
         \/ op.result = answer[k] /\ (hub.ops[s].needsInitial => hub.ops[s].late \/ hub.ops[s].shown = "error")
    <3>1. Fresh(hub, k, answer[k])
      BY <2>3, <2>5, Zenon
    <3> QED
      BY <2>4, <2>5, <2>7, <2>9, <3>1 DEF Fresh
  <2>11. /\ hub.ops[s].needsInitial => hub.ops[s].shown \in {None, "error"}
         /\ ~hub.ops[s].needsInitial => hub.ops[s].shown \in {op.result, "error"}
    BY <2>1, <2>3, <2>4, Zenon DEF ShownOK
  <2> QED
    BY <2>4, <2>10, <2>11 DEF IsCurrent
<1>2. LiveInv => RestIsCurrent
  BY <1>1, Zenon DEF RestIsCurrent
<1> QED
  BY <1>2, LiveInvariant, PTL

\* Whatever the handlers and the runtime do, the poller inside them behaves as
\* InvalidationPoller.tla says: they only start it, stop it and let it run.
THEOREM ImplementsPoller == Spec => PollSpec
<1>1. Init => PollInit
  BY DEF Init
<1>2. LiveInv /\ [Next]_vars => [PollNext]_pollVars
  BY NextLive
<1> QED
  BY <1>1, <1>2, LiveInvariant, PTL DEF Spec, PollSpec
=============================================================================
