------------------------- MODULE PlaylistTabs_proofs -------------------------
(***************************************************************************)
(* No tab overwrites or drops an edit, and one that shows "saved" shows    *)
(* what is stored: what PlaylistTabs.tla promises for any number of tabs,  *)
(* playlists, edits and failures.                                          *)
(***************************************************************************)
EXTENDS PlaylistTabs, TLAPS

\* The versions of the playlists a tab shows, its baseline and what its running
\* operation carries, and the stored ones.
Seen(t) == tab[t].view.rec
Base(t) == tab[t].baseline
Held(t) == tab[t].held.rec
Rec == db.rec

-----------------------------------------------------------------------------
(* The inductive invariant.                                                *)

Edits == Seq(Int)
Records == [rec : [Playlist -> Edits], active : Playlist \cup {None}]
TabState == [life : {"closed", "loading", "loaded", "ready"}, view : Records,
             baseline : [Playlist -> Edits], status : {"idle", "loading", "saving", "saved", "error"},
             timer : BOOLEAN, queue : Seq({"save", "refresh"}),
             job : {"none", "saving", "stored", "reading", "read"}, held : Records,
             listening : BOOLEAN, mail : Nat]

TabsTyped ==
    /\ db \in Records
    /\ tab \in [Tab -> TabState]
    /\ edits \in Nat

\* Only a page that is up has anything to do, and the operation that runs is the
\* first of the queue.
Orderly(s) ==
    /\ s.life # "ready" => /\ s.job = "none" /\ s.queue = <<>> /\ ~s.timer
                           /\ s.mail = 0 /\ ~s.listening
    /\ s.job # "none" => s.queue # <<>>

TabsOrderly == \A t \in Tab : Orderly(tab[t])

\* Nothing follows a deletion.
Final(v) == \A i \in 1..Len(v) - 1 : v[i] >= 0

DeletionIsLast ==
    \A p \in Playlist : Final(Rec[p]) /\ \A t \in Tab : Final(Seen(t)[p]) /\ Final(Held(t)[p])

\* What is carried lies between the versions it came from and goes to.
Ordered(t, p) ==
    /\ IsPrefix(Base(t)[p], Seen(t)[p])
    /\ tab[t].job \in {"saving", "stored"} => /\ IsPrefix(Base(t)[p], Held(t)[p])
                                              /\ IsPrefix(Held(t)[p], Seen(t)[p])
    /\ tab[t].job = "stored" => Extends(Rec[p], Held(t)[p])
    /\ tab[t].job = "read" => Extends(Held(t)[p], Base(t)[p])
    /\ tab[t].job = "read" \/ tab[t].life = "loaded" => IsPrefix(Held(t)[p], Rec[p])
    /\ Extends(Rec[p], Base(t)[p])

\* A playlist that has not been stored is known to nobody but its tab.
Unstored(t, p) == Base(t)[p] = <<>> /\ Seen(t)[p] # <<>>

Own(t, p) ==
    /\ Rec[p] = <<>>
    /\ \A u \in Tab \ {t} : Seen(u)[p] = <<>> /\ Held(u)[p] = <<>>

OwnUntilStored(t, p) ==
    Unstored(t, p) => Own(t, p) \/ (tab[t].job = "stored" /\ Held(t)[p] # <<>>)

HeldInOrder == \A t \in Tab, p \in Playlist : Ordered(t, p)
UnstoredIsOwn == \A t \in Tab, p \in Playlist : OwnUntilStored(t, p)

TabsInv == TabsTyped /\ TabsOrderly /\ DeletionIsLast /\ HeldInOrder /\ UnstoredIsOwn

-----------------------------------------------------------------------------
(* Versions.                                                               *)

\* A prefix agrees with the whole at each of its places.
LEMMA PrefixIff ==
    ASSUME NEW v \in Edits, NEW w \in Edits
    PROVE  IsPrefix(v, w) <=> Len(v) <= Len(w) /\ \A i \in 1..Len(v) : v[i] = w[i]
<1>1. ASSUME Len(v) <= Len(w)
      PROVE  /\ SubSeq(v, 1, Len(v)) = [i \in 1..Len(v) |-> v[i]]
             /\ SubSeq(w, 1, Len(v)) = [i \in 1..Len(v) |-> w[i]]
  BY <1>1 DEF Edits
<1> QED
  BY <1>1 DEF IsPrefix, Edits

\* A version is a prefix of itself.
LEMMA PrefixSelf ==
    ASSUME NEW v \in Edits
    PROVE  IsPrefix(v, v)
BY PrefixIff DEF Edits

\* Being a prefix is transitive.
LEMMA PrefixTrans ==
    ASSUME NEW u \in Edits, NEW v \in Edits, NEW w \in Edits, IsPrefix(u, v), IsPrefix(v, w)
    PROVE  IsPrefix(u, w)
<1>1. Len(u) <= Len(v) /\ Len(v) <= Len(w) /\ Len(u) \in Nat /\ Len(v) \in Nat /\ Len(w) \in Nat
  BY PrefixIff DEF Edits
<1>2. \A i \in 1..Len(u) : u[i] = v[i] /\ i \in 1..Len(v) /\ v[i] = w[i]
  BY <1>1, PrefixIff
<1> QED
  BY <1>1, <1>2, PrefixIff

\* The empty version is everyone's prefix, and has no other.
LEMMA PrefixOfEmpty ==
    ASSUME NEW v \in Edits
    PROVE  /\ IsPrefix(<<>>, v)
           /\ IsPrefix(v, <<>>) <=> v = <<>>
<1>1. <<>> \in Edits /\ Len(<<>>) = 0 /\ Len(v) \in Nat
  BY DEF Edits
<1>2. IsPrefix(<<>>, v) <=> Len(<<>>) <= Len(v) /\ \A i \in 1..Len(<<>>) : <<>>[i] = v[i]
  BY <1>1, PrefixIff
<1>3. IsPrefix(v, <<>>) => Len(v) = 0
  BY <1>1, PrefixIff
<1>4. Len(v) = 0 => v = <<>>
  BY DEF Edits
<1>5. IsPrefix(<<>>, v)
  BY <1>1, <1>2
<1>6. v = <<>> => IsPrefix(v, <<>>)
  BY <1>5
<1> QED
  BY <1>3, <1>4, <1>5, <1>6

\* An edit extends the version it is made to.
LEMMA PrefixOfAppend ==
    ASSUME NEW v \in Edits, NEW e \in Int
    PROVE  Append(v, e) \in Edits /\ IsPrefix(v, Append(v, e)) /\ Append(v, e) # <<>>
<1>1. Append(v, e) \in Edits /\ Len(Append(v, e)) = Len(v) + 1 /\ Len(v) \in Nat
  BY DEF Edits
<1>2. \A i \in 1..Len(v) : Append(v, e)[i] = v[i]
  BY DEF Edits
<1>3. Append(v, e) # <<>>
  <2>1. Len(Append(v, e)) # 0
    BY <1>1
  <2>2. Len(<<>>) = 0
    OBVIOUS
  <2> QED
    BY <2>1, <2>2
<1>4. IsPrefix(v, Append(v, e)) <=>
          /\ Len(v) <= Len(Append(v, e))
          /\ \A i \in 1..Len(v) : v[i] = Append(v, e)[i]
  BY <1>1, PrefixIff
<1> QED
  BY <1>1, <1>2, <1>3, <1>4

\* A version that is there may be edited or deleted.
LEMMA FinalAppend ==
    ASSUME NEW v \in Edits, Final(v), ~Absent(v), NEW e \in Int
    PROVE  Final(Append(v, e))
<1>1. Len(Append(v, e)) = Len(v) + 1 /\ Len(v) \in Nat
  BY DEF Edits
<1>2. \A i \in 1..Len(v) : Append(v, e)[i] = v[i] /\ v[i] \in Int
  BY DEF Edits
<1>3. ~(v[Len(v)] < 0)
  BY DEF Absent, Last
<1> QED
  BY <1>1, <1>2, <1>3 DEF Final

\* A deleted version is nobody's proper prefix.
LEMMA AbsentPrefix ==
    ASSUME NEW v \in Edits, NEW w \in Edits, Final(w), IsPrefix(v, w), Absent(v), v # <<>>
    PROVE  v = w
<1>1. Len(v) <= Len(w) /\ Len(v) \in Nat /\ Len(w) \in Nat
  BY PrefixIff DEF Edits
<1>2. \A i \in 1..Len(v) : v[i] = w[i]
  BY PrefixIff
<1>3. Len(v) # 0 /\ v[Len(v)] < 0
  BY DEF Absent, Last, Edits
<1>4. w[Len(v)] < 0
  BY <1>1, <1>2, <1>3
<1>5. v[Len(v)] \in Int /\ w[Len(v)] \in Int
  BY <1>1, <1>3 DEF Edits
<1>6. ~(Len(v) \in 1..Len(w) - 1)
  BY <1>4, <1>5 DEF Final
<1>7. Len(w) = Len(v)
  BY <1>1, <1>3, <1>6
<1>8. v = [i \in 1..Len(v) |-> v[i]] /\ w = [i \in 1..Len(w) |-> w[i]]
  BY DEF Edits
<1> QED
  BY <1>2, <1>7, <1>8

-----------------------------------------------------------------------------
(* Types.                                                                  *)

\* A page that is not up is a tab like any other.
LEMMA ClosedTyped == Closed \in TabState
BY DEF Closed, Nothing, TabState, Records, Edits

\* The versions of tab t become these, and those of the others stay.
Moves(t, seen, base, held, job) ==
    /\ Seen(t)' = seen /\ Base(t)' = base /\ Held(t)' = held /\ tab'[t].job = job
    /\ \A u \in Tab \ {t} :
          /\ Seen(u)' = Seen(u) /\ Base(u)' = Base(u) /\ Held(u)' = Held(u)
          /\ tab'[u].job = tab[u].job /\ tab'[u].life = tab[u].life

NoRecords == [p \in Playlist |-> <<>>]

Typed == TabsTyped /\ TabsOrderly

\* A step that assigns one tab moves only that one.
LEMMA OneTabMoves ==
    ASSUME Typed, NEW t \in Tab, NEW s \in TabState, tab' = [tab EXCEPT ![t] = s],
           db' \in Records, edits' \in Nat, Orderly(s)
    PROVE  Typed' /\ Moves(t, s.view.rec, s.baseline, s.held.rec, s.job) /\ tab'[t].life = s.life
BY DEF Typed, TabsTyped, TabsOrderly, Moves, Seen, Base, Held

\* What is known of one tab.
LEMMA TypedTab ==
    ASSUME Typed, NEW t \in Tab
    PROVE  /\ tab[t] \in TabState /\ tab \in [Tab -> TabState] /\ db \in Records
           /\ edits \in Nat /\ Orderly(tab[t])
BY DEF Typed, TabsTyped, TabsOrderly

\* An edit changes what its tab shows and nothing else.
LEMMA ShowsMoves ==
    ASSUME Typed, NEW t \in Tab, NEW rec \in [Playlist -> Edits], NEW active \in Playlist \cup {None},
           Shows(t, rec, active), CanEdit(t), edits' = edits + 1, db' = db
    PROVE  /\ Typed' /\ tab'[t].life # "loaded"
           /\ Moves(t, rec, Base(t), Held(t), tab[t].job)
<1>1. /\ tab[t] \in TabState /\ tab \in [Tab -> TabState] /\ db \in Records /\ edits \in Nat
      /\ Orderly(tab[t])
  BY TypedTab
<1> DEFINE view == [rec |-> rec, active |-> active]
           s == ScheduleSave([tab[t] EXCEPT !.view = view])
<1>2. view \in Records /\ view.rec = rec
  BY DEF Records
<1>3. tab' = [tab EXCEPT ![t] = s] /\ tab[t].life = "ready" /\ edits' \in Nat
  BY <1>1 DEF CanEdit, Shows
<1> HIDE DEF view
<1>4. /\ s \in TabState /\ s.life = "ready" /\ s.job = tab[t].job /\ s.queue = tab[t].queue
      /\ s.view = view /\ s.baseline = tab[t].baseline /\ s.held = tab[t].held
  BY <1>1, <1>2, <1>3 DEF ScheduleSave, TabState
<1> HIDE DEF s
<1>5. Orderly(s)
  BY <1>1, <1>4 DEF Orderly
<1>6. Typed' /\ Moves(t, s.view.rec, s.baseline, s.held.rec, s.job) /\ tab'[t].life = s.life
  BY <1>1, <1>3, <1>4, <1>5, OneTabMoves
<1> QED
  BY <1>2, <1>4, <1>6 DEF Moves, Base, Held

\* A tab goes on to its next operation, or is asked to; nothing it shows changes.
Quiet(t) ==
    \/ Open(t) \/ HydrateFails(t) \/ PersistNow(t) \/ Synchronize(t) \/ RefreshBegins(t)
    \/ \E p \in Playlist : SetActive(t, p)

\* What a tab shows, is based on and carries stays.
LEMMA QuietMoves ==
    ASSUME Typed, NEW t \in Tab, Quiet(t)
    PROVE  /\ Typed' /\ tab'[t].life # "loaded" /\ Rec' = Rec
           /\ \E job : /\ Moves(t, Seen(t), Base(t), Held(t), job)
                       /\ job = tab[t].job \/ (tab[t].job = "none" /\ job = "reading")
<1>1. /\ tab[t] \in TabState /\ tab \in [Tab -> TabState] /\ db \in Records /\ edits \in Nat
      /\ Orderly(tab[t])
  BY TypedTab
<1>2. CASE Open(t)
  <2> DEFINE s == [tab[t] EXCEPT !.life = "loading", !.status = "loading"]
  <2>2. s \in TabState /\ tab' = [tab EXCEPT ![t] = s] /\ db' = db /\ edits' \in Nat
    BY <1>1, <1>2 DEF Open, Next1, TabState, Records
  <2>3. /\ s.life = "loading"
        /\ s.job = tab[t].job
        /\ s.view = tab[t].view
        /\ s.baseline = tab[t].baseline
        /\ s.held = tab[t].held
    BY <1>1, <1>2 DEF Open, Next1, TabState, Records, Orderly
  <2>4. Orderly(s)
    BY <1>1, <1>2 DEF Open, Next1, TabState, Records, Orderly
  <2> HIDE DEF s
  <2> QED
    BY <1>1, <1>2, <2>2, <2>3, <2>4, OneTabMoves DEF Moves, Seen, Base, Held, Rec
<1>3. CASE HydrateFails(t)
  <2> DEFINE s == [tab[t] EXCEPT !.life = "ready", !.status = "error"]
  <2>2. s \in TabState /\ tab' = [tab EXCEPT ![t] = s] /\ db' = db /\ edits' \in Nat
    BY <1>1, <1>3 DEF HydrateFails, Next1, TabState, Records
  <2>3. /\ s.life = "ready"
        /\ s.job = tab[t].job
        /\ s.view = tab[t].view
        /\ s.baseline = tab[t].baseline
        /\ s.held = tab[t].held
    BY <1>1, <1>3 DEF HydrateFails, Next1, TabState, Records, Orderly
  <2>4. Orderly(s)
    BY <1>1, <1>3 DEF HydrateFails, Next1, TabState, Records, Orderly
  <2> HIDE DEF s
  <2> QED
    BY <1>1, <1>3, <2>2, <2>3, <2>4, OneTabMoves DEF Moves, Seen, Base, Held, Rec
<1>4. CASE PersistNow(t)
  <2> DEFINE s == [tab[t] EXCEPT !.timer = FALSE, !.queue = Append(@, "save")]
  <2>1. Append(tab[t].queue, "save") \in Seq({"save", "refresh"}) \ {<<>>}
    BY <1>1, <1>4 DEF TabState
  <2>2. s \in TabState /\ tab' = [tab EXCEPT ![t] = s] /\ db' = db /\ edits' \in Nat
    BY <1>1, <1>4, <2>1 DEF PersistNow, Next1, TabState, Records
  <2>3. /\ s.life = "ready"
        /\ s.job = tab[t].job
        /\ s.view = tab[t].view
        /\ s.baseline = tab[t].baseline
        /\ s.held = tab[t].held
    BY <1>1, <1>4, <2>1 DEF PersistNow, Next1, TabState, Records, Orderly
  <2>4. Orderly(s)
    BY <1>1, <1>4, <2>1 DEF PersistNow, Next1, TabState, Records, Orderly
  <2> HIDE DEF s
  <2> QED
    BY <1>1, <1>4, <2>1, <2>2, <2>3, <2>4, OneTabMoves DEF Moves, Seen, Base, Held, Rec
<1>5. CASE Synchronize(t)
  <2> DEFINE s == [tab[t] EXCEPT !.mail = @ - 1, !.queue = Append(@, "refresh")]
  <2>1. Append(tab[t].queue, "refresh") \in Seq({"save", "refresh"}) \ {<<>>}
    BY <1>1, <1>5 DEF TabState
  <2>2. s \in TabState /\ tab' = [tab EXCEPT ![t] = s] /\ db' = db /\ edits' \in Nat
    BY <1>1, <1>5, <2>1 DEF Synchronize, Next1, TabState, Records
  <2>3. /\ s.life = "ready"
        /\ s.job = tab[t].job
        /\ s.view = tab[t].view
        /\ s.baseline = tab[t].baseline
        /\ s.held = tab[t].held
    BY <1>1, <1>5, <2>1 DEF Synchronize, Next1, TabState, Records, Orderly
  <2>4. Orderly(s)
    BY <1>1, <1>5, <2>1 DEF Synchronize, Next1, TabState, Records, Orderly
  <2> HIDE DEF s
  <2> QED
    BY <1>1, <1>5, <2>1, <2>2, <2>3, <2>4, OneTabMoves DEF Moves, Seen, Base, Held, Rec
<1>6. CASE RefreshBegins(t)
  <2> DEFINE s == [tab[t] EXCEPT !.job = "reading"]
  <2>2. s \in TabState /\ tab' = [tab EXCEPT ![t] = s] /\ db' = db /\ edits' \in Nat
    BY <1>1, <1>6 DEF RefreshBegins, Next1, TabState, Records
  <2>3. /\ s.life = "ready"
        /\ s.job = "reading"
        /\ tab[t].job = "none"
        /\ s.view = tab[t].view
        /\ s.baseline = tab[t].baseline
        /\ s.held = tab[t].held
    BY <1>1, <1>6 DEF RefreshBegins, Next1, TabState, Records, Orderly
  <2>4. Orderly(s)
    BY <1>1, <1>6 DEF RefreshBegins, Next1, TabState, Records, Orderly
  <2> HIDE DEF s
  <2> QED
    BY <1>1, <1>6, <2>2, <2>3, <2>4, OneTabMoves DEF Moves, Seen, Base, Held, Rec
<1>7. ASSUME NEW p \in Playlist, SetActive(t, p)
      PROVE  /\ Typed' /\ tab'[t].life # "loaded" /\ Rec' = Rec
             /\ Moves(t, Seen(t), Base(t), Held(t), tab[t].job)
  <2>1. tab[t].view.rec \in [Playlist -> Edits]
    BY <1>1 DEF TabState, Records
  <2> QED
    BY <1>7, <2>1, ShowsMoves DEF SetActive, Seen, Rec
<1> QED
  BY <1>2, <1>3, <1>4, <1>5, <1>6, <1>7 DEF Quiet

\* What is left of a tab whose operation has ended.
LEMMA EndedTab ==
    ASSUME Typed, NEW t \in Tab, tab[t].life = "ready", tab[t].queue # <<>>
    PROVE  /\ Ended(tab[t]) \in TabState
           /\ Ended(tab[t]).life = "ready" /\ Ended(tab[t]).job = "none"
           /\ Ended(tab[t]).view = tab[t].view /\ Ended(tab[t]).baseline = tab[t].baseline
           /\ Ended(tab[t]).held.rec = NoRecords
<1>1. tab[t] \in TabState
  BY TypedTab
<1>2. Tail(tab[t].queue) \in Seq({"save", "refresh"})
  BY <1>1 DEF TabState
<1>3. Nothing \in Records /\ Nothing.rec = NoRecords
  BY DEF Nothing, NoRecords, Records, Edits
<1> QED
  BY <1>1, <1>2, <1>3 DEF Ended, TabState

\* An operation ends without having changed anything.
Ends(t) == RefreshSkipped(t) \/ RefreshFails(t) \/ SaveAborts(t)

\* The tab carries nothing any more.
LEMMA EndsMoves ==
    ASSUME Typed, NEW t \in Tab, Ends(t)
    PROVE  /\ Typed' /\ tab'[t].life # "loaded" /\ Rec' = Rec
           /\ Moves(t, Seen(t), Base(t), NoRecords, "none")
           /\ tab[t].job # "stored"
<1>1. /\ tab[t] \in TabState /\ tab \in [Tab -> TabState] /\ db \in Records /\ edits \in Nat
      /\ Orderly(tab[t])
  BY TypedTab
<1>2. CASE RefreshSkipped(t)
  <2> DEFINE e == Ended(tab[t])
             s == e
  <2>1. tab[t].life = "ready" /\ tab[t].queue # <<>> /\ tab[t].job # "stored"
    BY <1>1, <1>2 DEF RefreshSkipped, Next1, Orderly
  <2>2. tab' = [tab EXCEPT ![t] = s] /\ db' = db /\ edits' \in Nat
    BY <1>1, <1>2 DEF RefreshSkipped
  <2>3. /\ e \in TabState /\ e.life = "ready" /\ e.job = "none" /\ e.view = tab[t].view
        /\ e.baseline = tab[t].baseline /\ e.held.rec = NoRecords
    BY <2>1, EndedTab
  <2> HIDE DEF e
  <2>4. /\ s \in TabState /\ s.life = "ready" /\ s.job = "none" /\ s.view = tab[t].view
        /\ s.baseline = tab[t].baseline /\ s.held.rec = NoRecords
    BY <2>3 DEF TabState
  <2> HIDE DEF s
  <2> QED
    BY <1>1, <2>1, <2>2, <2>4, OneTabMoves DEF Moves, Orderly, Seen, Base, Held, Rec
<1>3. CASE RefreshFails(t)
  <2> DEFINE e == Ended(tab[t])
             s == [e EXCEPT !.status = "error"]
  <2>1. tab[t].life = "ready" /\ tab[t].queue # <<>> /\ tab[t].job # "stored"
    BY <1>1, <1>3 DEF RefreshFails, Next1, Orderly
  <2>2. tab' = [tab EXCEPT ![t] = s] /\ db' = db /\ edits' \in Nat
    BY <1>1, <1>3 DEF RefreshFails
  <2>3. /\ e \in TabState /\ e.life = "ready" /\ e.job = "none" /\ e.view = tab[t].view
        /\ e.baseline = tab[t].baseline /\ e.held.rec = NoRecords
    BY <2>1, EndedTab
  <2> HIDE DEF e
  <2>4. /\ s \in TabState /\ s.life = "ready" /\ s.job = "none" /\ s.view = tab[t].view
        /\ s.baseline = tab[t].baseline /\ s.held.rec = NoRecords
    BY <2>3 DEF TabState
  <2> HIDE DEF s
  <2> QED
    BY <1>1, <2>1, <2>2, <2>4, OneTabMoves DEF Moves, Orderly, Seen, Base, Held, Rec
<1>4. CASE SaveAborts(t)
  <2> DEFINE e == Ended(tab[t])
             s == [e EXCEPT !.status = "error"]
  <2>1. tab[t].life = "ready" /\ tab[t].queue # <<>> /\ tab[t].job # "stored"
    BY <1>1, <1>4 DEF SaveAborts, Next1, Orderly
  <2>2. tab' = [tab EXCEPT ![t] = s] /\ db' = db /\ edits' \in Nat
    BY <1>1, <1>4 DEF SaveAborts
  <2>3. /\ e \in TabState /\ e.life = "ready" /\ e.job = "none" /\ e.view = tab[t].view
        /\ e.baseline = tab[t].baseline /\ e.held.rec = NoRecords
    BY <2>1, EndedTab
  <2> HIDE DEF e
  <2>4. /\ s \in TabState /\ s.life = "ready" /\ s.job = "none" /\ s.view = tab[t].view
        /\ s.baseline = tab[t].baseline /\ s.held.rec = NoRecords
    BY <2>3 DEF TabState
  <2> HIDE DEF s
  <2> QED
    BY <1>1, <2>1, <2>2, <2>4, OneTabMoves DEF Moves, Orderly, Seen, Base, Held, Rec
<1> QED
  BY <1>2, <1>3, <1>4 DEF Ends

\* A load or a refresh carries what is stored.
LEMMA ReadMoves ==
    ASSUME Typed, NEW t \in Tab, LoadRead(t) \/ RefreshReads(t)
    PROVE  /\ Typed' /\ Rec' = Rec /\ tab[t].job # "stored"
           /\ \E job \in {"none", "read"} : Moves(t, Seen(t), Base(t), Rec, job)
<1>1. /\ tab[t] \in TabState /\ tab \in [Tab -> TabState] /\ db \in Records /\ edits \in Nat
      /\ Orderly(tab[t])
  BY TypedTab
<1>2. CASE LoadRead(t)
  <2> DEFINE s == [tab[t] EXCEPT !.life = "loaded", !.held = db]
  <2>2. s \in TabState /\ tab' = [tab EXCEPT ![t] = s] /\ db' = db /\ edits' \in Nat
    BY <1>1, <1>2 DEF LoadRead, Next1, TabState, Records
  <2>3. /\ tab[t].job = "none"
        /\ s.job = "none"
        /\ s.view = tab[t].view
        /\ s.baseline = tab[t].baseline
        /\ s.held = db
    BY <1>1, <1>2 DEF LoadRead, Next1, TabState, Records, Orderly
  <2>4. Orderly(s)
    BY <1>1, <1>2 DEF LoadRead, Next1, TabState, Records, Orderly
  <2> HIDE DEF s
  <2> QED
    BY <1>1, <1>2, <2>2, <2>3, <2>4, OneTabMoves DEF Moves, Seen, Base, Held, Rec
<1>3. CASE RefreshReads(t)
  <2> DEFINE s == [tab[t] EXCEPT !.job = "read", !.held = db]
  <2>2. s \in TabState /\ tab' = [tab EXCEPT ![t] = s] /\ db' = db /\ edits' \in Nat
    BY <1>1, <1>3 DEF RefreshReads, Next1, TabState, Records
  <2>3. /\ tab[t].job = "reading"
        /\ s.job = "read"
        /\ s.view = tab[t].view
        /\ s.baseline = tab[t].baseline
        /\ s.held = db
    BY <1>1, <1>3 DEF RefreshReads, Next1, TabState, Records, Orderly
  <2>4. Orderly(s)
    BY <1>1, <1>3 DEF RefreshReads, Next1, TabState, Records, Orderly
  <2> HIDE DEF s
  <2> QED
    BY <1>1, <1>3, <2>2, <2>3, <2>4, OneTabMoves DEF Moves, Seen, Base, Held, Rec
<1> QED
  BY <1>2, <1>3

\* A page comes up showing what it has read.
LEMMA HydrateMoves ==
    ASSUME Typed, NEW t \in Tab, Hydrate(t)
    PROVE  /\ Typed' /\ tab'[t].life # "loaded" /\ Rec' = Rec /\ tab[t].life = "loaded"
           /\ Moves(t, Held(t), Held(t), NoRecords, "none")
<1>1. /\ tab[t] \in TabState /\ tab \in [Tab -> TabState] /\ db \in Records /\ edits \in Nat
      /\ Orderly(tab[t])
  BY TypedTab
<1>2. PICK active \in Playlist \cup {None} :
          tab' = [tab EXCEPT ![t] = [@ EXCEPT !.life = "ready", !.status = "saved",
                                              !.view = [tab[t].held EXCEPT !.active = active],
                                              !.baseline = tab[t].held.rec, !.held = Nothing,
                                              !.listening = TRUE]]
  BY <1>1 DEF Hydrate, Fallback, Listed, TabState, Records
<1>3. QED
  <2> DEFINE view == [tab[t].held EXCEPT !.active = active]
             s == [tab[t] EXCEPT !.life = "ready", !.status = "saved", !.view = view,
                                 !.baseline = tab[t].held.rec, !.held = Nothing,
                                 !.listening = TRUE]
  <2>1. tab' = [tab EXCEPT ![t] = s] /\ db' = db /\ edits' \in Nat /\ tab[t].life = "loaded"
    BY <1>1, <1>2 DEF Hydrate
  <2>6. tab[t].held \in Records
    BY <1>1 DEF TabState
  <2>7. view \in Records /\ view.rec = tab[t].held.rec /\ tab[t].held.rec \in [Playlist -> Edits]
    BY <2>6 DEF Records
  <2>8. Nothing \in Records /\ Nothing.rec = NoRecords
    BY DEF Records, Nothing, NoRecords, Edits
  <2>2. /\ view \in Records /\ view.rec = tab[t].held.rec /\ Nothing \in Records
        /\ Nothing.rec = NoRecords /\ tab[t].held.rec \in [Playlist -> Edits]
    BY <2>7, <2>8
  <2> HIDE DEF view
  <2>3. s \in TabState
    BY <1>1, <2>2 DEF TabState
  <2>4. /\ s.life = "ready" /\ s.job = tab[t].job /\ s.view = view
        /\ s.baseline = tab[t].held.rec /\ s.held = Nothing
    BY <1>1 DEF TabState
  <2> HIDE DEF s
  <2>5. tab[t].job = "none" /\ Orderly(s)
    BY <1>1, <2>1, <2>4 DEF Orderly
  <2> QED
    BY <1>1, <2>1, <2>2, <2>3, <2>4, <2>5, OneTabMoves DEF Moves, Seen, Base, Held, Rec

\* A page that is closed shows and carries nothing.
LEMMA CloseMoves ==
    ASSUME Typed, NEW t \in Tab, Close(t)
    PROVE  /\ Typed' /\ tab'[t].life # "loaded" /\ Rec' = Rec
           /\ Moves(t, NoRecords, NoRecords, NoRecords, "none")
<1>1. /\ tab[t] \in TabState /\ tab \in [Tab -> TabState] /\ db \in Records /\ edits \in Nat
      /\ Orderly(tab[t])
  BY TypedTab
<1>2. Close(t)
  OBVIOUS
<1> QED
  <2> DEFINE s == Closed
  <2>2. s \in TabState /\ tab' = [tab EXCEPT ![t] = s] /\ db' = db /\ edits' \in Nat
    BY <1>1, <1>2 DEF Close, Closed, Nothing, NoRecords, Edits, TabState, Records
  <2>3. /\ s.life = "closed"
        /\ s.job = "none"
        /\ s.view.rec = NoRecords
        /\ s.baseline = NoRecords
        /\ s.held.rec = NoRecords
    BY <1>1, <1>2 DEF Close, Closed, Nothing, NoRecords, Edits, TabState, Records, Orderly
  <2>4. Orderly(s)
    BY <1>1, <1>2 DEF Close, Closed, Nothing, NoRecords, Edits, TabState, Records, Orderly
  <2> HIDE DEF s
  <2> QED
    BY <1>1, <1>2, <2>2, <2>3, <2>4, OneTabMoves DEF Moves, Seen, Base, Held, Rec

\* A save carries what its tab shows.
LEMMA SaveBeginsMoves ==
    ASSUME Typed, NEW t \in Tab, SaveBegins(t)
    PROVE  /\ Typed' /\ tab'[t].life # "loaded" /\ Rec' = Rec /\ tab[t].job = "none"
           /\ Moves(t, Seen(t), Base(t), Seen(t), "saving")
<1>1. /\ tab[t] \in TabState /\ tab \in [Tab -> TabState] /\ db \in Records /\ edits \in Nat
      /\ Orderly(tab[t])
  BY TypedTab
<1>2. SaveBegins(t)
  OBVIOUS
<1> QED
  <2> DEFINE s == [tab[t] EXCEPT !.job = "saving", !.held = tab[t].view]
  <2>2. s \in TabState /\ tab' = [tab EXCEPT ![t] = s] /\ db' = db /\ edits' \in Nat
    BY <1>1, <1>2 DEF SaveBegins, Next1, TabState, Records
  <2>3. /\ s.life = "ready"
        /\ s.job = "saving"
        /\ tab[t].job = "none"
        /\ s.view = tab[t].view
        /\ s.baseline = tab[t].baseline
        /\ s.held = tab[t].view
    BY <1>1, <1>2 DEF SaveBegins, Next1, TabState, Records, Orderly
  <2>4. Orderly(s)
    BY <1>1, <1>2 DEF SaveBegins, Next1, TabState, Records, Orderly
  <2> HIDE DEF s
  <2> QED
    BY <1>1, <1>2, <2>2, <2>3, <2>4, OneTabMoves DEF Moves, Seen, Base, Held, Rec

\* The transaction stores what differs from the baseline, if nobody else has.
LEMMA SaveStoresMoves ==
    ASSUME Typed, NEW t \in Tab, SaveStores(t)
    PROVE  /\ Typed' /\ tab'[t].life # "loaded" /\ tab[t].job = "saving"
           /\ Moves(t, Seen(t), Base(t), Held(t), "stored")
           /\ \A p \in Playlist : Rec'[p] = IF Same(Base(t)[p], Held(t)[p]) THEN Rec[p]
                                                                          ELSE Held(t)[p]
           /\ \A p \in Playlist : Same(Base(t)[p], Held(t)[p]) \/ Same(Rec[p], Base(t)[p])
<1>1. /\ tab[t] \in TabState /\ tab \in [Tab -> TabState] /\ db \in Records /\ edits \in Nat
      /\ Orderly(tab[t])
  BY TypedTab
<1>2. /\ db' \in Records /\ edits' \in Nat
      /\ \A p \in Playlist : db'.rec[p] = IF p \in Changed(tab[t]) THEN tab[t].held.rec[p]
                                                                  ELSE db.rec[p]
  <2>1. [p \in Playlist |-> IF p \in Changed(tab[t]) THEN tab[t].held.rec[p] ELSE db.rec[p]]
            \in [Playlist -> Edits]
    BY <1>1 DEF TabState, Records
  <2>2. tab[t].held.active \in Playlist \cup {None}
    BY <1>1 DEF TabState, Records
  <2> QED
    BY <1>1, <2>1, <2>2 DEF SaveStores, Records
<1>3. \A p \in Playlist : p \in Changed(tab[t]) <=> ~Same(Base(t)[p], Held(t)[p])
  BY DEF Changed, Base, Held
<1>4. \A p \in Playlist : p \in Changed(tab[t]) => Same(Rec[p], Base(t)[p])
  BY DEF SaveStores, Conflicts, Rec, Base
<1> DEFINE s == [tab[t] EXCEPT !.job = "stored"]
<1>5. /\ tab' = [tab EXCEPT ![t] = s] /\ tab[t].job = "saving" /\ tab[t].life = "ready"
      /\ tab[t].queue # <<>>
  BY <1>1 DEF SaveStores, Orderly
<1>6. /\ s \in TabState /\ s.life = "ready" /\ s.job = "stored" /\ s.queue = tab[t].queue
      /\ s.view = tab[t].view /\ s.baseline = tab[t].baseline /\ s.held = tab[t].held
  BY <1>1, <1>5 DEF TabState
<1> HIDE DEF s
<1>7. Typed' /\ tab'[t].life # "loaded" /\ Moves(t, Seen(t), Base(t), Held(t), "stored")
  BY <1>1, <1>2, <1>5, <1>6, OneTabMoves DEF Moves, Orderly, Seen, Base, Held
<1>8. \A p \in Playlist : Rec'[p] = IF Same(Base(t)[p], Held(t)[p]) THEN Rec[p] ELSE Held(t)[p]
  BY <1>2, <1>3 DEF Rec, Held
<1> QED
  BY <1>3, <1>4, <1>5, <1>7, <1>8

\* What was stored becomes the baseline; other tabs only get mail.
LEMMA SaveEndsMoves ==
    ASSUME Typed, NEW t \in Tab, SaveEnds(t)
    PROVE  /\ Typed' /\ tab'[t].life # "loaded" /\ Rec' = Rec /\ tab[t].job = "stored"
           /\ Moves(t, Seen(t), Held(t), NoRecords, "none")
<1>1. /\ tab[t] \in TabState /\ tab \in [Tab -> TabState] /\ db \in Records /\ edits \in Nat
      /\ Orderly(tab[t])
  BY TypedTab
<1> DEFINE e == Ended(tab[t])
           s == [e EXCEPT !.baseline = tab[t].held.rec, !.status = "saved"]
           After(u) == IF u # t THEN tab[u] ELSE s
           Mailed(u) == [After(u) EXCEPT !.mail = @ + 1]
<1>2. /\ tab[t].job = "stored" /\ tab[t].life = "ready" /\ tab[t].queue # <<>>
      /\ db' = db /\ edits' = edits
  BY <1>1 DEF SaveEnds, Orderly
<1>3. tab' = [u \in Tab |-> IF u \in Told(t) THEN Mailed(u) ELSE After(u)]
  BY DEF SaveEnds
<1>4. /\ e \in TabState /\ e.life = "ready" /\ e.job = "none" /\ e.view = tab[t].view
      /\ e.held.rec = NoRecords
  BY <1>2, EndedTab
<1> HIDE DEF e
<1>5. /\ s \in TabState /\ s.life = "ready" /\ s.job = "none" /\ s.view = tab[t].view
      /\ s.baseline = tab[t].held.rec /\ s.held.rec = NoRecords
  BY <1>1, <1>4 DEF TabState, Records
<1> HIDE DEF s
<1>6. ASSUME NEW u \in Tab
      PROVE  /\ After(u) \in TabState /\ Orderly(After(u))
             /\ u \in Told(t) => tab[u].listening
  BY <1>5, TypedTab DEF Orderly, Told
<1>7. ASSUME NEW u \in Tab
      PROVE  /\ Mailed(u) \in TabState
             /\ Mailed(u).life = After(u).life /\ Mailed(u).job = After(u).job
             /\ Mailed(u).queue = After(u).queue /\ Mailed(u).view = After(u).view
             /\ Mailed(u).baseline = After(u).baseline /\ Mailed(u).held = After(u).held
  <2> DEFINE a == After(u)
  <2>1. a \in TabState
    BY <1>6
  <2> HIDE DEF a
  <2>2. LET m == [a EXCEPT !.mail = @ + 1]
        IN  /\ m \in TabState
            /\ m.life = a.life /\ m.job = a.job /\ m.queue = a.queue
            /\ m.view = a.view /\ m.baseline = a.baseline /\ m.held = a.held
    BY <2>1 DEF TabState
  <2> QED
    BY <2>2 DEF a
<1>8. ASSUME NEW u \in Tab, u \in Told(t)
      PROVE  After(u).life = "ready"
  BY <1>5, <1>6, <1>8, TypedTab DEF Orderly
<1> HIDE DEF Mailed
<1>9. ASSUME NEW u \in Tab
      PROVE  /\ tab'[u] \in TabState /\ Orderly(tab'[u])
             /\ tab'[u].life = After(u).life /\ tab'[u].job = After(u).job
             /\ tab'[u].view = After(u).view
             /\ tab'[u].baseline = After(u).baseline /\ tab'[u].held = After(u).held
  <2>1. CASE u \in Told(t)
    <3>1. tab'[u] = Mailed(u)
      BY <1>3, <2>1
    <3> QED
      BY <1>6, <1>7, <1>8, <2>1, <3>1 DEF Orderly
  <2>2. CASE u \notin Told(t)
    <3>1. tab'[u] = After(u)
      BY <1>3, <2>2
    <3> QED
      BY <1>6, <3>1
  <2> QED
    BY <2>1, <2>2
<1>10. tab' \in [Tab -> TabState]
  BY <1>3, <1>9
<1>11. Typed'
  BY <1>1, <1>2, <1>9, <1>10 DEF Typed, TabsTyped, TabsOrderly
<1>12. \A u \in Tab \ {t} :
          /\ Seen(u)' = Seen(u) /\ Base(u)' = Base(u) /\ Held(u)' = Held(u)
          /\ tab'[u].job = tab[u].job /\ tab'[u].life = tab[u].life
  BY <1>9 DEF Seen, Base, Held
<1>13. /\ Seen(t)' = Seen(t) /\ Base(t)' = Held(t) /\ Held(t)' = NoRecords
       /\ tab'[t].job = "none" /\ tab'[t].life = "ready"
  BY <1>5, <1>9 DEF Seen, Base, Held
<1> QED
  BY <1>2, <1>11, <1>12, <1>13 DEF Moves, Rec

\* What a merge makes of one playlist.
Merged(t, p) == IF Same(Base(t)[p], Seen(t)[p]) THEN Held(t)[p] ELSE Seen(t)[p]
MergedBase(t, p) == IF Same(Base(t)[p], Seen(t)[p]) THEN Held(t)[p] ELSE Base(t)[p]

\* A refresh merges what it has read, as it finds the tab by then.
LEMMA RefreshEndsMoves ==
    ASSUME Typed, NEW t \in Tab, RefreshEnds(t)
    PROVE  /\ Typed' /\ tab'[t].life # "loaded" /\ Rec' = Rec /\ tab[t].job = "read"
           /\ Moves(t, [p \in Playlist |-> Merged(t, p)], [p \in Playlist |-> MergedBase(t, p)],
                    NoRecords, "none")
<1>1. /\ tab[t] \in TabState /\ tab \in [Tab -> TabState] /\ db \in Records /\ edits \in Nat
      /\ Orderly(tab[t])
  BY TypedTab
<1> DEFINE e == Ended(tab[t])
           merged == [p \in Playlist |-> Merged(t, p)]
           base == [p \in Playlist |-> MergedBase(t, p)]
<1>2. /\ tab[t].job = "read" /\ tab[t].life = "ready" /\ tab[t].queue # <<>>
      /\ db' = db /\ edits' = edits
  BY <1>1 DEF RefreshEnds, Orderly
<1>3. /\ merged = [p \in Playlist |-> IF p \in Pending(tab[t]) THEN tab[t].view.rec[p]
                                                               ELSE tab[t].held.rec[p]]
      /\ base = Rebased(tab[t])
  BY DEF Merged, MergedBase, Pending, Rebased, Seen, Base, Held
<1>4. merged \in [Playlist -> Edits] /\ base \in [Playlist -> Edits]
  BY <1>1 DEF TabState, Records, Merged, MergedBase, Seen, Base, Held
<1> HIDE DEF merged, base
<1>5. PICK active \in Playlist \cup {None} :
          tab' = [tab EXCEPT ![t] = [e EXCEPT !.baseline = base,
                                              !.view = [rec |-> merged, active |-> active]]]
  <2>1. tab[t].view.active \in Playlist \cup {None} /\ tab[t].held.active \in Playlist \cup {None}
    BY <1>1 DEF TabState, Records
  <2> QED
    BY <1>3, <2>1 DEF RefreshEnds, Fallback, Listed
<1> DEFINE s == [e EXCEPT !.baseline = base, !.view = [rec |-> merged, active |-> active]]
<1>6. e \in TabState /\ e.life = "ready" /\ e.job = "none" /\ e.held.rec = NoRecords
  BY <1>2, EndedTab
<1> HIDE DEF e
<1>7. [rec |-> merged, active |-> active] \in Records
  BY <1>4 DEF Records
<1>8. /\ s \in TabState /\ s.life = "ready" /\ s.job = "none" /\ s.view.rec = merged
      /\ s.baseline = base /\ s.held.rec = NoRecords
  BY <1>4, <1>6, <1>7 DEF TabState
<1>9. tab' = [tab EXCEPT ![t] = s]
  BY <1>5
<1> HIDE DEF s
<1>10. Typed' /\ tab'[t].life # "loaded" /\ Moves(t, merged, base, NoRecords, "none")
  BY <1>1, <1>2, <1>8, <1>9, OneTabMoves DEF Moves, Orderly
<1> QED
  BY <1>2, <1>10 DEF Rec, merged, base

\* Edits of playlist p in tab t.
Edited(t, p) ==
    \/ Create(t, p) \/ Duplicate(t, p) \/ Import(t, p) \/ Delete(t, p)
    \/ Edit(t, p) \/ AddLevel(t, p) \/ EditLevels(t, p)

\* Every edit of the user is one of three.
LEMMA EditedCases ==
    ASSUME NEW t, NEW p, Edited(t, p)
    PROVE  Create(t, p) \/ Edit(t, p) \/ Delete(t, p)
BY DEF Edited, Duplicate, Import, AddLevel, EditLevels

\* An edit makes a playlist nobody knows, or goes on from the version shown.
LEMMA EditMoves ==
    ASSUME Typed, NEW t \in Tab, NEW p \in Playlist, Edited(t, p)
    PROVE  /\ Typed' /\ tab'[t].life # "loaded" /\ Rec' = Rec
           /\ \E e \in Int, v \in Edits :
                  /\ Moves(t, [Seen(t) EXCEPT ![p] = v], Base(t), Held(t), tab[t].job)
                  /\ \/ /\ v = <<e>> /\ Rec[p] = <<>>
                        /\ \A u \in Tab : Seen(u)[p] = <<>> /\ Held(u)[p] = <<>>
                     \/ v = Append(Seen(t)[p], e) /\ ~Absent(Seen(t)[p])
<1>1. /\ tab[t] \in TabState /\ tab \in [Tab -> TabState] /\ db \in Records /\ edits \in Nat
      /\ Orderly(tab[t])
  BY TypedTab
<1>2. Seen(t)[p] \in Edits /\ edits + 1 \in Int /\ -(edits + 1) \in Int
  BY <1>1 DEF TabState, Records, Seen
<1>3. ASSUME NEW v \in Edits, NEW active \in Playlist \cup {None}, CanEdit(t),
             Shows(t, [tab[t].view.rec EXCEPT ![p] = v], active), edits' = edits + 1, db' = db
      PROVE  /\ Typed' /\ tab'[t].life # "loaded" /\ Rec' = Rec
             /\ Moves(t, [Seen(t) EXCEPT ![p] = v], Base(t), Held(t), tab[t].job)
  <2>1. [tab[t].view.rec EXCEPT ![p] = v] \in [Playlist -> Edits]
    BY <1>1 DEF TabState, Records
  <2> QED
    BY <1>3, <2>1, ShowsMoves DEF Seen, Rec
<1>4. CASE Create(t, p)
  <2>1. <<edits + 1>> \in Edits
    BY <1>2 DEF Edits
  <2>2. Typed' /\ tab'[t].life # "loaded" /\ Rec' = Rec
          /\ Moves(t, [Seen(t) EXCEPT ![p] = <<edits + 1>>], Base(t), Held(t), tab[t].job)
    BY <1>3, <1>4, <2>1 DEF Create
  <2>3. Rec[p] = <<>> /\ \A u \in Tab : Seen(u)[p] = <<>> /\ Held(u)[p] = <<>>
    BY <1>4 DEF Create, Rec, Seen, Held
  <2> QED
    BY <1>2, <2>1, <2>2, <2>3
<1>5. CASE Edit(t, p)
  <2> DEFINE v == Append(Seen(t)[p], edits + 1)
  <2>1. v \in Edits
    BY <1>2, PrefixOfAppend
  <2>2. tab[t].view.active \in Playlist \cup {None}
    BY <1>1 DEF TabState, Records
  <2>3. Shows(t, [tab[t].view.rec EXCEPT ![p] = v], tab[t].view.active)
    BY <1>5 DEF Edit, Seen
  <2> HIDE DEF v
  <2>4. Typed' /\ tab'[t].life # "loaded" /\ Rec' = Rec
          /\ Moves(t, [Seen(t) EXCEPT ![p] = v], Base(t), Held(t), tab[t].job)
    BY <1>3, <1>5, <2>1, <2>2, <2>3 DEF Edit
  <2>5. ~Absent(Seen(t)[p])
    BY <1>5 DEF Edit, Listed, Seen
  <2> QED
    BY <1>2, <2>1, <2>4, <2>5 DEF v
<1>6. CASE Delete(t, p)
  <2> DEFINE v == Append(Seen(t)[p], -(edits + 1))
  <2>1. v \in Edits
    BY <1>2, PrefixOfAppend
  <2>2. tab[t].view.active \in Playlist \cup {None}
    BY <1>1 DEF TabState, Records
  <2>3. PICK active \in Playlist \cup {None} : Shows(t, [tab[t].view.rec EXCEPT ![p] = v], active)
    BY <1>6, <2>2 DEF Delete, Fallback, Listed, Seen
  <2> HIDE DEF v
  <2>4. Typed' /\ tab'[t].life # "loaded" /\ Rec' = Rec
          /\ Moves(t, [Seen(t) EXCEPT ![p] = v], Base(t), Held(t), tab[t].job)
    BY <1>3, <1>6, <2>1, <2>3 DEF Delete
  <2>5. ~Absent(Seen(t)[p])
    BY <1>6 DEF Delete, Listed, Seen
  <2> QED
    BY <1>2, <2>1, <2>4, <2>5 DEF v
<1> QED
  BY <1>4, <1>5, <1>6, EditedCases

-----------------------------------------------------------------------------
(* Each step keeps the invariant.                                          *)

\* Versions are sequences of edits.
LEMMA VersionsTyped ==
    ASSUME Typed, NEW t \in Tab, NEW p \in Playlist
    PROVE  Seen(t)[p] \in Edits /\ Base(t)[p] \in Edits /\ Held(t)[p] \in Edits /\ Rec[p] \in Edits
<1>1. tab[t] \in TabState /\ db \in Records
  BY TypedTab
<1> QED
  BY <1>1 DEF TabState, Records, Seen, Base, Held, Rec

\* What the invariant says of one playlist in one tab.
LEMMA InvFacts ==
    ASSUME TabsInv, NEW t \in Tab, NEW p \in Playlist
    PROVE  /\ Typed /\ Ordered(t, p) /\ OwnUntilStored(t, p)
           /\ Final(Seen(t)[p]) /\ Final(Held(t)[p]) /\ Final(Rec[p])
           /\ Seen(t)[p] \in Edits /\ Base(t)[p] \in Edits /\ Held(t)[p] \in Edits
           /\ Rec[p] \in Edits
<1>1. Typed
  BY DEF TabsInv, Typed
<1> QED
  BY <1>1, VersionsTyped DEF TabsInv, HeldInOrder, UnstoredIsOwn, DeletionIsLast

\* A tab that does not move stays in order while the others store.
LEMMA OrderedStays ==
    ASSUME TabsInv, NEW u \in Tab, NEW p \in Playlist,
           Seen(u)' = Seen(u), Base(u)' = Base(u), Held(u)' = Held(u),
           tab'[u].job = tab[u].job, tab'[u].life = tab[u].life,
           Rec'[p] \in Edits,
           \/ Rec'[p] = Rec[p]
           \/ /\ IsPrefix(Rec[p], Rec'[p])
              /\ Absent(Rec[p]) => Seen(u)[p] = <<>> /\ Held(u)[p] = <<>>
    PROVE  Ordered(u, p)'
<1> DEFINE seen == Seen(u)[p]
           base == Base(u)[p]
           held == Held(u)[p]
           rec == Rec[p]
           new == Rec'[p]
<1>1. /\ Ordered(u, p)
      /\ seen \in Edits /\ base \in Edits /\ held \in Edits /\ rec \in Edits /\ new \in Edits
  BY InvFacts
<1>2. IsPrefix(base, seen)
  BY <1>1 DEF Ordered
<1>3. IsPrefix(rec, new)
  BY <1>1, PrefixSelf
<1>4. ASSUME NEW v \in Edits, IsPrefix(v, rec)
      PROVE  IsPrefix(v, new)
  <2> HIDE DEF rec, new
  <2> QED
    BY <1>1, <1>3, <1>4, PrefixTrans
<1>5. Absent(rec) => rec = new \/ (base = <<>> /\ held = <<>>)
  <2>1. CASE seen = <<>> /\ held = <<>>
    <3>1. IsPrefix(base, <<>>)
      BY <1>2, <2>1
    <3> QED
      BY <1>1, <2>1, <3>1, PrefixOfEmpty
  <2> QED
    BY <2>1
<1>6. ASSUME NEW v \in {base, held}, Extends(rec, v)
      PROVE  Extends(new, v)
  <2> HIDE DEF rec, new, base, held
  <2>1. v \in Edits
    BY <1>1
  <2>2. CASE IsPrefix(v, rec)
    BY <1>4, <2>1, <2>2 DEF Extends
  <2>3. CASE Absent(rec) /\ Absent(v)
    <3>1. CASE rec = new
      BY <1>6, <3>1
    <3>2. CASE v = <<>>
      BY <1>1, <3>2, PrefixOfEmpty DEF Extends
    <3> QED
      BY <1>5, <2>3, <3>1, <3>2
  <2> QED
    BY <1>6, <2>2, <2>3 DEF Extends
<1>7. IsPrefix(held, rec) => IsPrefix(held, new)
  BY <1>1, <1>4
<1>8. (Extends(rec, base) => Extends(new, base)) /\ (Extends(rec, held) => Extends(new, held))
  BY <1>6
<1>9. /\ Seen(u)'[p] = seen /\ Base(u)'[p] = base /\ Held(u)'[p] = held /\ Rec'[p] = new
  OBVIOUS
<1> QED
  BY <1>1, <1>7, <1>8, <1>9 DEF Ordered, Seen, Base, Held, Rec

\* A step of one tab keeps the invariant if that tab is in order after it, if what
\* it stores extends what was stored, and if it knows no unstored playlist of another.
LEMMA StepKeeps ==
    ASSUME TabsInv, Typed', NEW t \in Tab, NEW seen, NEW base, NEW held, NEW job,
           Moves(t, seen, base, held, job),
           \A p \in Playlist : Final(seen[p]) /\ Final(held[p]) /\ Final(Rec'[p]),
           \A p \in Playlist : Ordered(t, p)' /\ OwnUntilStored(t, p)',
           \A p \in Playlist :
               \/ Rec'[p] = Rec[p]
               \/ /\ IsPrefix(Rec[p], Rec'[p])
                  /\ Absent(Rec[p]) =>
                         \A u \in Tab \ {t} : Seen(u)[p] = <<>> /\ Held(u)[p] = <<>>,
           \A p \in Playlist : \A u \in Tab \ {t} :
               \/ Seen(u)[p] = <<>>
               \/ Seen(t)[p] = <<>> /\ Held(t)[p] = <<>> /\ Rec[p] = <<>>
                      => seen[p] = <<>> /\ held[p] = <<>> /\ Rec'[p] = <<>>
    PROVE  TabsInv'
<1>1. \A u \in Tab \ {t} :
          /\ Seen(u)' = Seen(u) /\ Base(u)' = Base(u) /\ Held(u)' = Held(u)
          /\ tab'[u].job = tab[u].job /\ tab'[u].life = tab[u].life
  BY DEF Moves
<1>2. Seen(t)' = seen /\ Base(t)' = base /\ Held(t)' = held /\ tab'[t].job = job
  BY DEF Moves
<1>3. DeletionIsLast'
  <2>1. ASSUME NEW p \in Playlist, NEW u \in Tab
        PROVE  Final(Seen(u)'[p]) /\ Final(Held(u)'[p])
    <3>1. CASE u = t
      BY <1>2, <3>1
    <3>2. CASE u # t
      <4>1. Final(Seen(u)[p]) /\ Final(Held(u)[p])
        BY InvFacts
      <4> QED
        BY <1>1, <3>2, <4>1
    <3> QED
      BY <3>1, <3>2
  <2>2. \A p \in Playlist : Final(Rec'[p])
    OBVIOUS
  <2> QED
    BY <2>1, <2>2 DEF DeletionIsLast, Rec, Seen, Held
<1>4. HeldInOrder'
  <2> SUFFICES ASSUME NEW u \in Tab, NEW p \in Playlist
               PROVE  Ordered(u, p)'
    BY DEF HeldInOrder
  <2>1. CASE u = t
    BY <2>1
  <2>2. CASE u # t
    <3>1. Rec'[p] \in Edits
      <4>1. db' \in Records
        BY DEF Typed, TabsTyped
      <4> QED
        BY <4>1 DEF Records, Rec
    <3> QED
      BY <1>1, <2>2, <3>1, OrderedStays
  <2> QED
    BY <2>1, <2>2
<1>5. UnstoredIsOwn'
  <2> SUFFICES ASSUME NEW u \in Tab, NEW p \in Playlist
               PROVE  OwnUntilStored(u, p)'
    BY DEF UnstoredIsOwn
  <2>1. CASE u = t
    BY <2>1
  <2>2. CASE u # t
    <3>1. OwnUntilStored(u, p)
      BY InvFacts
    <3>2. (Unstored(u, p)' <=> Unstored(u, p)) /\ (Held(u)[p])' = Held(u)[p]
      BY <1>1, <2>2 DEF Unstored, Seen, Base, Held
    <3>3. ASSUME Unstored(u, p), Own(u, p)
          PROVE  Own(u, p)'
      <4>1. seen[p] = <<>> /\ held[p] = <<>> /\ Rec'[p] = <<>>
        BY <2>2, <3>3 DEF Own, Unstored
      <4>2. \A w \in Tab \ {u} : Seen(w)'[p] = <<>> /\ Held(w)'[p] = <<>>
        BY <1>1, <1>2, <3>3, <4>1 DEF Own
      <4> QED
        BY <4>1, <4>2 DEF Own, Seen, Held, Rec
    <3> QED
      BY <1>1, <2>2, <3>1, <3>2, <3>3 DEF OwnUntilStored
  <2> QED
    BY <2>1, <2>2
<1> QED
  BY <1>3, <1>4, <1>5 DEF TabsInv, Typed

\* A version of one edit has nothing after a deletion.
LEMMA FinalSmall == Final(<<>>) /\ \A e \in Int : Final(<<e>>)
BY DEF Final

\* There is nothing in no records.
LEMMA NoRecordsIs == \A p \in Playlist : NoRecords[p] = <<>>
BY DEF NoRecords

\* The empty version is a version.
LEMMA EmptyIsEdits == <<>> \in Edits
BY DEF Edits

\* Going on to the next operation keeps the invariant.
LEMMA QuietKeeps ==
    ASSUME TabsInv, NEW t \in Tab, Quiet(t)
    PROVE  TabsInv'
<1>1. Typed
  BY DEF TabsInv, Typed
<1>2. PICK job : /\ Typed' /\ tab'[t].life # "loaded" /\ Rec' = Rec
                 /\ Moves(t, Seen(t), Base(t), Held(t), job)
                 /\ job = tab[t].job \/ (tab[t].job = "none" /\ job = "reading")
  BY <1>1, QuietMoves
<1>3. ASSUME NEW p \in Playlist
      PROVE  Ordered(t, p)' /\ OwnUntilStored(t, p)' /\ Own(t, p)' = Own(t, p)
  <2>1. Ordered(t, p) /\ OwnUntilStored(t, p)
    BY InvFacts
  <2>2. /\ (Seen(t)[p])' = Seen(t)[p] /\ (Base(t)[p])' = Base(t)[p]
        /\ (Held(t)[p])' = Held(t)[p] /\ (Rec[p])' = Rec[p] /\ tab'[t].job = job
    BY <1>2 DEF Moves
  <2>3. Ordered(t, p)'
    BY <1>2, <2>1, <2>2 DEF Ordered, Extends
  <2>4. Own(t, p)' = Own(t, p)
    BY <1>2, <2>2 DEF Own, Moves
  <2>5. OwnUntilStored(t, p)'
    BY <1>2, <2>1, <2>2, <2>4 DEF OwnUntilStored, Unstored
  <2> QED
    BY <2>3, <2>4, <2>5
<1>4. \A p \in Playlist : Final(Seen(t)[p]) /\ Final(Held(t)[p]) /\ Final(Rec[p])
  BY InvFacts
<1> QED
  BY <1>2, <1>3, <1>4, StepKeeps

\* Ending an operation without effect keeps the invariant.
LEMMA EndsKeeps ==
    ASSUME TabsInv, NEW t \in Tab, Ends(t)
    PROVE  TabsInv'
<1>1. Typed
  BY DEF TabsInv, Typed
<1>2. /\ Typed' /\ tab'[t].life # "loaded" /\ Rec' = Rec
      /\ Moves(t, Seen(t), Base(t), NoRecords, "none")
      /\ tab[t].job # "stored"
  BY <1>1, EndsMoves
<1>3. ASSUME NEW p \in Playlist
      PROVE  Ordered(t, p)' /\ OwnUntilStored(t, p)'
  <2>1. Ordered(t, p) /\ OwnUntilStored(t, p)
    BY InvFacts
  <2>2. /\ (Seen(t)[p])' = Seen(t)[p] /\ (Base(t)[p])' = Base(t)[p]
        /\ (Rec[p])' = Rec[p] /\ tab'[t].job = "none"
    BY <1>2 DEF Moves
  <2>3. Ordered(t, p)'
    BY <1>2, <2>1, <2>2 DEF Ordered, Extends
  <2>4. Own(t, p)' = Own(t, p)
    BY <1>2, <2>2 DEF Own, Moves
  <2>5. OwnUntilStored(t, p)'
    BY <1>2, <2>1, <2>2, <2>4 DEF OwnUntilStored, Unstored
  <2> QED
    BY <2>3, <2>5
<1>4. \A p \in Playlist : Final(Seen(t)[p]) /\ Final(NoRecords[p]) /\ Final(Rec[p])
  BY InvFacts, FinalSmall, NoRecordsIs
<1> QED
  BY <1>2, <1>3, <1>4, NoRecordsIs, StepKeeps

\* Reading what is stored keeps the invariant.
LEMMA ReadKeeps ==
    ASSUME TabsInv, NEW t \in Tab, LoadRead(t) \/ RefreshReads(t)
    PROVE  TabsInv'
<1>1. Typed
  BY DEF TabsInv, Typed
<1>2. PICK job \in {"none", "read"} :
          /\ Typed' /\ Rec' = Rec /\ tab[t].job # "stored"
          /\ Moves(t, Seen(t), Base(t), Rec, job)
  BY <1>1, ReadMoves
<1>3. ASSUME NEW p \in Playlist
      PROVE  Ordered(t, p)' /\ OwnUntilStored(t, p)'
  <2>1. Ordered(t, p) /\ OwnUntilStored(t, p) /\ Rec[p] \in Edits
    BY InvFacts
  <2>2. /\ (Seen(t)[p])' = Seen(t)[p] /\ (Base(t)[p])' = Base(t)[p]
        /\ (Held(t)[p])' = Rec[p] /\ (Rec[p])' = Rec[p] /\ tab'[t].job = job
    BY <1>2 DEF Moves
  <2>3. IsPrefix(Rec[p], Rec[p])
    BY <2>1, PrefixSelf
  <2>4. Ordered(t, p)'
    BY <1>2, <2>1, <2>2, <2>3 DEF Ordered, Extends
  <2>5. Own(t, p)' = Own(t, p)
    BY <1>2, <2>2 DEF Own, Moves
  <2>6. OwnUntilStored(t, p)'
    BY <1>2, <2>1, <2>2, <2>5 DEF OwnUntilStored, Unstored
  <2> QED
    BY <2>4, <2>6
<1>4. \A p \in Playlist : Final(Seen(t)[p]) /\ Final(Rec[p])
  BY InvFacts
<1> QED
  BY <1>2, <1>3, <1>4, StepKeeps

\* A page that comes up keeps the invariant.
LEMMA HydrateKeeps ==
    ASSUME TabsInv, NEW t \in Tab, Hydrate(t)
    PROVE  TabsInv'
<1>1. Typed
  BY DEF TabsInv, Typed
<1>2. /\ Typed' /\ tab'[t].life # "loaded" /\ Rec' = Rec /\ tab[t].life = "loaded"
      /\ Moves(t, Held(t), Held(t), NoRecords, "none")
  BY <1>1, HydrateMoves
<1>3. ASSUME NEW p \in Playlist
      PROVE  Ordered(t, p)' /\ OwnUntilStored(t, p)'
  <2>1. IsPrefix(Held(t)[p], Rec[p]) /\ Held(t)[p] \in Edits
    BY <1>2, InvFacts DEF Ordered
  <2>2. /\ (Seen(t)[p])' = Held(t)[p] /\ (Base(t)[p])' = Held(t)[p]
        /\ (Rec[p])' = Rec[p] /\ tab'[t].job = "none"
    BY <1>2 DEF Moves
  <2>3. IsPrefix(Held(t)[p], Held(t)[p])
    BY <2>1, PrefixSelf
  <2> QED
    BY <1>2, <2>1, <2>2, <2>3 DEF Ordered, Extends, OwnUntilStored, Unstored
<1>4. \A p \in Playlist : Final(Held(t)[p]) /\ Final(NoRecords[p]) /\ Final(Rec[p])
  BY InvFacts, FinalSmall, NoRecordsIs
<1> QED
  BY <1>2, <1>3, <1>4, NoRecordsIs, StepKeeps

\* Closing a page keeps the invariant: what only it knew is known to nobody.
LEMMA CloseKeeps ==
    ASSUME TabsInv, NEW t \in Tab, Close(t)
    PROVE  TabsInv'
<1>1. Typed
  BY DEF TabsInv, Typed
<1>2. /\ Typed' /\ tab'[t].life # "loaded" /\ Rec' = Rec
      /\ Moves(t, NoRecords, NoRecords, NoRecords, "none")
  BY <1>1, CloseMoves
<1>3. ASSUME NEW p \in Playlist
      PROVE  Ordered(t, p)' /\ OwnUntilStored(t, p)'
  <2>1. /\ (Seen(t)[p])' = <<>> /\ (Base(t)[p])' = <<>>
        /\ (Rec[p])' = Rec[p] /\ tab'[t].job = "none"
    BY <1>2, NoRecordsIs DEF Moves
  <2>2. IsPrefix(<<>>, <<>>) /\ IsPrefix(<<>>, Rec[p])
    BY EmptyIsEdits, InvFacts, PrefixOfEmpty
  <2> QED
    BY <1>2, <2>1, <2>2 DEF Ordered, Extends, OwnUntilStored, Unstored
<1>4. \A p \in Playlist : Final(NoRecords[p]) /\ Final(Rec[p])
  BY InvFacts, FinalSmall, NoRecordsIs
<1> QED
  BY <1>2, <1>3, <1>4, NoRecordsIs, StepKeeps

\* Taking the snapshot keeps the invariant.
LEMMA SaveBeginsKeeps ==
    ASSUME TabsInv, NEW t \in Tab, SaveBegins(t)
    PROVE  TabsInv'
<1>1. Typed
  BY DEF TabsInv, Typed
<1>2. /\ Typed' /\ tab'[t].life # "loaded" /\ Rec' = Rec /\ tab[t].job = "none"
      /\ Moves(t, Seen(t), Base(t), Seen(t), "saving")
  BY <1>1, SaveBeginsMoves
<1>3. ASSUME NEW p \in Playlist
      PROVE  Ordered(t, p)' /\ OwnUntilStored(t, p)'
  <2>1. Ordered(t, p) /\ OwnUntilStored(t, p) /\ Seen(t)[p] \in Edits
    BY InvFacts
  <2>2. /\ (Seen(t)[p])' = Seen(t)[p] /\ (Base(t)[p])' = Base(t)[p]
        /\ (Held(t)[p])' = Seen(t)[p] /\ (Rec[p])' = Rec[p] /\ tab'[t].job = "saving"
    BY <1>2 DEF Moves
  <2>3. IsPrefix(Seen(t)[p], Seen(t)[p])
    BY <2>1, PrefixSelf
  <2>4. Ordered(t, p)'
    BY <1>2, <2>1, <2>2, <2>3 DEF Ordered, Extends
  <2>5. Own(t, p)' = Own(t, p)
    BY <1>2, <2>2 DEF Own, Moves
  <2>6. OwnUntilStored(t, p)'
    BY <1>2, <2>1, <2>2, <2>5 DEF OwnUntilStored, Unstored
  <2> QED
    BY <2>4, <2>6
<1>4. \A p \in Playlist : Final(Seen(t)[p]) /\ Final(Rec[p])
  BY InvFacts
<1> QED
  BY <1>2, <1>3, <1>4, StepKeeps

\* What a save does to one playlist: it leaves it, or it extends the version it
\* replaces, which is a new one's only if no other tab knows it.
LEMMA SaveExtends ==
    ASSUME TabsInv, NEW t \in Tab, SaveStores(t), NEW p \in Playlist
    PROVE  \/ Rec'[p] = Rec[p] /\ Same(Base(t)[p], Held(t)[p])
           \/ /\ Rec'[p] = Held(t)[p] /\ Held(t)[p] # <<>> /\ IsPrefix(Rec[p], Held(t)[p])
              /\ Absent(Rec[p]) => Own(t, p)
<1> DEFINE seen == Seen(t)[p]
           base == Base(t)[p]
           held == Held(t)[p]
           rec == Rec[p]
<1>1. Typed
  BY DEF TabsInv, Typed
<1>2. /\ tab[t].job = "saving"
      /\ Rec'[p] = IF Same(base, held) THEN rec ELSE held
      /\ Same(base, held) \/ Same(rec, base)
  BY <1>1, SaveStoresMoves
<1>3. /\ Ordered(t, p) /\ OwnUntilStored(t, p)
      /\ seen \in Edits /\ base \in Edits /\ held \in Edits /\ rec \in Edits /\ Final(held)
  BY InvFacts
<1>4. IsPrefix(base, held) /\ IsPrefix(held, seen)
  BY <1>2, <1>3 DEF Ordered
<1>5. CASE Same(base, held)
  BY <1>2, <1>5
<1>6. CASE ~Same(base, held) /\ Absent(rec)
  <2>1. Absent(base) /\ ~Absent(held)
    BY <1>2, <1>6 DEF Same
  <2> HIDE DEF seen, base, held, rec
  <2>2. base = <<>>
    BY <1>3, <1>4, <1>6, <2>1, AbsentPrefix
  <2>3. held # <<>>
    BY <2>1 DEF Absent
  <2>4. seen # <<>>
    BY <1>3, <1>4, <2>3, PrefixOfEmpty
  <2>5. Own(t, p)
    BY <1>2, <1>3, <2>2, <2>4 DEF OwnUntilStored, Unstored, seen, base
  <2>6. rec = <<>>
    BY <2>5 DEF Own, rec
  <2>7. IsPrefix(rec, held)
    BY <1>3, <2>6, PrefixOfEmpty
  <2> QED
    BY <1>2, <1>6, <2>3, <2>5, <2>7 DEF held, rec
<1>7. CASE ~Same(base, held) /\ ~Absent(rec)
  <2>1. rec = base
    BY <1>2, <1>7 DEF Same
  <2>2. rec # <<>>
    BY <1>7 DEF Absent
  <2> HIDE DEF seen, base, held, rec
  <2>3. held # <<>>
    BY <1>3, <1>4, <2>1, <2>2, PrefixOfEmpty
  <2> QED
    BY <1>2, <1>4, <1>7, <2>1, <2>3 DEF held, rec
<1> QED
  BY <1>5, <1>6, <1>7

\* The transaction keeps the invariant.
LEMMA SaveStoresKeeps ==
    ASSUME TabsInv, NEW t \in Tab, SaveStores(t)
    PROVE  TabsInv'
<1>1. Typed
  BY DEF TabsInv, Typed
<1>2. /\ Typed' /\ tab'[t].life # "loaded" /\ tab[t].job = "saving"
      /\ Moves(t, Seen(t), Base(t), Held(t), "stored")
  BY <1>1, SaveStoresMoves
<1>3. ASSUME NEW p \in Playlist
      PROVE  Ordered(t, p)' /\ OwnUntilStored(t, p)' /\ Final(Rec'[p])
  <2> DEFINE seen == Seen(t)[p]
             base == Base(t)[p]
             held == Held(t)[p]
             rec == Rec[p]
             new == Rec'[p]
  <2>1. /\ Ordered(t, p) /\ OwnUntilStored(t, p)
        /\ seen \in Edits /\ base \in Edits /\ held \in Edits /\ rec \in Edits
        /\ Final(held) /\ Final(rec)
    BY InvFacts
  <2>2. \/ new = rec /\ Same(base, held)
        \/ new = held /\ held # <<>>
    BY SaveExtends
  <2>3. IsPrefix(base, held) /\ IsPrefix(held, seen) /\ IsPrefix(base, seen) /\ Extends(rec, base)
    BY <1>2, <2>1 DEF Ordered
  <2>4. Unstored(t, p) => Own(t, p)
    BY <1>2, <2>1 DEF OwnUntilStored
  <2>5. Unstored(t, p) <=> base = <<>> /\ seen # <<>>
    BY DEF Unstored
  <2>6. Own(t, p) => rec = <<>>
    BY DEF Own
  <2>7. /\ Seen(t)'[p] = seen /\ Base(t)'[p] = base /\ Held(t)'[p] = held /\ Rec'[p] = new
        /\ tab'[t].job = "stored"
    BY <1>2 DEF Moves
  <2>8. Own(t, p) /\ new = <<>> => Own(t, p)'
    BY <1>2, <2>7 DEF Own, Moves, Rec, Seen, Held
  <2>9. IsPrefix(held, held)
    BY <2>1, PrefixSelf
  <2> HIDE DEF seen, base, held, rec, new
  <2>10. Extends(new, held) /\ Extends(new, base)
    <3>1. CASE new = held
      BY <2>3, <2>9, <3>1 DEF Extends
    <3>2. CASE new = rec /\ Same(base, held)
      <4>1. CASE base = held
        BY <2>3, <3>2, <4>1
      <4>2. CASE base # held
        <5>1. Absent(base) /\ Absent(held)
          BY <3>2, <4>2 DEF Same
        <5>2. base = <<>>
          BY <2>1, <2>3, <4>2, <5>1, AbsentPrefix
        <5>3. seen # <<>>
          BY <2>1, <2>3, <4>2, <5>2, PrefixOfEmpty
        <5>4. Absent(new)
          BY <2>4, <2>5, <2>6, <3>2, <5>2, <5>3 DEF Absent
        <5> QED
          BY <5>1, <5>4 DEF Extends
      <4> QED
        BY <4>1, <4>2
    <3> QED
      BY <2>2, <3>1, <3>2
  <2>11. Ordered(t, p)'
    BY <1>2, <2>3, <2>7, <2>10 DEF Ordered, Seen, Base, Held, Rec
  <2>12. OwnUntilStored(t, p)'
    <3>1. CASE held # <<>>
      BY <2>7, <3>1 DEF OwnUntilStored, Held
    <3>2. CASE held = <<>>
      <4>1. new = rec
        BY <2>2, <3>2
      <4>2. Unstored(t, p)' => Unstored(t, p)
        BY <2>5, <2>7 DEF Unstored, Seen, Base
      <4> QED
        BY <2>4, <2>6, <2>8, <4>1, <4>2 DEF OwnUntilStored
    <3> QED
      BY <3>1, <3>2
  <2>13. Final(new)
    BY <2>1, <2>2
  <2> QED
    BY <2>11, <2>12, <2>13 DEF new
<1>4. \A p \in Playlist : Final(Seen(t)[p]) /\ Final(Held(t)[p])
  BY InvFacts
<1>5. \A p \in Playlist :
          \/ Rec'[p] = Rec[p]
          \/ /\ IsPrefix(Rec[p], Rec'[p])
             /\ Absent(Rec[p]) =>
                    \A u \in Tab \ {t} : Seen(u)[p] = <<>> /\ Held(u)[p] = <<>>
  BY SaveExtends DEF Own
<1>6. \A p \in Playlist :
          Seen(t)[p] = <<>> /\ Held(t)[p] = <<>> /\ Rec[p] = <<>> => Rec'[p] = <<>>
  BY SaveExtends
<1> QED
  BY <1>2, <1>3, <1>4, <1>5, <1>6, StepKeeps

\* The new baseline keeps the invariant.
LEMMA SaveEndsKeeps ==
    ASSUME TabsInv, NEW t \in Tab, SaveEnds(t)
    PROVE  TabsInv'
<1>1. Typed
  BY DEF TabsInv, Typed
<1>2. /\ Typed' /\ tab'[t].life # "loaded" /\ Rec' = Rec /\ tab[t].job = "stored"
      /\ Moves(t, Seen(t), Held(t), NoRecords, "none")
  BY <1>1, SaveEndsMoves
<1>3. ASSUME NEW p \in Playlist
      PROVE  Ordered(t, p)' /\ OwnUntilStored(t, p)'
  <2>1. Ordered(t, p) /\ OwnUntilStored(t, p) /\ Base(t)[p] \in Edits
    BY InvFacts
  <2>2. /\ (Seen(t)[p])' = Seen(t)[p] /\ (Base(t)[p])' = Held(t)[p]
        /\ (Rec[p])' = Rec[p] /\ tab'[t].job = "none"
    BY <1>2 DEF Moves
  <2>3. Ordered(t, p)'
    BY <1>2, <2>1, <2>2 DEF Ordered, Extends
  <2>4. Own(t, p)' = Own(t, p)
    BY <1>2, <2>2 DEF Own, Moves
  <2>5. Held(t)[p] = <<>> => Base(t)[p] = <<>>
    <3>1. IsPrefix(Base(t)[p], Held(t)[p])
      BY <1>2, <2>1 DEF Ordered
    <3> QED
      BY <2>1, <3>1, PrefixOfEmpty
  <2>6. OwnUntilStored(t, p)'
    BY <1>2, <2>1, <2>2, <2>4, <2>5 DEF OwnUntilStored, Unstored
  <2> QED
    BY <2>3, <2>6
<1>4. \A p \in Playlist : Final(Seen(t)[p]) /\ Final(NoRecords[p]) /\ Final(Rec[p])
  BY InvFacts, FinalSmall, NoRecordsIs
<1> QED
  BY <1>2, <1>3, <1>4, NoRecordsIs, StepKeeps

\* The merge keeps the invariant.
LEMMA RefreshEndsKeeps ==
    ASSUME TabsInv, NEW t \in Tab, RefreshEnds(t)
    PROVE  TabsInv'
<1> DEFINE merged == [p \in Playlist |-> Merged(t, p)]
           base == [p \in Playlist |-> MergedBase(t, p)]
<1>1. Typed
  BY DEF TabsInv, Typed
<1>2. /\ Typed' /\ tab'[t].life # "loaded" /\ Rec' = Rec /\ tab[t].job = "read"
      /\ Moves(t, merged, base, NoRecords, "none")
  BY <1>1, RefreshEndsMoves
<1>3. ASSUME NEW p \in Playlist
      PROVE  Ordered(t, p)' /\ OwnUntilStored(t, p)'
  <2>1. /\ Ordered(t, p) /\ OwnUntilStored(t, p) /\ Held(t)[p] \in Edits
    BY InvFacts
  <2>2. /\ (Seen(t)[p])' = Merged(t, p) /\ (Base(t)[p])' = MergedBase(t, p)
        /\ (Rec[p])' = Rec[p] /\ tab'[t].job = "none"
    BY <1>2 DEF Moves
  <2>3. Own(t, p)' = Own(t, p)
    BY <1>2, <2>2 DEF Own, Moves
  <2>4. IsPrefix(Held(t)[p], Held(t)[p]) /\ IsPrefix(Held(t)[p], Rec[p])
    BY <1>2, <2>1, PrefixSelf DEF Ordered
  <2>5. CASE Same(Base(t)[p], Seen(t)[p])
    <3>1. (Seen(t)[p])' = Held(t)[p] /\ (Base(t)[p])' = Held(t)[p]
      BY <2>2, <2>5 DEF Merged, MergedBase
    <3> QED
      BY <1>2, <2>2, <2>4, <3>1 DEF Ordered, Extends, OwnUntilStored, Unstored
  <2>6. CASE ~Same(Base(t)[p], Seen(t)[p])
    <3>1. (Seen(t)[p])' = Seen(t)[p] /\ (Base(t)[p])' = Base(t)[p]
      BY <2>2, <2>6 DEF Merged, MergedBase
    <3>2. Ordered(t, p)'
      BY <1>2, <2>1, <2>2, <3>1 DEF Ordered, Extends
    <3>3. OwnUntilStored(t, p)'
      BY <1>2, <2>1, <2>3, <3>1 DEF OwnUntilStored, Unstored
    <3> QED
      BY <3>2, <3>3
  <2> QED
    BY <2>5, <2>6
<1>4. \A p \in Playlist : Final(merged[p]) /\ Final(NoRecords[p]) /\ Final(Rec[p])
  BY InvFacts, FinalSmall, NoRecordsIs DEF Merged
<1>5. \A p \in Playlist :
          Seen(t)[p] = <<>> /\ Held(t)[p] = <<>> => merged[p] = <<>> /\ NoRecords[p] = <<>>
  BY NoRecordsIs DEF Merged
<1> HIDE DEF merged, base
<1> QED
  BY <1>2, <1>3, <1>4, <1>5, StepKeeps

\* An edit keeps the invariant.
LEMMA EditKeeps ==
    ASSUME TabsInv, NEW t \in Tab, NEW p \in Playlist, Edited(t, p)
    PROVE  TabsInv'
<1>1. Typed
  BY DEF TabsInv, Typed
<1>2. PICK e \in Int, v \in Edits :
          /\ Typed' /\ tab'[t].life # "loaded" /\ Rec' = Rec
          /\ Moves(t, [Seen(t) EXCEPT ![p] = v], Base(t), Held(t), tab[t].job)
          /\ \/ /\ v = <<e>> /\ Rec[p] = <<>>
                /\ \A u \in Tab : Seen(u)[p] = <<>> /\ Held(u)[p] = <<>>
             \/ v = Append(Seen(t)[p], e) /\ ~Absent(Seen(t)[p])
  BY <1>1, EditMoves
<1> DEFINE seen == [Seen(t) EXCEPT ![p] = v]
<1>3. Seen(t) \in [Playlist -> Edits]
  <2>1. tab[t] \in TabState
    BY <1>1, TypedTab
  <2> QED
    BY <2>1 DEF TabState, Records, Seen
<1>4. seen[p] = v /\ \A q \in Playlist \ {p} : seen[q] = Seen(t)[q]
  BY <1>3
<1> HIDE DEF seen
<1>5. Final(v) /\ IsPrefix(Seen(t)[p], v) /\ v # <<>>
  <2>1. Seen(t)[p] \in Edits /\ Final(Seen(t)[p])
    BY InvFacts
  <2>2. CASE v = Append(Seen(t)[p], e) /\ ~Absent(Seen(t)[p])
    BY <2>1, <2>2, FinalAppend, PrefixOfAppend
  <2>3. CASE v = <<e>> /\ Seen(t)[p] = <<>>
    BY <2>3, FinalSmall, PrefixOfEmpty
  <2> QED
    BY <1>2, <2>2, <2>3
<1>6. ASSUME NEW q \in Playlist
      PROVE  Ordered(t, q)' /\ OwnUntilStored(t, q)'
  <2>1. /\ Ordered(t, q) /\ OwnUntilStored(t, q)
        /\ Seen(t)[q] \in Edits /\ Base(t)[q] \in Edits /\ Held(t)[q] \in Edits
    BY InvFacts
  <2>2. /\ (Seen(t)[q])' = seen[q] /\ (Base(t)[q])' = Base(t)[q]
        /\ (Held(t)[q])' = Held(t)[q] /\ (Rec[q])' = Rec[q] /\ tab'[t].job = tab[t].job
    BY <1>2 DEF Moves, seen
  <2>3. /\ IsPrefix(Base(t)[q], Seen(t)[q]) => IsPrefix(Base(t)[q], seen[q])
        /\ IsPrefix(Held(t)[q], Seen(t)[q]) => IsPrefix(Held(t)[q], seen[q])
    <3>1. CASE q = p
      BY <1>4, <1>5, <2>1, <3>1, PrefixTrans
    <3>2. CASE q # p
      BY <1>4, <3>2
    <3> QED
      BY <3>1, <3>2
  <2>4. Ordered(t, q)'
    BY <1>2, <2>1, <2>2, <2>3 DEF Ordered, Extends
  <2>5. Own(t, q)' = Own(t, q)
    BY <1>2, <2>2 DEF Own, Moves
  <2>6. seen[q] # <<>> => Seen(t)[q] # <<>> \/ Own(t, q)
    <3>1. CASE q = p
      <4>1. CASE v = Append(Seen(t)[p], e) /\ ~Absent(Seen(t)[p])
        BY <3>1, <4>1 DEF Absent
      <4>2. CASE /\ v = <<e>> /\ Rec[p] = <<>>
                 /\ \A u \in Tab : Seen(u)[p] = <<>> /\ Held(u)[p] = <<>>
        BY <3>1, <4>2 DEF Own
      <4> QED
        BY <1>2, <4>1, <4>2
    <3>2. CASE q # p
      BY <1>4, <3>2
    <3> QED
      BY <3>1, <3>2
  <2>7. OwnUntilStored(t, q)'
    BY <1>2, <2>1, <2>2, <2>5, <2>6 DEF OwnUntilStored, Unstored
  <2> QED
    BY <2>4, <2>7
<1>7. \A q \in Playlist : Final(seen[q]) /\ Final(Held(t)[q]) /\ Final(Rec[q])
  BY <1>4, <1>5, InvFacts
<1>8. ASSUME NEW q \in Playlist, NEW u \in Tab \ {t}
      PROVE  \/ Seen(u)[q] = <<>>
             \/ Seen(t)[q] = <<>> => seen[q] = <<>>
  <2>1. CASE q = p
    <3>1. CASE v = Append(Seen(t)[p], e) /\ ~Absent(Seen(t)[p])
      BY <2>1, <3>1 DEF Absent
    <3>2. CASE \A w \in Tab : Seen(w)[p] = <<>>
      BY <2>1, <3>2
    <3> QED
      BY <1>2, <3>1, <3>2
  <2>2. CASE q # p
    BY <1>4, <2>2
  <2> QED
    BY <2>1, <2>2
<1>9. Moves(t, seen, Base(t), Held(t), tab[t].job)
  BY <1>2 DEF seen
<1> QED
  BY <1>2, <1>6, <1>7, <1>8, <1>9, StepKeeps

-----------------------------------------------------------------------------
(* The theorems.                                                           *)

\* The disjuncts of a step, by what they do to the versions.
LEMMA StepCases ==
    ASSUME NEW t \in Tab, TabStep(t)
    PROVE  \/ Quiet(t) \/ Ends(t) \/ LoadRead(t) \/ RefreshReads(t) \/ Hydrate(t) \/ Close(t)
           \/ SaveBegins(t) \/ SaveStores(t) \/ SaveEnds(t) \/ RefreshEnds(t)
           \/ \E p \in Playlist : Edited(t, p)
BY DEF TabStep, Quiet, Ends, Edited

\* Nothing is shown or carried before the first page is opened.
LEMMA InitInv == TabsInit => TabsInv
<1> SUFFICES ASSUME TabsInit PROVE TabsInv
  OBVIOUS
<1>1. \A t \in Tab : tab[t] = Closed
  BY DEF TabsInit
<1>2. \A t \in Tab, p \in Playlist :
          Seen(t)[p] = <<>> /\ Base(t)[p] = <<>> /\ Held(t)[p] = <<>> /\ tab[t].job = "none"
  BY <1>1 DEF Seen, Base, Held, Closed, Nothing
<1>3. \A p \in Playlist : Rec[p] \in Edits /\ Final(Rec[p])
  <2>1. \A p \in Playlist : Rec[p] = <<0>> \/ Rec[p] = <<>>
    BY DEF TabsInit, Rec
  <2>2. <<>> \in Edits /\ <<0>> \in Edits
    BY DEF Edits
  <2>3. Final(<<>>) /\ Final(<<0>>)
    BY DEF Final
  <2> QED
    BY <2>1, <2>2, <2>3
<1>4. TabsTyped
  <2>1. <<>> \in Edits /\ <<0>> \in Edits
    BY DEF Edits
  <2>2. db \in Records
    BY <2>1 DEF TabsInit, Records
  <2>3. tab \in [Tab -> TabState]
    BY ClosedTyped DEF TabsInit
  <2> QED
    BY <2>2, <2>3 DEF TabsTyped, TabsInit
<1>5. TabsOrderly
  BY <1>1 DEF TabsOrderly, Orderly, Closed
<1>6. DeletionIsLast
  BY <1>2, <1>3, FinalSmall DEF DeletionIsLast
<1>7. HeldInOrder
  <2> SUFFICES ASSUME NEW t \in Tab, NEW p \in Playlist PROVE Ordered(t, p)
    BY DEF HeldInOrder
  <2>1. Rec[p] \in Edits
    BY <1>3
  <2>2. IsPrefix(<<>>, <<>>) /\ IsPrefix(<<>>, Rec[p])
    BY <2>1, EmptyIsEdits, PrefixOfEmpty
  <2> QED
    BY <1>2, <2>2 DEF Ordered, Extends
<1>8. UnstoredIsOwn
  BY <1>2 DEF UnstoredIsOwn, OwnUntilStored, Unstored
<1> QED
  BY <1>4, <1>5, <1>6, <1>7, <1>8 DEF TabsInv

\* The invariant is inductive.
LEMMA StepInv ==
    ASSUME TabsInv, [TabsNext]_tabVars
    PROVE  TabsInv'
<1>1. CASE UNCHANGED tabVars
  BY <1>1 DEF tabVars, TabsInv, TabsTyped, TabsOrderly, DeletionIsLast, HeldInOrder,
              UnstoredIsOwn, Ordered, OwnUntilStored, Own, Unstored, Seen, Base, Held, Rec
<1>2. CASE TabsNext
  <2>1. PICK t \in Tab : TabStep(t)
    BY <1>2 DEF TabsNext
  <2> QED
    BY <2>1, StepCases, QuietKeeps, EndsKeeps, ReadKeeps, HydrateKeeps, CloseKeeps,
       SaveBeginsKeeps, SaveStoresKeeps, SaveEndsKeeps, RefreshEndsKeeps, EditKeeps
<1> QED
  BY <1>1, <1>2

\* At every moment what a save or a refresh carries lies, in the order of the
\* edits, between the baseline it is compared with, what its tab shows and what
\* is stored, and a playlist that is not stored yet is known to its tab alone.
THEOREM TabsInvariant == TabsSpec => []TabsInv
<1>1. TabsInit => TabsInv
  BY InitInv
<1>2. TabsInv /\ [TabsNext]_tabVars => TabsInv'
  BY StepInv
<1> QED
  BY <1>1, <1>2, PTL DEF TabsSpec

\* Of all steps only a save's transaction writes, and it extends what it finds.
LEMMA StoredGrows ==
    ASSUME TabsInv, NEW t \in Tab, TabStep(t), NEW p \in Playlist
    PROVE  Extends(Rec'[p], Rec[p])
<1>1. Typed
  BY DEF TabsInv, Typed
<1>2. CASE SaveStores(t)
  <2>1. Rec[p] \in Edits
    BY InvFacts
  <2>2. Rec'[p] = Rec[p] \/ IsPrefix(Rec[p], Rec'[p])
    BY <1>2, SaveExtends
  <2> QED
    BY <2>1, <2>2, PrefixSelf DEF Extends
<1>3. CASE ~SaveStores(t)
  <2>1. Rec' = Rec
    BY <1>1, <1>3, StepCases, QuietMoves, EndsMoves, ReadMoves, HydrateMoves, CloseMoves,
       SaveBeginsMoves, SaveEndsMoves, RefreshEndsMoves, EditMoves
  <2>2. Rec[p] \in Edits
    BY InvFacts
  <2> QED
    BY <2>1, <2>2, PrefixSelf DEF Extends
<1> QED
  BY <1>2, <1>3

\* NoEditOverwritten, for any number of tabs, playlists, edits and failures: the
\* comparison that the transaction of save makes is enough to keep the edits
\* that other tabs have stored.
THEOREM EditsNeverOverwritten == TabsSpec => NoEditOverwritten
<1>1. TabsInv /\ [TabsNext]_tabVars
          => [\A p \in Playlist : Extends(db'.rec[p], db.rec[p])]_tabVars
  <2> SUFFICES ASSUME TabsInv, TabsNext
               PROVE  \A p \in Playlist : Extends(db'.rec[p], db.rec[p])
    OBVIOUS
  <2>1. PICK t \in Tab : TabStep(t)
    BY DEF TabsNext
  <2> QED
    BY <2>1, StoredGrows DEF Rec
<1> QED
  BY <1>1, TabsInvariant, PTL DEF TabsSpec, NoEditOverwritten

\* A refresh shows the stored version of a playlist only if that extends what
\* the tab shows: one that has no pending edit is shown as it was last stored.
LEMMA MergeExtends ==
    ASSUME TabsInv, NEW t \in Tab, NEW p \in Playlist, tab[t].job = "read"
    PROVE  Extends(Merged(t, p), Seen(t)[p])
<1> DEFINE seen == Seen(t)[p]
           base == Base(t)[p]
           held == Held(t)[p]
           rec == Rec[p]
<1>1. /\ Ordered(t, p) /\ OwnUntilStored(t, p)
      /\ seen \in Edits /\ base \in Edits /\ held \in Edits /\ rec \in Edits /\ Final(seen)
  BY InvFacts
<1>2. IsPrefix(base, seen) /\ Extends(held, base) /\ IsPrefix(held, rec)
  BY <1>1 DEF Ordered
<1>3. base = <<>> /\ seen # <<>> => rec = <<>>
  BY <1>1 DEF OwnUntilStored, Unstored, Own
<1>4. Merged(t, p) = IF Same(base, seen) THEN held ELSE seen
  BY DEF Merged
<1> HIDE DEF seen, base, held, rec
<1>5. CASE ~Same(base, seen)
  BY <1>1, <1>4, <1>5, PrefixSelf DEF Extends, seen
<1>6. CASE base = seen
  BY <1>2, <1>4, <1>6 DEF Same, seen
<1>7. CASE base # seen /\ Absent(base) /\ Absent(seen)
  <2>1. base = <<>>
    BY <1>1, <1>2, <1>7, AbsentPrefix
  <2>2. rec = <<>>
    BY <1>3, <1>7, <2>1
  <2>3. held = <<>>
    BY <1>1, <1>2, <2>2, PrefixOfEmpty
  <2> QED
    BY <1>4, <1>7, <2>3 DEF Same, Extends, Absent, seen
<1> QED
  BY <1>5, <1>6, <1>7 DEF Same

\* What a page that is up shows of a playlist grows with every step.
LEMMA SeenGrows ==
    ASSUME TabsInv, NEW t \in Tab, TabStep(t), NEW p \in Playlist,
           tab[t].life = "ready", tab'[t].life = "ready"
    PROVE  Extends(Seen(t)'[p], Seen(t)[p])
<1>1. Typed
  BY DEF TabsInv, Typed
<1>2. Seen(t)[p] \in Edits /\ Ordered(t, p)
  BY InvFacts
<1>3. CASE \/ Quiet(t) \/ Ends(t) \/ LoadRead(t) \/ RefreshReads(t)
           \/ SaveBegins(t) \/ SaveStores(t) \/ SaveEnds(t)
  <2>1. Seen(t)' = Seen(t)
    BY <1>1, <1>3, QuietMoves, EndsMoves, ReadMoves, SaveBeginsMoves, SaveStoresMoves,
       SaveEndsMoves DEF Moves
  <2> QED
    BY <1>2, <2>1, PrefixSelf DEF Extends
<1>4. ~Hydrate(t)
  BY DEF Hydrate
<1>5. ~Close(t)
  <2>1. tab \in [Tab -> TabState]
    BY <1>1, TypedTab
  <2> QED
    BY <2>1 DEF Close, Closed
<1>6. CASE RefreshEnds(t)
  <2>1. Seen(t)'[p] = Merged(t, p) /\ tab[t].job = "read"
    BY <1>1, <1>6, RefreshEndsMoves DEF Moves
  <2> QED
    BY <2>1, MergeExtends
<1>7. ASSUME NEW q \in Playlist, Edited(t, q)
      PROVE  Extends(Seen(t)'[p], Seen(t)[p])
  <2>1. PICK e \in Int, v \in Edits :
            /\ Seen(t)' = [Seen(t) EXCEPT ![q] = v]
            /\ (v = <<e>> /\ Seen(t)[q] = <<>>)
                   \/ (v = Append(Seen(t)[q], e) /\ ~Absent(Seen(t)[q]))
    BY <1>1, <1>7, EditMoves DEF Moves
  <2>2. Seen(t) \in [Playlist -> Edits]
    BY <1>1, TypedTab DEF TabState, Records, Seen
  <2>3. CASE p # q
    BY <1>2, <2>1, <2>2, <2>3, PrefixSelf DEF Extends
  <2>4. CASE p = q
    <3>1. Seen(t)'[p] = v
      BY <2>1, <2>2, <2>4
    <3>2. IsPrefix(Seen(t)[p], v)
      BY <1>2, <2>1, <2>4, PrefixOfEmpty, PrefixOfAppend
    <3> QED
      BY <3>1, <3>2 DEF Extends
  <2> QED
    BY <2>3, <2>4
<1> QED
  BY <1>3, <1>4, <1>5, <1>6, <1>7, StepCases

\* NoEditDropped, for any number of tabs, playlists, edits and failures: the
\* merge of refresh keeps the edits made while it was reading.
THEOREM EditsNeverDropped == TabsSpec => NoEditDropped
<1> DEFINE Grows(t) == \A p \in Playlist : Extends(tab'[t].view.rec[p], tab[t].view.rec[p])
<1>1. ASSUME TabsInv, TabsNext, NEW t \in Tab, tab[t].life = "ready", tab'[t].life = "ready"
      PROVE  Grows(t)
  <2> SUFFICES ASSUME NEW p \in Playlist PROVE Extends(Seen(t)'[p], Seen(t)[p])
    BY DEF Seen
  <2>1. PICK u \in Tab : TabStep(u)
    BY <1>1 DEF TabsNext
  <2>2. CASE u = t
    BY <1>1, <2>1, <2>2, SeenGrows
  <2>3. CASE u # t
    <3>1. Typed /\ Seen(t)[p] \in Edits
      BY <1>1, InvFacts
    <3>2. Seen(t)' = Seen(t)
      BY <2>1, <2>3, <3>1, StepCases, QuietMoves, EndsMoves, ReadMoves, HydrateMoves,
         CloseMoves, SaveBeginsMoves, SaveStoresMoves, SaveEndsMoves, RefreshEndsMoves,
         EditMoves DEF Moves
    <3> QED
      BY <3>1, <3>2, PrefixSelf DEF Extends
  <2> QED
    BY <2>2, <2>3
<1>2. TabsInv /\ [TabsNext]_tabVars
          => [\A t \in Tab : tab[t].life = "ready" /\ tab'[t].life = "ready" =>
                  \A p \in Playlist : Extends(tab'[t].view.rec[p], tab[t].view.rec[p])]_tabVars
  BY <1>1
<1> QED
  BY <1>2, TabsInvariant, PTL DEF TabsSpec, NoEditDropped

-----------------------------------------------------------------------------
(* A tab at rest that shows "saved" shows what is stored.                  *)

\* Two assignments of versions to the playlists show the same.
Agree(f, g) == \A p \in Playlist : Same(f[p], g[p])

\* A save is stored and not yet broadcast.
Underway == \E u \in Tab : tab[u].job = "stored"

Has(queue, operation) == \E i \in 1..Len(queue) : queue[i] = operation

\* The operations of a tab that have not begun.
Waiting(s) == IF s.job = "none" THEN s.queue ELSE Tail(s.queue)

SaveComing(s) == s.timer \/ Has(Waiting(s), "save")

\* A save is coming, and will read them, for edits that the running save or,
\* without one, the baseline does not have.
ShownIsKnown(s) ==
    IF s.job \in {"saving", "stored"}
    THEN SaveComing(s) \/ Agree(s.view.rec, s.held.rec)
    ELSE \/ s.life = "ready" /\ s.status = "error"
         \/ SaveComing(s) \/ Agree(s.view.rec, s.baseline)

\* An operation is to come that reads the database.
Unread(s) == s.queue # <<>> /\ (s.job = "read" => Len(s.queue) > 1)

\* What a subscribed tab last read is what is stored, or it will read it again.
KnownIsStored(t, s, missed) ==
    s.listening =>
        \/ t \in missed \/ Underway
        \/ s.status = "error" \/ s.timer \/ s.mail # 0 \/ Unread(s)
        \/ Agree(IF s.job = "read" THEN s.held.rec ELSE s.baseline, Rec)

\* The same of a page that has read the playlists and shows nothing yet.
LoadIsStored(t, s, missed) ==
    s.life = "loaded" => t \in missed \/ Underway \/ Agree(s.held.rec, Rec)

Current(t, s, missed) ==
    ShownIsKnown(s) /\ KnownIsStored(t, s, missed) /\ LoadIsStored(t, s, missed)

TabsCurrent == \A t \in Tab : Current(t, tab[t], untold)

\* Showing the same is an equivalence.
LEMMA AgreeIsEquivalence ==
    /\ \A f : Agree(f, f)
    /\ \A f, g : Agree(f, g) => Agree(g, f)
    /\ \A f, g, h : Agree(f, g) /\ Agree(g, h) => Agree(f, h)
BY DEF Agree, Same

\* What is in a queue stays when one is added, also behind the first.
LEMMA HasAppended ==
    ASSUME NEW queue \in Seq({"save", "refresh"}), NEW x \in {"save", "refresh"}, NEW y
    PROVE  LET longer == Append(queue, x)
           IN  /\ longer \in Seq({"save", "refresh"}) /\ longer # <<>>
               /\ Has(longer, x) /\ (Has(queue, y) => Has(longer, y))
               /\ queue # <<>> => /\ Tail(longer) = Append(Tail(queue), x)
                                  /\ Has(Tail(longer), x)
                                  /\ Has(Tail(queue), y) => Has(Tail(longer), y)
                                  /\ Len(longer) > 1
<1> DEFINE longer == Append(queue, x)
<1>1. /\ longer \in Seq({"save", "refresh"}) /\ Len(longer) = Len(queue) + 1 /\ Len(queue) \in Nat
      /\ longer[Len(longer)] = x /\ \A i \in 1..Len(queue) : longer[i] = queue[i]
  OBVIOUS
<1> HIDE DEF longer
<1>2. longer # <<>> /\ Has(longer, x) /\ (Has(queue, y) => Has(longer, y))
  BY <1>1 DEF Has
<1>3. ASSUME queue # <<>>
      PROVE  /\ Tail(longer) = Append(Tail(queue), x) /\ Len(longer) > 1
             /\ Has(Tail(longer), x) /\ (Has(Tail(queue), y) => Has(Tail(longer), y))
  <2>1. Len(queue) > 0
    BY <1>3
  <2>2. /\ Tail(longer) \in Seq({"save", "refresh"}) /\ Len(Tail(longer)) = Len(queue)
        /\ Tail(queue) \in Seq({"save", "refresh"}) /\ Len(Tail(queue)) = Len(queue) - 1
        /\ \A i \in 1..Len(queue) : Tail(longer)[i] = longer[i + 1]
        /\ \A i \in 1..Len(queue) - 1 : Tail(queue)[i] = queue[i + 1]
    BY <1>1, <1>2, <1>3, <2>1
  <2>3. Tail(longer) = Append(Tail(queue), x)
    BY <1>3, <2>1 DEF longer
  <2>4. Tail(longer)[Len(queue)] = x
    BY <1>1, <2>1, <2>2
  <2>5. Has(Tail(longer), x)
    BY <2>1, <2>2, <2>4 DEF Has
  <2>6. ASSUME Has(Tail(queue), y) PROVE Has(Tail(longer), y)
    <3>1. PICK i \in 1..Len(queue) - 1 : Tail(queue)[i] = y
      BY <2>2, <2>6 DEF Has
    <3>2. i \in 1..Len(queue) /\ i + 1 \in 1..Len(queue)
      BY <1>1, <2>1
    <3>3. Tail(longer)[i] = longer[i + 1] /\ longer[i + 1] = queue[i + 1] /\ Tail(queue)[i] = queue[i + 1]
      BY <1>1, <2>2, <3>2
    <3> QED
      BY <2>2, <3>1, <3>2, <3>3 DEF Has
  <2> QED
    BY <1>1, <2>1, <2>3, <2>5, <2>6
<1> QED
  BY <1>1, <1>2, <1>3 DEF longer

\* A save behind a refresh is still to come when the refresh begins.
LEMMA HasBehind ==
    ASSUME NEW queue \in Seq({"save", "refresh"}), queue # <<>>, Head(queue) # "save",
           Has(queue, "save")
    PROVE  Has(Tail(queue), "save")
<1>1. PICK i \in 1..Len(queue) : queue[i] = "save"
  BY DEF Has
<1>2. i # 1
  BY <1>1
<1>3. i - 1 \in 1..Len(Tail(queue)) /\ Tail(queue)[i - 1] = queue[i]
  BY <1>1, <1>2
<1> QED
  BY <1>1, <1>3 DEF Has

\* Something is behind the first if anything is to come after it.
LEMMA HasLonger ==
    ASSUME NEW queue \in Seq({"save", "refresh"}), queue # <<>>, NEW x
    PROVE  /\ Tail(queue) \in Seq({"save", "refresh"})
           /\ Has(Tail(queue), x) => Len(queue) > 1
           /\ Tail(queue) # <<>> <=> Len(queue) > 1
<1>1. /\ Tail(queue) \in Seq({"save", "refresh"}) /\ Len(queue) \in Nat
      /\ Len(Tail(queue)) = Len(queue) - 1
  OBVIOUS
<1>2. Tail(queue) # <<>> <=> Len(Tail(queue)) # 0
  BY <1>1
<1>3. Len(queue) # 0
  OBVIOUS
<1>4. Has(Tail(queue), x) => Len(Tail(queue)) # 0
  BY <1>1 DEF Has
<1> QED
  BY <1>1, <1>2, <1>3, <1>4

\* A step of one tab keeps what is said of the others, if no other save is
\* stored by it, nor one forgotten.
LEMMA OneTabCurrent ==
    ASSUME Typed, TabsCurrent, NEW t \in Tab, NEW s \in TabState, tab' = [tab EXCEPT ![t] = s],
           db' = db, untold \ {t} \subseteq untold', s.job = "stored" <=> tab[t].job = "stored",
           Current(t, s, untold')
    PROVE  TabsCurrent'
<1>1. tab \in [Tab -> TabState]
  BY TypedTab
<1>2. Underway' = Underway
  BY <1>1 DEF Underway
<1>3. ASSUME NEW u \in Tab
      PROVE  Current(u, tab[u], untold)'
  <2>1. CASE u = t
    <3>1. tab'[u] = s
      BY <1>1, <2>1
    <3> QED
      BY <1>2, <2>1, <3>1 DEF Current, KnownIsStored, LoadIsStored, Rec
  <2>2. CASE u # t
    <3>1. tab'[u] = tab[u]
      BY <1>1, <2>2
    <3>2. Current(u, tab[u], untold) /\ (u \in untold => u \in untold')
      BY <2>2 DEF TabsCurrent
    <3> QED
      BY <1>2, <3>1, <3>2 DEF Current, KnownIsStored, LoadIsStored, Rec
  <2> QED
    BY <2>1, <2>2
<1> QED
  BY <1>3 DEF TabsCurrent

\* What is known of one tab.
LEMMA CurrentTab ==
    ASSUME Typed, TabsCurrent, NEW t \in Tab
    PROVE  /\ tab[t] \in TabState /\ Orderly(tab[t]) /\ tab[t].queue \in Seq({"save", "refresh"})
           /\ ShownIsKnown(tab[t]) /\ KnownIsStored(t, tab[t], untold)
           /\ LoadIsStored(t, tab[t], untold)
<1>1. tab[t] \in TabState /\ Orderly(tab[t])
  BY TypedTab
<1> QED
  BY <1>1 DEF TabsCurrent, Current, TabState

\* A page that is opened, or fails to load, is not subscribed.
LEMMA OpenCurrent ==
    ASSUME Typed, TabsCurrent, NEW t \in Tab, Open(t) \/ HydrateFails(t)
    PROVE  TabsCurrent'
<1>1. /\ tab[t] \in TabState /\ Orderly(tab[t]) /\ ShownIsKnown(tab[t])
      /\ tab \in [Tab -> TabState]
  BY CurrentTab, TypedTab
<1>2. CASE Open(t)
  <2>1. PICK s : s = [tab[t] EXCEPT !.life = "loading", !.status = "loading"]
    OBVIOUS
  <2>2. /\ s \in TabState /\ tab' = [tab EXCEPT ![t] = s] /\ db' = db /\ untold' = untold
        /\ tab[t].life # "ready"
    BY <1>1, <1>2, <2>1 DEF Open, TabState
  <2>3. /\ s.life = "loading" /\ s.job = tab[t].job /\ s.view = tab[t].view
        /\ s.baseline = tab[t].baseline /\ s.held = tab[t].held /\ s.queue = tab[t].queue
        /\ s.timer = tab[t].timer /\ s.listening = tab[t].listening
    BY <1>1, <2>1 DEF TabState
  <2>4. ShownIsKnown(s)
    BY <1>1, <2>2, <2>3 DEF ShownIsKnown, SaveComing, Waiting, Orderly
  <2>5. KnownIsStored(t, s, untold') /\ LoadIsStored(t, s, untold')
    BY <1>1, <2>2, <2>3 DEF KnownIsStored, LoadIsStored, Orderly
  <2> QED
    BY <2>2, <2>3, <2>4, <2>5, OneTabCurrent DEF Current
<1>3. CASE HydrateFails(t)
  <2>1. PICK s : s = [tab[t] EXCEPT !.life = "ready", !.status = "error"]
    OBVIOUS
  <2>2. /\ s \in TabState /\ tab' = [tab EXCEPT ![t] = s] /\ db' = db /\ untold' = untold
        /\ tab[t].life # "ready"
    BY <1>1, <1>3, <2>1 DEF HydrateFails, TabState
  <2>3. /\ s.life = "ready" /\ s.status = "error" /\ s.job = tab[t].job
        /\ s.listening = tab[t].listening
    BY <1>1, <2>1 DEF TabState
  <2>4. Current(t, s, untold')
    BY <1>1, <2>2, <2>3 DEF Current, ShownIsKnown, KnownIsStored, LoadIsStored, Orderly
  <2> QED
    BY <2>2, <2>3, <2>4, OneTabCurrent
<1> QED
  BY <1>2, <1>3

\* What a page or a refresh has just read is what is stored.
LEMMA ReadCurrent ==
    ASSUME Typed, TabsCurrent, NEW t \in Tab, LoadRead(t) \/ RefreshReads(t)
    PROVE  TabsCurrent'
<1>1. /\ tab[t] \in TabState /\ Orderly(tab[t]) /\ ShownIsKnown(tab[t])
      /\ tab \in [Tab -> TabState] /\ db \in Records
  BY CurrentTab, TypedTab
<1>2. CASE LoadRead(t)
  <2>1. PICK s : s = [tab[t] EXCEPT !.life = "loaded", !.held = db]
    OBVIOUS
  <2>2. /\ s \in TabState /\ tab' = [tab EXCEPT ![t] = s] /\ db' = db /\ untold' = untold
        /\ tab[t].life # "ready"
    BY <1>1, <1>2, <2>1 DEF LoadRead, TabState
  <2>3. /\ s.life = "loaded" /\ s.job = tab[t].job /\ s.view = tab[t].view
        /\ s.baseline = tab[t].baseline /\ s.held = db /\ s.queue = tab[t].queue
        /\ s.timer = tab[t].timer /\ s.listening = tab[t].listening
    BY <1>1, <2>1 DEF TabState
  <2>4. ShownIsKnown(s)
    BY <1>1, <2>2, <2>3 DEF ShownIsKnown, SaveComing, Waiting, Orderly
  <2>5. KnownIsStored(t, s, untold') /\ LoadIsStored(t, s, untold')
    BY <1>1, <2>2, <2>3, AgreeIsEquivalence DEF KnownIsStored, LoadIsStored, Orderly, Rec
  <2> QED
    BY <2>2, <2>3, <2>4, <2>5, OneTabCurrent DEF Current
<1>3. CASE RefreshReads(t)
  <2>1. PICK s : s = [tab[t] EXCEPT !.job = "read", !.held = db]
    OBVIOUS
  <2>2. /\ s \in TabState /\ tab' = [tab EXCEPT ![t] = s] /\ db' = db /\ untold' = untold \ {t}
        /\ tab[t].job = "reading"
    BY <1>1, <1>3, <2>1 DEF RefreshReads, TabState
  <2>3. /\ s.life = tab[t].life /\ s.job = "read" /\ s.view = tab[t].view
        /\ s.baseline = tab[t].baseline /\ s.held = db /\ s.queue = tab[t].queue
        /\ s.timer = tab[t].timer /\ s.status = tab[t].status
    BY <1>1, <2>1 DEF TabState
  <2>4. ShownIsKnown(s)
    BY <1>1, <2>2, <2>3 DEF ShownIsKnown, SaveComing, Waiting
  <2>5. KnownIsStored(t, s, untold') /\ LoadIsStored(t, s, untold')
    BY <1>1, <2>2, <2>3, AgreeIsEquivalence DEF KnownIsStored, LoadIsStored, Orderly, Rec
  <2> QED
    BY <2>2, <2>3, <2>4, <2>5, OneTabCurrent DEF Current
<1> QED
  BY <1>2, <1>3

\* A page that comes up shows what it has read.
LEMMA HydrateCurrent ==
    ASSUME Typed, TabsCurrent, NEW t \in Tab, Hydrate(t)
    PROVE  TabsCurrent'
<1>1. /\ tab[t] \in TabState /\ Orderly(tab[t]) /\ LoadIsStored(t, tab[t], untold)
      /\ tab \in [Tab -> TabState]
  BY CurrentTab, TypedTab
<1>2. PICK active \in Playlist \cup {None} :
          tab' = [tab EXCEPT ![t] = [@ EXCEPT !.life = "ready", !.status = "saved",
                                              !.view = [tab[t].held EXCEPT !.active = active],
                                              !.baseline = tab[t].held.rec, !.held = Nothing,
                                              !.listening = TRUE]]
  BY <1>1 DEF Hydrate, Fallback, Listed, TabState, Records
<1>3. PICK view : view = [tab[t].held EXCEPT !.active = active]
  OBVIOUS
<1>4. /\ view \in Records /\ view.rec = tab[t].held.rec /\ Nothing \in Records
      /\ tab[t].held.rec \in [Playlist -> Edits]
  <2>1. tab[t].held \in Records
    BY <1>1 DEF TabState
  <2>2. view \in Records /\ view.rec = tab[t].held.rec /\ tab[t].held.rec \in [Playlist -> Edits]
    BY <1>3, <2>1 DEF Records
  <2> QED
    BY <2>2 DEF Records, Nothing, Edits
<1>5. PICK s : s = [tab[t] EXCEPT !.life = "ready", !.status = "saved", !.view = view,
                                  !.baseline = tab[t].held.rec, !.held = Nothing,
                                  !.listening = TRUE]
  OBVIOUS
<1>6. /\ s \in TabState /\ tab' = [tab EXCEPT ![t] = s] /\ db' = db /\ untold' = untold
      /\ tab[t].life = "loaded"
  BY <1>1, <1>2, <1>3, <1>4, <1>5 DEF Hydrate, TabState
<1>7. /\ s.life = "ready" /\ s.job = tab[t].job /\ s.view = view /\ s.job = "none"
      /\ s.baseline = tab[t].held.rec
  BY <1>1, <1>5, <1>6 DEF TabState, Orderly
<1>8. Current(t, s, untold')
  BY <1>1, <1>4, <1>6, <1>7, AgreeIsEquivalence
     DEF Current, ShownIsKnown, KnownIsStored, LoadIsStored
<1> QED
  BY <1>6, <1>7, <1>8, OneTabCurrent

\* An edit schedules a save.
LEMMA ShowsCurrent ==
    ASSUME Typed, TabsCurrent, NEW t \in Tab, NEW rec \in [Playlist -> Edits],
           NEW active \in Playlist \cup {None}, Shows(t, rec, active), CanEdit(t),
           db' = db, untold' = untold
    PROVE  TabsCurrent'
<1>1. /\ tab[t] \in TabState /\ tab \in [Tab -> TabState]
  BY CurrentTab, TypedTab
<1>2. PICK view : view = [rec |-> rec, active |-> active]
  OBVIOUS
<1>3. PICK s : s = [tab[t] EXCEPT !.view = view, !.status = "saving", !.timer = TRUE]
  OBVIOUS
<1>4. view \in Records
  BY <1>2 DEF Records
<1>5. /\ s \in TabState /\ tab' = [tab EXCEPT ![t] = s]
      /\ s.timer /\ s.job = tab[t].job /\ s.life = "ready"
  BY <1>1, <1>2, <1>3, <1>4 DEF Shows, ScheduleSave, TabState, CanEdit
<1>6. Current(t, s, untold')
  BY <1>5 DEF Current, ShownIsKnown, SaveComing, KnownIsStored, LoadIsStored
<1> QED
  BY <1>5, <1>6, OneTabCurrent

\* Every edit of the user is one.
LEMMA EditCurrent ==
    ASSUME Typed, TabsCurrent, NEW t \in Tab, NEW p \in Playlist, Edited(t, p) \/ SetActive(t, p)
    PROVE  TabsCurrent'
<1>1. /\ tab[t] \in TabState /\ edits \in Nat
  BY TypedTab
<1>2. /\ tab[t].view.rec \in [Playlist -> Edits] /\ tab[t].view.active \in Playlist \cup {None}
      /\ <<edits + 1>> \in Edits
      /\ Append(tab[t].view.rec[p], edits + 1) \in Edits
      /\ Append(tab[t].view.rec[p], -(edits + 1)) \in Edits
  <2>1. /\ tab[t].view.rec \in [Playlist -> Edits]
        /\ tab[t].view.active \in Playlist \cup {None}
    BY <1>1 DEF TabState, Records
  <2>2. edits + 1 \in Int /\ -(edits + 1) \in Int /\ tab[t].view.rec[p] \in Edits
    BY <1>1, <2>1
  <2> QED
    BY <2>1, <2>2, PrefixOfAppend DEF Edits
<1>3. CASE Create(t, p)
  <2>1. [tab[t].view.rec EXCEPT ![p] = <<edits + 1>>] \in [Playlist -> Edits]
    BY <1>2
  <2> QED
    BY <1>3, <2>1, ShowsCurrent DEF Create
<1>4. CASE Edit(t, p)
  <2>1. [tab[t].view.rec EXCEPT ![p] = Append(@, edits + 1)] \in [Playlist -> Edits]
    BY <1>2
  <2> QED
    BY <1>2, <1>4, <2>1, ShowsCurrent DEF Edit
<1>5. CASE Delete(t, p)
  <2> DEFINE rec == [tab[t].view.rec EXCEPT ![p] = Append(@, -(edits + 1))]
  <2>1. rec \in [Playlist -> Edits]
    BY <1>2
  <2>2. PICK active \in Playlist \cup {None} : Shows(t, rec, active)
    BY <1>2, <1>5 DEF Delete, Fallback, Listed
  <2> HIDE DEF rec
  <2> QED
    BY <1>5, <2>1, <2>2, ShowsCurrent DEF Delete
<1>6. CASE SetActive(t, p)
  BY <1>2, <1>6, ShowsCurrent DEF SetActive
<1> QED
  BY <1>3, <1>4, <1>5, <1>6, EditedCases

\* A save or a refresh that is asked for is queued behind the others.
LEMMA QueueCurrent ==
    ASSUME Typed, TabsCurrent, NEW t \in Tab, PersistNow(t) \/ Synchronize(t)
    PROVE  TabsCurrent'
<1>1. /\ tab[t] \in TabState /\ Orderly(tab[t]) /\ ShownIsKnown(tab[t])
      /\ KnownIsStored(t, tab[t], untold) /\ LoadIsStored(t, tab[t], untold)
      /\ tab \in [Tab -> TabState] /\ tab[t].queue \in Seq({"save", "refresh"})
  BY CurrentTab, TypedTab
<1>2. CASE PersistNow(t)
  <2>1. PICK s : s = [tab[t] EXCEPT !.timer = FALSE, !.queue = Append(@, "save")]
    OBVIOUS
  <2>2. /\ Append(tab[t].queue, "save") \in Seq({"save", "refresh"})
        /\ Has(Append(tab[t].queue, "save"), "save") /\ Append(tab[t].queue, "save") # <<>>
        /\ tab[t].queue # <<>> => /\ Has(Tail(Append(tab[t].queue, "save")), "save")
                                  /\ Len(Append(tab[t].queue, "save")) > 1
    BY <1>1, HasAppended
  <2>3. /\ s \in TabState /\ tab' = [tab EXCEPT ![t] = s] /\ db' = db /\ untold' = untold
        /\ tab[t].life = "ready"
    BY <1>1, <1>2, <2>1, <2>2 DEF PersistNow, TabState, Orderly
  <2>4. /\ s.life = tab[t].life /\ s.job = tab[t].job /\ s.queue = Append(tab[t].queue, "save")
    BY <1>1, <2>1 DEF TabState
  <2>5. Has(Waiting(s), "save")
    BY <1>1, <2>2, <2>4 DEF Waiting, Orderly
  <2>6. Unread(s)
    BY <1>1, <2>2, <2>4 DEF Unread, Orderly
  <2>7. Current(t, s, untold')
    BY <2>3, <2>4, <2>5, <2>6 DEF Current, ShownIsKnown, SaveComing, KnownIsStored, LoadIsStored
  <2> QED
    BY <2>3, <2>4, <2>7, OneTabCurrent
<1>3. CASE Synchronize(t)
  <2>1. PICK s : s = [tab[t] EXCEPT !.mail = @ - 1, !.queue = Append(@, "refresh")]
    OBVIOUS
  <2>2. /\ Append(tab[t].queue, "refresh") \in Seq({"save", "refresh"})
        /\ Has(tab[t].queue, "save") => Has(Append(tab[t].queue, "refresh"), "save")
        /\ Append(tab[t].queue, "refresh") # <<>>
        /\ tab[t].queue # <<>> => /\ Len(Append(tab[t].queue, "refresh")) > 1
                                  /\ Has(Tail(tab[t].queue), "save") =>
                                        Has(Tail(Append(tab[t].queue, "refresh")), "save")
    BY <1>1, HasAppended
  <2>3. /\ s \in TabState /\ tab' = [tab EXCEPT ![t] = s] /\ db' = db /\ untold' = untold
        /\ tab[t].life = "ready"
    BY <1>1, <1>3, <2>1, <2>2 DEF Synchronize, TabState, Orderly
  <2>4. /\ s.life = tab[t].life /\ s.job = tab[t].job /\ s.queue = Append(tab[t].queue, "refresh")
        /\ s.timer = tab[t].timer /\ s.status = tab[t].status /\ s.view = tab[t].view
        /\ s.baseline = tab[t].baseline /\ s.held = tab[t].held
    BY <1>1, <2>1 DEF TabState
  <2>5. Has(Waiting(tab[t]), "save") => Has(Waiting(s), "save")
    BY <1>1, <2>2, <2>4 DEF Waiting, Orderly
  <2>6. Unread(s)
    BY <1>1, <2>2, <2>4 DEF Unread, Orderly
  <2>7. ShownIsKnown(s)
    BY <1>1, <2>4, <2>5 DEF ShownIsKnown, SaveComing
  <2>8. Current(t, s, untold')
    BY <2>3, <2>4, <2>6, <2>7 DEF Current, KnownIsStored, LoadIsStored
  <2> QED
    BY <2>3, <2>4, <2>8, OneTabCurrent
<1> QED
  BY <1>2, <1>3

\* The operation whose turn it is begins; a save takes what is shown with it.
LEMMA BeginCurrent ==
    ASSUME Typed, TabsCurrent, NEW t \in Tab, SaveBegins(t) \/ RefreshBegins(t)
    PROVE  TabsCurrent'
<1>1. /\ tab[t] \in TabState /\ Orderly(tab[t]) /\ ShownIsKnown(tab[t])
      /\ tab \in [Tab -> TabState] /\ tab[t].queue \in Seq({"save", "refresh"})
  BY CurrentTab, TypedTab
<1>2. CASE SaveBegins(t)
  <2>1. PICK s : s = [tab[t] EXCEPT !.job = "saving", !.held = tab[t].view]
    OBVIOUS
  <2>2. /\ s \in TabState /\ tab' = [tab EXCEPT ![t] = s] /\ db' = db /\ untold' = untold
        /\ tab[t].life = "ready" /\ tab[t].job = "none" /\ tab[t].queue # <<>>
    BY <1>1, <1>2, <2>1 DEF SaveBegins, Next1, TabState, Orderly
  <2>3. /\ s.life = "ready" /\ s.job = "saving" /\ s.queue = tab[t].queue
        /\ s.held = tab[t].view /\ s.view = tab[t].view
    BY <1>1, <2>1, <2>2 DEF TabState
  <2>4. Current(t, s, untold')
    BY <2>2, <2>3, AgreeIsEquivalence
       DEF Current, ShownIsKnown, KnownIsStored, LoadIsStored, Unread
  <2> QED
    BY <2>2, <2>3, <2>4, OneTabCurrent
<1>3. CASE RefreshBegins(t)
  <2>1. PICK s : s = [tab[t] EXCEPT !.job = "reading"]
    OBVIOUS
  <2>2. /\ s \in TabState /\ tab' = [tab EXCEPT ![t] = s] /\ db' = db /\ untold' = untold
        /\ tab[t].life = "ready" /\ tab[t].job = "none" /\ tab[t].queue # <<>>
        /\ Head(tab[t].queue) = "refresh"
    BY <1>1, <1>3, <2>1 DEF RefreshBegins, Next1, TabState, Orderly
  <2>3. /\ s.life = "ready" /\ s.job = "reading" /\ s.queue = tab[t].queue
        /\ s.view = tab[t].view /\ s.baseline = tab[t].baseline
        /\ s.timer = tab[t].timer /\ s.status = tab[t].status
    BY <1>1, <2>1, <2>2 DEF TabState
  <2>4. Has(tab[t].queue, "save") => Has(Tail(tab[t].queue), "save")
    BY <1>1, <2>2, HasBehind
  <2>5. ShownIsKnown(s)
    BY <1>1, <2>2, <2>3, <2>4 DEF ShownIsKnown, SaveComing, Waiting
  <2>6. Current(t, s, untold')
    BY <2>2, <2>3, <2>5 DEF Current, KnownIsStored, LoadIsStored, Unread
  <2> QED
    BY <2>2, <2>3, <2>6, OneTabCurrent
<1> QED
  BY <1>2, <1>3

\* An operation that fails, or is skipped because one has failed, leaves the tab
\* showing the error.
LEMMA EndsCurrent ==
    ASSUME Typed, TabsCurrent, NEW t \in Tab, Ends(t)
    PROVE  TabsCurrent'
<1>1. /\ tab[t] \in TabState /\ Orderly(tab[t]) /\ tab \in [Tab -> TabState]
  BY CurrentTab, TypedTab
<1>2. PICK e : e = Ended(tab[t])
  OBVIOUS
<1>3. tab[t].life = "ready" /\ tab[t].queue # <<>> /\ tab[t].job # "stored"
  BY <1>1 DEF Ends, RefreshSkipped, RefreshFails, SaveAborts, Next1, Orderly
<1>4. e \in TabState /\ e.life = "ready" /\ e.job = "none" /\ e.status = tab[t].status
  <2>1. e.status = tab[t].status
    BY <1>1, <1>2 DEF Ended, TabState
  <2> QED
    BY <1>2, <1>3, <2>1, EndedTab
<1>5. PICK s : s = [e EXCEPT !.status = "error"]
  OBVIOUS
<1>6. s \in TabState /\ s.life = "ready" /\ s.job = "none" /\ s.status = "error"
  BY <1>4, <1>5 DEF TabState
<1>7. tab' = [tab EXCEPT ![t] = s] /\ db' = db /\ untold' = untold
  <2>1. CASE RefreshSkipped(t)
    <3>1. e = [e EXCEPT !.status = "error"]
      BY <1>4, <2>1 DEF RefreshSkipped, TabState
    <3> QED
      BY <1>2, <1>5, <2>1, <3>1 DEF RefreshSkipped
  <2>2. CASE RefreshFails(t) \/ SaveAborts(t)
    BY <1>2, <1>5, <2>2 DEF RefreshFails, SaveAborts
  <2> QED
    BY <2>1, <2>2 DEF Ends
<1>8. Current(t, s, untold')
  BY <1>6 DEF Current, ShownIsKnown, KnownIsStored, LoadIsStored
<1> QED
  BY <1>3, <1>6, <1>7, <1>8, OneTabCurrent

\* A merge brings in what was read, unless an edit is pending: then a save is to
\* come, or the tab shows an error.
LEMMA RefreshEndsCurrent ==
    ASSUME Typed, TabsCurrent, NEW t \in Tab, RefreshEnds(t)
    PROVE  TabsCurrent'
<1>1. /\ tab[t] \in TabState /\ Orderly(tab[t]) /\ ShownIsKnown(tab[t])
      /\ KnownIsStored(t, tab[t], untold)
      /\ tab \in [Tab -> TabState] /\ tab[t].queue \in Seq({"save", "refresh"})
  BY CurrentTab, TypedTab
<1>2. PICK e, merged, base :
          /\ e = Ended(tab[t]) /\ base = Rebased(tab[t])
          /\ merged = [p \in Playlist |-> IF p \in Pending(tab[t]) THEN tab[t].view.rec[p]
                                                                  ELSE tab[t].held.rec[p]]
  OBVIOUS
<1>3. merged \in [Playlist -> Edits] /\ base \in [Playlist -> Edits]
  BY <1>1, <1>2 DEF TabState, Records, Rebased
<1>4. PICK active \in Playlist \cup {None} :
          tab' = [tab EXCEPT ![t] = [e EXCEPT !.baseline = base,
                                              !.view = [rec |-> merged, active |-> active]]]
  <2>1. tab[t].view.active \in Playlist \cup {None} /\ tab[t].held.active \in Playlist \cup {None}
    BY <1>1 DEF TabState, Records
  <2> QED
    BY <1>2, <2>1 DEF RefreshEnds, Fallback, Listed
<1>5. PICK s : s = [e EXCEPT !.baseline = base, !.view = [rec |-> merged, active |-> active]]
  OBVIOUS
<1>6. /\ tab[t].job = "read" /\ tab[t].life = "ready" /\ tab[t].queue # <<>>
      /\ db' = db /\ untold' = untold
  BY <1>1 DEF RefreshEnds, Orderly
<1>7. /\ e \in TabState /\ e.life = "ready" /\ e.job = "none" /\ e.status = tab[t].status
      /\ e.timer = tab[t].timer /\ e.mail = tab[t].mail /\ e.listening = tab[t].listening
      /\ e.queue = Tail(tab[t].queue)
  <2>1. /\ e.status = tab[t].status /\ e.timer = tab[t].timer /\ e.mail = tab[t].mail
        /\ e.listening = tab[t].listening /\ e.queue = Tail(tab[t].queue)
    BY <1>1, <1>2 DEF Ended, TabState
  <2> QED
    BY <1>2, <1>6, <2>1, EndedTab
<1>8. [rec |-> merged, active |-> active] \in Records
  BY <1>3 DEF Records
<1>9. /\ s \in TabState /\ s.life = "ready" /\ s.job = "none" /\ s.status = tab[t].status
      /\ s.timer = tab[t].timer /\ s.mail = tab[t].mail /\ s.listening = tab[t].listening
      /\ s.queue = Tail(tab[t].queue) /\ s.view.rec = merged /\ s.baseline = base
  BY <1>3, <1>5, <1>7, <1>8 DEF TabState
<1>10. tab' = [tab EXCEPT ![t] = s]
  BY <1>4, <1>5
<1>11. /\ Has(Tail(tab[t].queue), "save") => Len(tab[t].queue) > 1
       /\ Tail(tab[t].queue) # <<>> <=> Len(tab[t].queue) > 1
  BY <1>1, <1>6, HasLonger
<1>12. ASSUME Agree(tab[t].view.rec, tab[t].baseline)
       PROVE  merged = base /\ \A p \in Playlist : base[p] = tab[t].held.rec[p]
  <2>1. Pending(tab[t]) = {}
    BY <1>12 DEF Pending, Agree, Same
  <2> QED
    BY <1>2, <2>1 DEF Rebased
<1>13. ShownIsKnown(s)
  BY <1>1, <1>6, <1>9, <1>12, AgreeIsEquivalence DEF ShownIsKnown, SaveComing, Waiting
<1>14. KnownIsStored(t, s, untold')
  <2> SUFFICES ASSUME s.listening, t \notin untold, ~Underway, s.status # "error", ~s.timer,
                      s.mail = 0, ~Unread(s)
               PROVE  Agree(base, Rec)
    BY <1>6, <1>9 DEF KnownIsStored
  <2>1. ~(Len(tab[t].queue) > 1)
    BY <1>9, <1>11 DEF Unread
  <2>2. Agree(tab[t].view.rec, tab[t].baseline)
    BY <1>1, <1>6, <1>9, <1>11, <2>1 DEF ShownIsKnown, SaveComing, Waiting
  <2>3. Agree(tab[t].held.rec, Rec)
    BY <1>1, <1>6, <1>9, <2>1 DEF KnownIsStored, Unread
  <2> QED
    BY <1>12, <2>2, <2>3 DEF Agree
<1> QED
  BY <1>6, <1>9, <1>10, <1>13, <1>14, OneTabCurrent DEF Current, LoadIsStored

\* A save that is stored is news to every tab until it is broadcast.
LEMMA SaveStoresCurrent ==
    ASSUME Typed, TabsCurrent, NEW t \in Tab, SaveStores(t)
    PROVE  TabsCurrent'
<1>1. /\ tab[t] \in TabState /\ ShownIsKnown(tab[t]) /\ tab \in [Tab -> TabState]
  BY CurrentTab, TypedTab
<1>2. PICK s : s = [tab[t] EXCEPT !.job = "stored"]
  OBVIOUS
<1>3. tab' = [tab EXCEPT ![t] = s] /\ tab[t].job = "saving"
  BY <1>2 DEF SaveStores
<1>4. /\ s.job = "stored" /\ s.queue = tab[t].queue /\ s.timer = tab[t].timer
      /\ s.view = tab[t].view /\ s.held = tab[t].held
  BY <1>1, <1>2 DEF TabState
<1>5. ShownIsKnown(s)
  BY <1>1, <1>3, <1>4 DEF ShownIsKnown, SaveComing, Waiting
<1>6. tab'[t] = s /\ \A u \in Tab \ {t} : tab'[u] = tab[u]
  BY <1>1, <1>3
<1>7. Underway'
  BY <1>4, <1>6 DEF Underway
<1>8. ASSUME NEW u \in Tab PROVE ShownIsKnown(tab[u])'
  <2>1. CASE u = t
    BY <1>5, <1>6, <2>1
  <2>2. CASE u # t
    BY <1>6, <2>2 DEF TabsCurrent, Current
  <2> QED
    BY <2>1, <2>2
<1> QED
  BY <1>7, <1>8 DEF TabsCurrent, Current, KnownIsStored, LoadIsStored

\* Every subscribed tab gets the broadcast, and a page that has read the
\* playlists but not subscribed misses it.
LEMMA SaveEndsCurrent ==
    ASSUME Typed, TabsCurrent, NEW t \in Tab, SaveEnds(t)
    PROVE  TabsCurrent'
<1>1. /\ tab[t] \in TabState /\ Orderly(tab[t]) /\ ShownIsKnown(tab[t])
      /\ tab \in [Tab -> TabState]
  BY CurrentTab, TypedTab
<1>2. PICK e : e = Ended(tab[t])
  OBVIOUS
<1>3. PICK s : s = [e EXCEPT !.baseline = tab[t].held.rec, !.status = "saved"]
  OBVIOUS
<1>4. /\ tab[t].job = "stored" /\ tab[t].life = "ready" /\ tab[t].queue # <<>>
      /\ untold' = untold \cup {u \in Tab : tab[u].life = "loaded"}
  BY <1>1 DEF SaveEnds, Orderly
<1>5. /\ e \in TabState /\ e.life = "ready" /\ e.job = "none" /\ e.view = tab[t].view
      /\ e.timer = tab[t].timer /\ e.queue = Tail(tab[t].queue) /\ e.listening = tab[t].listening
  <2>1. /\ e.timer = tab[t].timer /\ e.queue = Tail(tab[t].queue)
        /\ e.listening = tab[t].listening
    BY <1>1, <1>2 DEF Ended, TabState
  <2> QED
    BY <1>2, <1>4, <2>1, EndedTab
<1>6. /\ s \in TabState /\ s.life = "ready" /\ s.job = "none" /\ s.view = tab[t].view
      /\ s.timer = tab[t].timer /\ s.queue = Tail(tab[t].queue)
      /\ s.listening = tab[t].listening /\ s.baseline = tab[t].held.rec
  <2>1. tab[t].held.rec \in [Playlist -> Edits]
    BY <1>1 DEF TabState, Records
  <2> QED
    BY <1>3, <1>5, <2>1 DEF TabState
<1>7. ShownIsKnown(s)
  BY <1>1, <1>4, <1>6 DEF ShownIsKnown, SaveComing, Waiting
<1>8. ASSUME NEW u \in Tab
      PROVE  Current(u, tab[u], untold)'
  <2>1. PICK a : a = IF u # t THEN tab[u] ELSE s
    OBVIOUS
  <2>2. tab'[u] = IF u \in Told(t) THEN [a EXCEPT !.mail = @ + 1] ELSE a
    BY <1>2, <1>3, <2>1 DEF SaveEnds
  <2>3. a \in TabState /\ ShownIsKnown(a) /\ a.listening = tab[u].listening
    BY <1>6, <1>7, <2>1, CurrentTab
  <2>4. a.life = tab[u].life
    BY <1>4, <1>6, <2>1
  <2>5. PICK b : b = tab'[u]
    OBVIOUS
  <2>6. /\ b.life = a.life /\ b.status = a.status /\ b.job = a.job /\ b.queue = a.queue
        /\ b.timer = a.timer /\ b.view = a.view /\ b.baseline = a.baseline /\ b.held = a.held
        /\ b.listening = a.listening /\ (b.listening => b.mail # 0)
    BY <2>2, <2>3, <2>5 DEF TabState, Told
  <2>7. ShownIsKnown(b)
    BY <2>3, <2>6 DEF ShownIsKnown, SaveComing, Waiting
  <2>8. b.life = "loaded" => u \in untold'
    BY <1>4, <2>4, <2>6
  <2> QED
    BY <2>5, <2>6, <2>7, <2>8 DEF Current, KnownIsStored, LoadIsStored
<1> QED
  BY <1>8 DEF TabsCurrent

\* The broadcast of a save that is stored when its tab is closed is missed by all.
LEMMA CloseCurrent ==
    ASSUME Typed, TabsCurrent, NEW t \in Tab, Close(t)
    PROVE  TabsCurrent'
<1>1. tab' = [tab EXCEPT ![t] = Closed] /\ tab \in [Tab -> TabState] /\ db' = db
  BY TypedTab DEF Close
<1>2. \A missed : Current(t, Closed, missed)
  BY AgreeIsEquivalence
     DEF Current, ShownIsKnown, KnownIsStored, LoadIsStored, Closed, Nothing
<1>3. CASE tab[t].job # "stored"
  <2>1. untold' = untold \ {t} /\ Closed.job = "none"
    BY <1>3 DEF Close, Closed
  <2> QED
    BY <1>1, <1>2, <1>3, <2>1, ClosedTyped, OneTabCurrent
<1>4. CASE tab[t].job = "stored"
  <2>1. untold' = {u \in Tab : tab[u].life # "closed"} \ {t}
    BY <1>4 DEF Close
  <2>2. ASSUME NEW u \in Tab PROVE Current(u, tab[u], untold)'
    <3>1. CASE u = t
      <4>1. tab'[u] = Closed
        BY <1>1, <3>1
      <4> QED
        BY <4>1, AgreeIsEquivalence
           DEF Current, ShownIsKnown, KnownIsStored, LoadIsStored, Closed, Nothing
    <3>2. CASE u # t
      <4>1. tab'[u] = tab[u] /\ ShownIsKnown(tab[u]) /\ Orderly(tab[u])
        BY <1>1, <3>2, CurrentTab
      <4>2. tab[u].listening \/ tab[u].life = "loaded" => u \in untold'
        BY <2>1, <3>2, <4>1 DEF Orderly
      <4> QED
        BY <4>1, <4>2 DEF Current, KnownIsStored, LoadIsStored
    <3> QED
      BY <3>1, <3>2
  <2> QED
    BY <2>2 DEF TabsCurrent
<1> QED
  BY <1>3, <1>4

\* Whatever a tab does, what it shows or is shown by then is accounted for.
LEMMA StepCurrent ==
    ASSUME Typed, TabsCurrent, [TabsNext]_tabVars
    PROVE  TabsCurrent'
<1>1. CASE UNCHANGED tabVars
  BY <1>1 DEF tabVars, TabsCurrent, Current, KnownIsStored, LoadIsStored, Underway, Rec
<1>2. CASE TabsNext
  <2>1. PICK t \in Tab : TabStep(t)
    BY <1>2 DEF TabsNext
  <2>2. Quiet(t) => \/ Open(t) \/ HydrateFails(t) \/ PersistNow(t) \/ Synchronize(t)
                    \/ RefreshBegins(t) \/ \E p \in Playlist : SetActive(t, p)
    BY DEF Quiet
  <2> QED
    BY <2>1, <2>2, StepCases, OpenCurrent, QueueCurrent, BeginCurrent, EditCurrent, EndsCurrent,
       ReadCurrent, HydrateCurrent, CloseCurrent, SaveStoresCurrent, SaveEndsCurrent,
       RefreshEndsCurrent
<1> QED
  BY <1>1, <1>2

\* At every moment an edit that is not stored has a save coming, and a stored one
\* that a subscribed tab has not read has a broadcast, a refresh or an error on
\* the way.
THEOREM TabsAreCurrent == TabsSpec => []TabsCurrent
<1>1. TabsInit => TabsCurrent
  <2> SUFFICES ASSUME TabsInit, NEW t \in Tab PROVE Current(t, tab[t], untold)
    BY DEF TabsCurrent
  <2>1. tab[t] = Closed
    BY DEF TabsInit
  <2> QED
    BY <2>1, AgreeIsEquivalence
       DEF Current, ShownIsKnown, KnownIsStored, LoadIsStored, Closed, Nothing
<1>2. TabsInv => Typed
  BY DEF TabsInv, Typed
<1>3. Typed /\ TabsCurrent /\ [TabsNext]_tabVars => TabsCurrent'
  BY StepCurrent
<1> QED
  BY <1>1, <1>2, <1>3, TabsInvariant, PTL DEF TabsSpec

\* SavedIsCurrent, for any number of tabs, playlists, edits and failures: the
\* broadcasts, and the refresh each of them asks for, are enough for a tab that
\* shows "saved" and has nothing left to do to show what is stored.
THEOREM SavedTabsAreCurrent == TabsSpec => []SavedIsCurrent
<1>1. ASSUME TabsInv, TabsCurrent
      PROVE  SavedIsCurrent
  <2> SUFFICES ASSUME NEW t \in Tab, AtRest(t), t \notin untold
               PROVE  Agree(tab[t].view.rec, Rec)
    BY DEF SavedIsCurrent, Agree, Rec
  <2>1. /\ Orderly(tab[t]) /\ ShownIsKnown(tab[t]) /\ KnownIsStored(t, tab[t], untold)
    BY <1>1, CurrentTab DEF TabsInv, Typed
  <2>2. /\ tab[t].listening /\ tab[t].status = "saved" /\ ~tab[t].timer /\ tab[t].queue = <<>>
        /\ tab[t].mail = 0 /\ ~Underway /\ tab[t].job = "none"
    BY <2>1 DEF AtRest, Underway, Orderly
  <2>3. ~SaveComing(tab[t]) /\ ~Unread(tab[t])
    BY <2>2 DEF SaveComing, Waiting, Has, Unread
  <2>4. Agree(tab[t].view.rec, tab[t].baseline)
    BY <2>1, <2>2, <2>3 DEF ShownIsKnown
  <2>5. Agree(tab[t].baseline, Rec)
    BY <2>1, <2>2, <2>3 DEF KnownIsStored
  <2> QED
    BY <2>4, <2>5, AgreeIsEquivalence
<1> QED
  BY <1>1, TabsInvariant, TabsAreCurrent, PTL
=============================================================================
