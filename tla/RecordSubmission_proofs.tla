----------------------- MODULE RecordSubmission_proofs -----------------------
(***************************************************************************)
(* The locks of the transactions of RecordSubmission.tla are enough: for   *)
(* any number of sessions, users, levels and times the world record and    *)
(* the personal bests are the fastest records; and, in the second half,    *)
(* whatever submissions and rotations come between one another, ranks are  *)
(* those of the times, a finalized tournament stays as it is, and          *)
(* transactions do not wait for one another in a circle.                   *)
(***************************************************************************)
EXTENDS RecordSubmission, TLAPS, FiniteSetTheorems, WellFoundedInduction

Tables == {"record", "best", "world", "wins", "score", "tour", "result"}

Fields == {"kind", "step", "user", "level", "time", "at", "id", "faster", "tours",
           "hold", "want", "put"}

IsTable(f) == f = [k \in DOMAIN f |-> f[k]]

\* The tables and the transactions have their parts.
Shaped ==
    /\ DOMAIN db = Tables /\ \A table \in Tables : IsTable(db[table])
    /\ DOMAIN txs = Session
    /\ \A s \in Session : DOMAIN txs[s] = Fields /\ DOMAIN txs[s].put = Tables

-----------------------------------------------------------------------------
(* Locks.                                                                  *)

\* No two transactions hold locks one of which would block the other.
LocksExclude ==
    \A s, t \in Session : s # t => \A lock \in txs[s].hold : ~Blocks(t, lock)

\* Only one transaction holds an exclusive lock.
LEMMA ExclusiveAlone ==
    ASSUME LocksExclude, NEW s \in Session, NEW t \in Session, NEW lock,
           Exclusive(lock) \in txs[s].hold, Exclusive(lock) \in txs[t].hold
    PROVE  s = t
<1>1. Exclusive(lock)[1] = "exclusive"
  BY DEF Exclusive
<1> QED
  BY <1>1 DEF LocksExclude, Blocks

\* A step of one transaction keeps the locks apart, if what it takes blocks
\* nobody.
LEMMA LocksStay ==
    ASSUME LocksExclude, NEW s \in Session, NEW tx, DOMAIN txs = Session,
           txs' = [txs EXCEPT ![s] = tx],
           \A t \in Session \ {s} : \A lock \in tx.hold \ txs[s].hold : ~Blocks(t, lock)
    PROVE  LocksExclude'
<1> SUFFICES ASSUME NEW t \in Session, NEW u \in Session, t # u, NEW a \in txs'[t].hold
             PROVE  ~Blocks(u, a)'
  BY DEF LocksExclude
<1>1. txs'[s] = tx /\ \A r \in Session \ {s} : txs'[r] = txs[r]
  OBVIOUS
<1>2. CASE t # s /\ u # s
  BY <1>1, <1>2 DEF LocksExclude, Blocks
<1>3. CASE t = s
  <2>1. a \in txs[s].hold => ~Blocks(u, a)
    BY <1>3 DEF LocksExclude
  <2> QED
    BY <1>1, <1>3, <2>1 DEF Blocks
<1>4. CASE u = s
  <2>1. a \in txs[t].hold
    BY <1>1, <1>4
  <2>2. ASSUME NEW held \in tx.hold, held[2] = a[2], "exclusive" \in {held[1], a[1]}
        PROVE  FALSE
    <3>1. Blocks(t, held)
      BY <2>1, <2>2 DEF Blocks
    <3>2. held \in txs[s].hold
      BY <1>4, <3>1
    <3> QED
      BY <1>4, <3>1, <3>2 DEF LocksExclude
  <2> QED
    BY <1>1, <1>4, <2>2 DEF Blocks
<1> QED
  BY <1>2, <1>3, <1>4

-----------------------------------------------------------------------------
(* Tables.                                                                 *)

\* Writing rows over a table.
LEMMA OverIs ==
    ASSUME NEW rows, NEW table
    PROVE  /\ IsTable(Over(rows, table))
           /\ DOMAIN Over(rows, table) = DOMAIN rows \cup DOMAIN table
           /\ \A k \in DOMAIN rows : Over(rows, table)[k] = rows[k]
           /\ \A k \in DOMAIN table \ DOMAIN rows : Over(rows, table)[k] = table[k]
BY DEF Over, IsTable

\* Writing nothing.
LEMMA OverNothing ==
    ASSUME NEW table, IsTable(table)
    PROVE  Over(<<>>, table) = table
<1>1. DOMAIN <<>> = {}
  OBVIOUS
<1>2. Over(<<>>, table) = [k \in DOMAIN table |-> table[k]]
  BY <1>1 DEF Over
<1> QED
  BY <1>2 DEF IsTable

-----------------------------------------------------------------------------
(* The inductive invariant.                                                *)

Submitting(tx) == tx.step \in {"insert", "results", "recheck", "world"}

Inserted(tx) == tx.step \in {"results", "recheck", "world"}

Key(tx) == <<tx.user, tx.level>>

RecordOf(tx) == [user |-> tx.user, level |-> tx.level, time |-> tx.time, at |-> tx.at]

\* What a transaction has written so far that concerns records: a submission,
\* past its first statement, its record and perhaps the personal best.
Writes(tx) ==
    /\ tx.put.world = <<>> /\ tx.put.wins = <<>>
    /\ IF Inserted(tx)
       THEN /\ tx.id \in 1..lastId /\ tx.id \notin DOMAIN db.record
            /\ tx.put.record = Row(tx.id, RecordOf(tx))
            /\ tx.put.best = <<>> \/ tx.put.best = Row(Key(tx), tx.id)
       ELSE tx.put.record = <<>> /\ tx.put.best = <<>>

\* A submission holds the lock of its user and level, and the one of the world
\* record when it goes on to compare it.
Guarded(tx) ==
    /\ Submitting(tx) => /\ tx.user \in User /\ tx.level \in Level /\ tx.time \in Time
                         /\ Exclusive(UserLevel(tx.user, tx.level)) \in tx.hold
    /\ tx.step = "recheck" /\ tx.faster =>
           \/ tx.want = <<Exclusive(WorldRecord(tx.level))>>
           \/ Exclusive(WorldRecord(tx.level)) \in tx.hold
    /\ tx.step = "world" => Exclusive(WorldRecord(tx.level)) \in tx.hold

BeatsBest(tx) == Beats(db, "best", Key(tx), tx.time)
BeatsWorld(tx) == Beats(db, "world", tx.level, tx.time)

\* What it has found out about the personal best and the world record is still
\* true.
Informed(tx) ==
    /\ Inserted(tx) => (tx.put.best # <<>> <=> BeatsBest(tx))
    /\ tx.step \in {"results", "recheck"} /\ ~tx.faster => ~BeatsWorld(tx)
    /\ tx.step = "world" => BeatsWorld(tx)

TxInv(tx) ==
    /\ tx.kind = "none" => tx.step = "none"
    /\ Writes(tx) /\ Guarded(tx) /\ Informed(tx)

\* No two records get one id.
IdsApart ==
    \A s, t \in Session : s # t /\ Inserted(txs[s]) /\ Inserted(txs[t]) => txs[s].id # txs[t].id

\* The rows refer to one another.
Referring ==
    /\ lastId \in Nat /\ DOMAIN db.record \subseteq 1..lastId
    /\ \A r \in DOMAIN db.record : db.record[r].time \in Nat
    /\ \A l \in DOMAIN db.world : /\ db.world[l] \in DOMAIN db.record
                                  /\ db.record[db.world[l]].level = l
    /\ \A u, l : <<u, l>> \in DOMAIN db.best =>
           /\ db.best[<<u, l>>] \in DOMAIN db.record
           /\ db.record[db.best[<<u, l>>]].user = u /\ db.record[db.best[<<u, l>>]].level = l

RecordInv ==
    /\ Shaped /\ LocksExclude /\ IdsApart /\ Referring /\ RecordsAreFastest
    /\ \A s \in Session : TxInv(txs[s])

\* Whatever is committed, the records and what refers to them stay.
SameRecords ==
    /\ db'.record = db.record /\ db'.best = db.best /\ db'.world = db.world
    /\ DOMAIN db' = Tables /\ \A table \in Tables : IsTable(db'[table])

\* A step of one transaction that commits no record keeps the invariant, if the
\* transaction is in order after it.
LEMMA OneTxKeeps ==
    ASSUME RecordInv, NEW s \in Session, NEW tx, txs' = [txs EXCEPT ![s] = tx],
           DOMAIN tx = Fields, DOMAIN tx.put = Tables, SameRecords,
           lastId' \in Nat, lastId <= lastId',
           \A t \in Session \ {s} : \A lock \in tx.hold \ txs[s].hold : ~Blocks(t, lock),
           TxInv(tx)',
           Inserted(tx) => \/ Inserted(txs[s]) /\ tx.id = txs[s].id
                           \/ tx.id > lastId
    PROVE  RecordInv'
<1>1. txs'[s] = tx /\ (\A t \in Session \ {s} : txs'[t] = txs[t]) /\ DOMAIN txs' = Session
  BY DEF RecordInv, Shaped
<1>2. Shaped'
  BY <1>1 DEF RecordInv, Shaped, SameRecords
<1>3. LocksExclude'
  BY LocksStay DEF RecordInv, Shaped
<1>4. ASSUME NEW t \in Session, t # s
      PROVE  TxInv(txs[t])' /\ (Inserted(txs[t]) => txs[t].id \in 1..lastId)
  <2>1. TxInv(txs[t])
    BY DEF RecordInv
  <2>2. lastId \in Nat
    BY DEF RecordInv, Referring
  <2>3. Writes(txs[t])'
    BY <1>1, <1>4, <2>1, <2>2 DEF TxInv, Writes, SameRecords
  <2>4. (Guarded(txs[t]) /\ Informed(txs[t]))'
    BY <1>1, <1>4, <2>1
       DEF TxInv, Guarded, Informed, BeatsBest, BeatsWorld, Beats, TimeOf, SameRecords
  <2>5. Inserted(txs[t]) => txs[t].id \in 1..lastId
    BY <2>1 DEF TxInv, Writes
  <2> QED
    BY <1>1, <1>4, <2>1, <2>3, <2>4, <2>5 DEF TxInv
<1>5. \A t \in Session : TxInv(txs[t])'
  BY <1>1, <1>4
<1>6. IdsApart'
  <2>1. lastId \in Nat
    BY DEF RecordInv, Referring
  <2>2. \A t \in Session \ {s} : Inserted(txs[t]) => txs[t].id \in 1..lastId
    BY <1>4
  <2>3. ASSUME NEW t \in Session \ {s}, Inserted(tx), Inserted(txs[t])
        PROVE  tx.id # txs[t].id
    <3>1. CASE Inserted(txs[s]) /\ tx.id = txs[s].id
      BY <2>3, <3>1 DEF RecordInv, IdsApart
    <3>2. CASE tx.id > lastId
      BY <2>1, <2>2, <2>3, <3>2
    <3> QED
      BY <2>3, <3>1, <3>2
  <2> QED
    BY <1>1, <2>3 DEF RecordInv, IdsApart
<1>7. Referring'
  <2>1. 1..lastId \subseteq 1..lastId'
    BY DEF RecordInv, Referring
  <2> QED
    BY <2>1 DEF RecordInv, Referring, SameRecords
<1>8. RecordsAreFastest'
  BY DEF RecordInv, RecordsAreFastest, FastestOf, TimeOf, RecordsOf, SameRecords
<1> QED
  BY <1>2, <1>3, <1>5, <1>6, <1>7, <1>8 DEF RecordInv

\* No transaction is in order.
LEMMA NoTxKeeps ==
    ASSUME RecordInv, NEW s \in Session, txs' = [txs EXCEPT ![s] = NoTx], SameRecords,
           lastId' = lastId
    PROVE  RecordInv'
<1>1. PICK tx : tx = NoTx
  OBVIOUS
<1>2. /\ tx.kind = "none" /\ tx.step = "none" /\ tx.hold = {} /\ DOMAIN tx = Fields
      /\ tx.put = [table \in Tables |-> <<>>]
  BY <1>1 DEF NoTx, RecordInv, Shaped, Fields
<1>3. TxInv(tx)' /\ ~Inserted(tx) /\ DOMAIN tx.put = Tables
  BY <1>2 DEF TxInv, Writes, Guarded, Informed, Inserted, Submitting, Tables
<1>4. lastId' \in Nat /\ lastId <= lastId'
  BY DEF RecordInv, Referring
<1>5. \A t \in Session \ {s} : \A lock \in tx.hold \ txs[s].hold : ~Blocks(t, lock)
  BY <1>2
<1>6. txs' = [txs EXCEPT ![s] = tx]
  BY <1>1
<1> QED
  BY <1>2, <1>3, <1>4, <1>5, <1>6, OneTxKeeps

\* What a commit makes of the tables.
LEMMA FinishIs ==
    ASSUME Shaped, NEW s \in Session, NEW put, Finish(s, put)
    PROVE  /\ DOMAIN db' = Tables
           /\ \A table \in Tables : db'[table] = Over(put[table], db[table]) /\ IsTable(db'[table])
           /\ txs' = [txs EXCEPT ![s] = NoTx] /\ lastId' = lastId
BY OverIs DEF Finish, Shaped

\* A commit that brings no record.
LEMMA CommitsNothing ==
    ASSUME RecordInv, NEW s \in Session, NEW put, Finish(s, put),
           put.record = <<>>, put.best = <<>>, put.world = <<>>
    PROVE  RecordInv'
<1>1. Shaped
  BY DEF RecordInv
<1>2. SameRecords
  <2>1. \A table \in Tables : db'[table] = Over(put[table], db[table]) /\ IsTable(db[table])
    BY <1>1, FinishIs DEF Shaped
  <2>2. /\ db'.record = Over(<<>>, db.record) /\ IsTable(db.record)
        /\ db'.best = Over(<<>>, db.best) /\ IsTable(db.best)
        /\ db'.world = Over(<<>>, db.world) /\ IsTable(db.world)
    BY <2>1 DEF Tables
  <2>3. db'.record = db.record /\ db'.best = db.best /\ db'.world = db.world
    BY <2>2, OverNothing
  <2> QED
    BY <1>1, <2>3, FinishIs DEF SameRecords
<1> QED
  BY <1>1, <1>2, FinishIs, NoTxKeeps

\* What is committed with a record: the record, which may be the personal best of
\* its user and, in another comparison, the world record of its level.
Commits(tx, best, world) ==
    /\ db'.record = Over(Row(tx.id, RecordOf(tx)), db.record)
    /\ db'.best = IF best THEN Over(Row(Key(tx), tx.id), db.best) ELSE db.best
    /\ db'.world = IF world THEN Over(Row(tx.level, tx.id), db.world) ELSE db.world

\* The committed rows after that.
LEMMA CommitsIs ==
    ASSUME RecordInv, NEW tx, NEW best \in BOOLEAN, NEW world \in BOOLEAN,
           tx.id \in 1..lastId, tx.id \notin DOMAIN db.record, Commits(tx, best, world)
    PROVE  /\ DOMAIN db'.record = {tx.id} \cup DOMAIN db.record
           /\ db'.record[tx.id] = RecordOf(tx)
           /\ \A r \in DOMAIN db.record : r # tx.id /\ db'.record[r] = db.record[r]
           /\ IF best THEN /\ DOMAIN db'.best = {Key(tx)} \cup DOMAIN db.best
                           /\ db'.best[Key(tx)] = tx.id
                           /\ \A k \in DOMAIN db.best \ {Key(tx)} : db'.best[k] = db.best[k]
                      ELSE db'.best = db.best
           /\ IF world THEN /\ DOMAIN db'.world = {tx.level} \cup DOMAIN db.world
                            /\ db'.world[tx.level] = tx.id
                            /\ \A l \in DOMAIN db.world \ {tx.level} : db'.world[l] = db.world[l]
                       ELSE db'.world = db.world
<1>1. db'.record = Over(Row(tx.id, RecordOf(tx)), db.record)
  BY DEF Commits
<1>2. best => db'.best = Over(Row(Key(tx), tx.id), db.best)
  BY DEF Commits
<1>3. world => db'.world = Over(Row(tx.level, tx.id), db.world)
  BY DEF Commits
<1>4. ~best => db'.best = db.best
  BY DEF Commits
<1>5. ~world => db'.world = db.world
  BY DEF Commits
<1>6. /\ DOMAIN db'.record = {tx.id} \cup DOMAIN db.record
      /\ db'.record[tx.id] = RecordOf(tx)
      /\ \A r \in DOMAIN db.record : r # tx.id /\ db'.record[r] = db.record[r]
  BY <1>1 DEF Over, Row
<1>7. best => /\ DOMAIN db'.best = {Key(tx)} \cup DOMAIN db.best
              /\ db'.best[Key(tx)] = tx.id
              /\ \A k \in DOMAIN db.best \ {Key(tx)} : db'.best[k] = db.best[k]
  BY <1>2 DEF Over, Row
<1>8. world => /\ DOMAIN db'.world = {tx.level} \cup DOMAIN db.world
               /\ db'.world[tx.level] = tx.id
               /\ \A l \in DOMAIN db.world \ {tx.level} : db'.world[l] = db.world[l]
  BY <1>3 DEF Over, Row
<1> QED
  BY <1>4, <1>5, <1>6, <1>7, <1>8

\* The rows still refer to one another.
LEMMA CommitRefers ==
    ASSUME RecordInv, NEW tx, NEW best \in BOOLEAN, NEW world \in BOOLEAN,
           tx.id \in 1..lastId, tx.id \notin DOMAIN db.record, tx.time \in Nat,
           Commits(tx, best, world), lastId' = lastId
    PROVE  Referring'
<1>1. /\ DOMAIN db'.record = {tx.id} \cup DOMAIN db.record
      /\ db'.record[tx.id] = RecordOf(tx)
      /\ \A r \in DOMAIN db.record : r # tx.id /\ db'.record[r] = db.record[r]
  BY CommitsIs
<1>2. Referring
  BY DEF RecordInv
<1>3. RecordOf(tx).time = tx.time /\ RecordOf(tx).level = tx.level /\ RecordOf(tx).user = tx.user
  BY DEF RecordOf
<1>4. ASSUME NEW l \in DOMAIN db'.world
      PROVE  db'.world[l] \in DOMAIN db'.record /\ db'.record[db'.world[l]].level = l
  <2>1. CASE l \in DOMAIN db.world /\ db'.world[l] = db.world[l]
    BY <1>1, <1>2, <2>1 DEF Referring
  <2>2. CASE ~(l \in DOMAIN db.world /\ db'.world[l] = db.world[l])
    <3>1. l = tx.level /\ db'.world[l] = tx.id
      BY <1>4, <2>2, CommitsIs
    <3> QED
      BY <1>1, <1>3, <3>1
  <2> QED
    BY <2>1, <2>2
<1>5. ASSUME NEW u, NEW l, <<u, l>> \in DOMAIN db'.best
      PROVE  /\ db'.best[<<u, l>>] \in DOMAIN db'.record
             /\ db'.record[db'.best[<<u, l>>]].user = u /\ db'.record[db'.best[<<u, l>>]].level = l
  <2>1. CASE <<u, l>> \in DOMAIN db.best /\ db'.best[<<u, l>>] = db.best[<<u, l>>]
    BY <1>1, <1>2, <2>1 DEF Referring
  <2>2. CASE ~(<<u, l>> \in DOMAIN db.best /\ db'.best[<<u, l>>] = db.best[<<u, l>>])
    <3>1. <<u, l>> = Key(tx) /\ db'.best[<<u, l>>] = tx.id
      BY <1>5, <2>2, CommitsIs
    <3>2. u = tx.user /\ l = tx.level
      BY <3>1 DEF Key
    <3> QED
      BY <1>1, <1>3, <3>1, <3>2
  <2> QED
    BY <2>1, <2>2
<1> QED
  BY <1>1, <1>2, <1>3, <1>4, <1>5 DEF Referring

\* A record that is compared with the world record of its level and the personal
\* best of its user before the commit leaves both the fastest.
LEMMA CommitIsFastest ==
    ASSUME RecordInv, NEW tx, NEW best \in BOOLEAN, NEW world \in BOOLEAN,
           tx.id \in 1..lastId, tx.id \notin DOMAIN db.record, tx.time \in Nat,
           Commits(tx, best, world), best <=> BeatsBest(tx), world <=> BeatsWorld(tx)
    PROVE  RecordsAreFastest'
<1>1. /\ DOMAIN db'.record = {tx.id} \cup DOMAIN db.record
      /\ db'.record[tx.id] = RecordOf(tx)
      /\ \A r \in DOMAIN db.record : r # tx.id /\ db'.record[r] = db.record[r]
  BY CommitsIs
<1>2. RecordOf(tx).time = tx.time /\ RecordOf(tx).level = tx.level /\ RecordOf(tx).user = tx.user
  BY DEF RecordOf
<1>3. \A r \in DOMAIN db.record : db.record[r].time \in Nat
  BY DEF RecordInv, Referring
<1>4. /\ best => Key(tx) \in DOMAIN db'.best /\ db'.best[Key(tx)] = tx.id
      /\ world => tx.level \in DOMAIN db'.world /\ db'.world[tx.level] = tx.id
  BY CommitsIs
<1>5. ASSUME NEW r \in DOMAIN db'.record, NEW l, db'.record[r].level = l
      PROVE  /\ l \in DOMAIN db'.world /\ db'.world[l] \in DOMAIN db'.record
             /\ db'.record[db'.world[l]].level = l
             /\ \A q \in DOMAIN db'.record : db'.record[q].level = l =>
                    db'.record[db'.world[l]].time <= db'.record[q].time
  <2>1. \A q \in DOMAIN db.record : db.record[q].level = l =>
            /\ l \in DOMAIN db.world /\ db.record[db.world[l]].time <= db.record[q].time
    BY DEF RecordInv, RecordsAreFastest, FastestOf, TimeOf
  <2>2. l \in DOMAIN db.world => db.world[l] \in DOMAIN db.record /\ db.record[db.world[l]].level = l
    BY DEF RecordInv, Referring
  <2>3. CASE l # tx.level
    <3>1. r \in DOMAIN db.record /\ db.record[r].level = l
      BY <1>1, <1>2, <1>5, <2>3
    <3>2. l \in DOMAIN db'.world /\ db'.world[l] = db.world[l]
      BY <2>1, <2>3, <3>1, CommitsIs
    <3> QED
      BY <1>1, <1>2, <2>1, <2>2, <2>3, <3>1, <3>2
  <2>4. CASE l = tx.level /\ world
    <3>1. l \in DOMAIN db'.world /\ db'.world[l] = tx.id
      BY <1>4, <2>4
    <3>2. l \in DOMAIN db.world => tx.time < db.record[db.world[l]].time
      BY <2>4 DEF BeatsWorld, Beats, TimeOf
    <3>3. \A q \in DOMAIN db.record : db.record[q].level = l => tx.time <= db.record[q].time
      BY <1>3, <2>1, <2>2, <3>2
    <3> QED
      BY <1>1, <1>2, <2>4, <3>1, <3>3
  <2>5. CASE l = tx.level /\ ~world
    <3>1. l \in DOMAIN db.world /\ ~(tx.time < db.record[db.world[l]].time)
      BY <2>5 DEF BeatsWorld, Beats, TimeOf
    <3>2. db'.world[l] = db.world[l] /\ l \in DOMAIN db'.world
      BY <2>5, <3>1, CommitsIs
    <3>3. db.record[db.world[l]].time <= tx.time
      BY <1>3, <2>2, <3>1
    <3> QED
      BY <1>1, <1>2, <2>1, <2>2, <2>5, <3>1, <3>2, <3>3
  <2> QED
    BY <2>3, <2>4, <2>5
<1>6. ASSUME NEW r \in DOMAIN db'.record, NEW u, NEW l,
             db'.record[r].user = u, db'.record[r].level = l
      PROVE  /\ <<u, l>> \in DOMAIN db'.best /\ db'.best[<<u, l>>] \in DOMAIN db'.record
             /\ db'.record[db'.best[<<u, l>>]].user = u /\ db'.record[db'.best[<<u, l>>]].level = l
             /\ \A q \in DOMAIN db'.record : db'.record[q].user = u /\ db'.record[q].level = l =>
                    db'.record[db'.best[<<u, l>>]].time <= db'.record[q].time
  <2>0. PICK k : k = <<u, l>>
    OBVIOUS
  <2> SUFFICES /\ k \in DOMAIN db'.best /\ db'.best[k] \in DOMAIN db'.record
               /\ db'.record[db'.best[k]].user = u /\ db'.record[db'.best[k]].level = l
               /\ \A q \in DOMAIN db'.record : db'.record[q].user = u /\ db'.record[q].level = l =>
                      db'.record[db'.best[k]].time <= db'.record[q].time
    BY <2>0
  <2>1. \A q \in DOMAIN db.record : db.record[q].user = u /\ db.record[q].level = l =>
            /\ k \in DOMAIN db.best /\ db.record[db.best[k]].time <= db.record[q].time
    BY <2>0 DEF RecordInv, RecordsAreFastest, FastestOf, TimeOf, RecordsOf
  <2>2. k \in DOMAIN db.best => /\ db.best[k] \in DOMAIN db.record
                                /\ db.record[db.best[k]].user = u /\ db.record[db.best[k]].level = l
    BY <2>0 DEF RecordInv, Referring
  <2>3. k = Key(tx) <=> u = tx.user /\ l = tx.level
    BY <2>0 DEF Key
  <2>4. CASE k # Key(tx)
    <3>1. r \in DOMAIN db.record /\ db.record[r].user = u /\ db.record[r].level = l
      BY <1>1, <1>2, <1>6, <2>3, <2>4
    <3>2. k \in DOMAIN db'.best /\ db'.best[k] = db.best[k]
      BY <2>1, <2>4, <3>1, CommitsIs
    <3>3. ASSUME NEW q \in DOMAIN db'.record, db'.record[q].user = u, db'.record[q].level = l
          PROVE  q \in DOMAIN db.record /\ db'.record[q] = db.record[q]
      BY <1>1, <1>2, <2>3, <2>4, <3>3
    <3>4. /\ db.best[k] \in DOMAIN db.record /\ db.record[db.best[k]].user = u
          /\ db.record[db.best[k]].level = l
      BY <2>1, <2>2, <3>1
    <3>5. db'.record[db.best[k]] = db.record[db.best[k]] /\ db.best[k] \in DOMAIN db'.record
      BY <1>1, <3>4
    <3>6. \A q \in DOMAIN db'.record : db'.record[q].user = u /\ db'.record[q].level = l =>
              db.record[db.best[k]].time <= db'.record[q].time
      BY <2>1, <3>3
    <3> QED
      BY <3>2, <3>4, <3>5, <3>6
  <2>5. CASE k = Key(tx) /\ best
    <3>1. k \in DOMAIN db'.best /\ db'.best[k] = tx.id
      BY <1>4, <2>5
    <3>2. k \in DOMAIN db.best => tx.time < db.record[db.best[k]].time
      BY <2>5 DEF BeatsBest, Beats, TimeOf
    <3>3. \A q \in DOMAIN db.record : db.record[q].user = u /\ db.record[q].level = l =>
              tx.time <= db.record[q].time
      BY <1>3, <2>1, <2>2, <3>2
    <3> QED
      BY <1>1, <1>2, <2>3, <2>5, <3>1, <3>3
  <2>6. CASE k = Key(tx) /\ ~best
    <3>1. k \in DOMAIN db.best /\ ~(tx.time < db.record[db.best[k]].time)
      BY <2>6 DEF BeatsBest, Beats, TimeOf
    <3>2. db'.best[k] = db.best[k] /\ k \in DOMAIN db'.best
      BY <2>6, <3>1, CommitsIs
    <3>3. db.record[db.best[k]].time <= tx.time
      BY <1>3, <2>2, <3>1
    <3> QED
      BY <1>1, <1>2, <2>1, <2>2, <2>3, <2>6, <3>1, <3>2, <3>3
  <2> QED
    BY <2>4, <2>5, <2>6
<1> QED
  BY <1>5, <1>6 DEF RecordsAreFastest, FastestOf, TimeOf, RecordsOf

\* What the other submissions know is still true: whoever could have made it
\* false would hold the same lock.
LEMMA CommitLeavesOthers ==
    ASSUME RecordInv, NEW s \in Session, NEW tx, tx = txs[s], Inserted(tx),
           NEW best \in BOOLEAN, NEW world \in BOOLEAN, Commits(tx, best, world),
           world => BeatsWorld(tx) /\ tx.step = "world", lastId' = lastId,
           NEW t \in Session, t # s, NEW other, other = txs[t]
    PROVE  TxInv(other)'
<1>1. TxInv(tx) /\ TxInv(other) /\ Referring
  BY DEF RecordInv
<1>2. tx.id \in 1..lastId /\ tx.id \notin DOMAIN db.record /\ tx.time \in Nat
  BY <1>1, RecordAssumption DEF TxInv, Writes, Guarded, Inserted, Submitting
<1>3. /\ DOMAIN db'.record = {tx.id} \cup DOMAIN db.record
      /\ db'.record[tx.id] = RecordOf(tx) /\ RecordOf(tx).time = tx.time
      /\ \A r \in DOMAIN db.record : r # tx.id /\ db'.record[r] = db.record[r]
  BY <1>2, CommitsIs DEF RecordOf
<1>4. Inserted(other) => other.id # tx.id
  BY DEF RecordInv, IdsApart
<1>5. Writes(other)'
  BY <1>1, <1>3, <1>4 DEF TxInv, Writes
<1>6. Guarded(other)'
  BY <1>1 DEF TxInv, Guarded
<1>7. ASSUME Inserted(other)
      PROVE  BeatsBest(other)' = BeatsBest(other)
  <2>1. Key(other) # Key(tx)
    <3>1. /\ Exclusive(UserLevel(tx.user, tx.level)) \in tx.hold
          /\ Exclusive(UserLevel(other.user, other.level)) \in other.hold
      BY <1>1, <1>7 DEF TxInv, Guarded, Inserted, Submitting
    <3> QED
      BY <3>1, ExclusiveAlone DEF Key, RecordInv
  <2>2. /\ Key(other) \in DOMAIN db'.best <=> Key(other) \in DOMAIN db.best
        /\ Key(other) \in DOMAIN db.best => db'.best[Key(other)] = db.best[Key(other)]
    BY <1>2, <2>1, CommitsIs
  <2>3. Key(other) \in DOMAIN db.best => db.best[Key(other)] \in DOMAIN db.record
    BY <1>1 DEF Referring, Key
  <2> QED
    BY <1>3, <2>2, <2>3 DEF BeatsBest, Beats, TimeOf
<1>8. CASE ~(world /\ other.level = tx.level)
  <2>1. /\ other.level \in DOMAIN db'.world <=> other.level \in DOMAIN db.world
        /\ other.level \in DOMAIN db.world => db'.world[other.level] = db.world[other.level]
    BY <1>2, <1>8, CommitsIs
  <2>2. other.level \in DOMAIN db.world => db.world[other.level] \in DOMAIN db.record
    BY <1>1 DEF Referring
  <2>3. BeatsWorld(other)' = BeatsWorld(other)
    BY <1>3, <2>1, <2>2 DEF BeatsWorld, Beats, TimeOf
  <2> QED
    BY <1>1, <1>5, <1>6, <1>7, <2>3 DEF TxInv, Informed
<1>9. CASE world /\ other.level = tx.level
  <2>1. other.step # "world"
    BY <1>1, <1>9, ExclusiveAlone DEF TxInv, Guarded, RecordInv
  <2>2. ASSUME other.step \in {"results", "recheck"}, ~BeatsWorld(other)
        PROVE  ~BeatsWorld(other)'
    <3>1. /\ tx.level \in DOMAIN db.world /\ db.world[tx.level] \in DOMAIN db.record
          /\ ~(other.time < db.record[db.world[tx.level]].time)
      BY <1>1, <1>9, <2>2 DEF BeatsWorld, Beats, TimeOf, Referring
    <3>2. tx.time < db.record[db.world[tx.level]].time
      BY <1>9, <3>1 DEF BeatsWorld, Beats, TimeOf
    <3>3. other.time \in Nat /\ db.record[db.world[tx.level]].time \in Nat
      BY <1>1, <2>2, <3>1, RecordAssumption DEF TxInv, Guarded, Submitting, Referring
    <3>4. ~(other.time < tx.time)
      BY <1>2, <3>1, <3>2, <3>3
    <3>5. tx.level \in DOMAIN db'.world /\ db'.world[tx.level] = tx.id
      BY <1>2, <1>9, CommitsIs
    <3> QED
      BY <1>3, <1>9, <3>4, <3>5 DEF BeatsWorld, Beats, TimeOf
  <2> QED
    BY <1>1, <1>5, <1>6, <1>7, <2>1, <2>2 DEF TxInv, Informed
<1> QED
  BY <1>8, <1>9

\* A submission's commit keeps the invariant.
LEMMA CommitKeeps ==
    ASSUME RecordInv, NEW s \in Session, NEW tx, tx = txs[s], Inserted(tx), NEW put, Finish(s, put),
           put.record = tx.put.record, put.best = tx.put.best, NEW world \in BOOLEAN,
           put.world = IF world THEN Row(tx.level, tx.id) ELSE <<>>,
           world <=> BeatsWorld(tx), world => tx.step = "world"
    PROVE  /\ RecordInv'
           /\ Commits(tx, BeatsBest(tx), world)
<1>1. Shaped /\ TxInv(tx) /\ Referring /\ DOMAIN txs = Session
  BY DEF RecordInv, Shaped
<1>2. /\ DOMAIN db' = Tables
      /\ \A table \in Tables : db'[table] = Over(put[table], db[table]) /\ IsTable(db'[table])
      /\ txs' = [txs EXCEPT ![s] = NoTx] /\ lastId' = lastId
  BY <1>1, FinishIs
<1>3. tx.id \in 1..lastId /\ tx.id \notin DOMAIN db.record /\ tx.time \in Nat
  BY <1>1, RecordAssumption DEF TxInv, Writes, Guarded, Inserted, Submitting
<1>4. PICK best \in BOOLEAN : best <=> BeatsBest(tx)
  OBVIOUS
<1>5. Commits(tx, best, world)
  <2>1. /\ db'.record = Over(put.record, db.record) /\ db'.best = Over(put.best, db.best)
        /\ db'.world = Over(put.world, db.world)
    BY <1>2 DEF Tables
  <2>2. put.record = Row(tx.id, RecordOf(tx))
    BY <1>1 DEF TxInv, Writes
  <2>3. put.best = IF best THEN Row(Key(tx), tx.id) ELSE <<>>
    BY <1>1, <1>4 DEF TxInv, Writes, Informed
  <2>4. Over(<<>>, db.best) = db.best /\ Over(<<>>, db.world) = db.world
    <3>1. IsTable(db.best) /\ IsTable(db.world)
      BY <1>1 DEF Shaped, Tables
    <3> QED
      BY <3>1, OverNothing
  <2> QED
    BY <2>1, <2>2, <2>3, <2>4 DEF Commits
<1>6. Referring' /\ RecordsAreFastest'
  BY <1>2, <1>3, <1>4, <1>5, CommitRefers, CommitIsFastest
<1>7. PICK none : none = NoTx
  OBVIOUS
<1>8. /\ none.kind = "none" /\ none.step = "none" /\ none.hold = {} /\ DOMAIN none = Fields
      /\ none.put = [table \in Tables |-> <<>>]
  BY <1>1, <1>7 DEF NoTx, Shaped, Fields
<1>9. TxInv(none)' /\ ~Inserted(none) /\ DOMAIN none.put = Tables
  BY <1>8 DEF TxInv, Writes, Guarded, Informed, Inserted, Submitting, Tables
<1>10. txs'[s] = none /\ (\A t \in Session \ {s} : txs'[t] = txs[t]) /\ DOMAIN txs' = Session
  BY <1>1, <1>2, <1>7
<1>11. Shaped'
  BY <1>1, <1>2, <1>8, <1>9, <1>10 DEF Shaped
<1>12. LocksExclude'
  <2>1. txs' = [txs EXCEPT ![s] = none]
    BY <1>2, <1>7
  <2> QED
    BY <1>1, <1>8, <2>1, LocksStay DEF RecordInv
<1>13. IdsApart'
  BY <1>9, <1>10 DEF RecordInv, IdsApart
<1>14. ASSUME NEW t \in Session PROVE TxInv(txs[t])'
  <2>1. CASE t = s
    BY <1>9, <1>10, <2>1
  <2>2. CASE t # s
    <3>1. PICK other : other = txs[t]
      OBVIOUS
    <3>2. TxInv(other)'
      BY <1>2, <1>5, <2>2, <3>1, CommitLeavesOthers
    <3> QED
      BY <1>10, <2>2, <3>1, <3>2
  <2> QED
    BY <2>1, <2>2
<1>15. Commits(tx, BeatsBest(tx), world)
  BY <1>4, <1>5 DEF Commits
<1> QED
  BY <1>6, <1>11, <1>12, <1>13, <1>14, <1>15 DEF RecordInv

-----------------------------------------------------------------------------
(* Each step keeps it.                                                     *)

\* A row is something, and the first that is written to a table is all of it.
LEMMA RowIs ==
    ASSUME NEW key, NEW row
    PROVE  Row(key, row) # <<>> /\ Over(Row(key, row), <<>>) = Row(key, row)
<1>1. DOMAIN <<>> = {} /\ DOMAIN Row(key, row) = {key}
  BY DEF Row
<1>2. Over(Row(key, row), <<>>) = [k \in {key} |-> IF k \in {key} THEN row ELSE <<>>[k]]
  BY <1>1 DEF Over, Row
<1>3. [k \in {key} |-> IF k \in {key} THEN row ELSE <<>>[k]] = [k \in {key} |-> row]
  OBVIOUS
<1> QED
  BY <1>1, <1>2, <1>3 DEF Row

\* What a transaction reads of the rows that records are compared with is what is
\* committed.
LEMMA ViewBeats ==
    ASSUME RecordInv, NEW s \in Session, NEW tx, tx = txs[s]
    PROVE  /\ Beats(View(s), "world", tx.level, tx.time) <=> BeatsWorld(tx)
           /\ ~Inserted(tx) => (Beats(View(s), "best", Key(tx), tx.time) <=> BeatsBest(tx))
<1>1. Shaped /\ TxInv(tx) /\ Referring
  BY DEF RecordInv
<1>2. PICK view : view = View(s)
  OBVIOUS
<1>3. /\ view.record = Over(tx.put.record, db.record) /\ view.best = Over(tx.put.best, db.best)
      /\ view.world = Over(tx.put.world, db.world)
  BY <1>1, <1>2 DEF View, Shaped, Tables
<1>4. IsTable(db.record) /\ IsTable(db.best) /\ IsTable(db.world)
  BY <1>1 DEF Shaped, Tables
<1>5. view.world = db.world /\ (~Inserted(tx) => view.best = db.best)
  BY <1>1, <1>3, <1>4, OverNothing DEF TxInv, Writes
<1>6. ASSUME NEW r \in DOMAIN db.record PROVE view.record[r] = db.record[r]
  <2>1. CASE Inserted(tx)
    BY <1>1, <1>3, <2>1 DEF TxInv, Writes, Over, Row
  <2>2. CASE ~Inserted(tx)
    BY <1>1, <1>3, <1>4, <2>2, OverNothing DEF TxInv, Writes
  <2> QED
    BY <2>1, <2>2
<1>7. tx.level \in DOMAIN db.world => db.world[tx.level] \in DOMAIN db.record
  BY <1>1 DEF Referring
<1>8. Key(tx) \in DOMAIN db.best => db.best[Key(tx)] \in DOMAIN db.record
  BY <1>1 DEF Referring, Key
<1> QED
  BY <1>2, <1>5, <1>6, <1>7, <1>8 DEF Beats, TimeOf, BeatsWorld, BeatsBest

\* A transaction that begins takes its first lock from nobody.
LEMMA BeginKeeps ==
    ASSUME RecordInv, NEW s \in Session, NEW lock, NEW tx, Begin(s, lock, tx),
           DOMAIN tx \subseteq Fields \ {"hold", "put"}, {"kind", "step"} \subseteq DOMAIN tx,
           tx.kind # "none", ~Inserted(tx),
           tx.step = "insert" =>
               /\ {"user", "level", "time"} \subseteq DOMAIN tx
               /\ tx.user \in User /\ tx.level \in Level /\ tx.time \in Time
               /\ lock = Exclusive(UserLevel(tx.user, tx.level))
    PROVE  RecordInv'
<1>1. Shaped /\ TxInv(txs[s]) /\ DOMAIN txs[s] = Fields /\ lastId \in Nat
  BY DEF RecordInv, Shaped, Referring
<1>2. PICK new : new = [x \in Fields |-> IF x = "hold" THEN {lock}
                                         ELSE IF x \in DOMAIN tx THEN tx[x] ELSE txs[s][x]]
  OBVIOUS
<1>3. txs' = [txs EXCEPT ![s] = new] /\ db' = db /\ lastId' = lastId /\ txs[s].kind = "none"
  BY <1>1, <1>2 DEF Begin
<1>4. /\ DOMAIN new = Fields /\ new.hold = {lock} /\ new.put = txs[s].put
      /\ new.kind = tx.kind /\ new.step = tx.step
      /\ tx.step = "insert" => /\ new.user = tx.user /\ new.level = tx.level /\ new.time = tx.time
  BY <1>2 DEF Fields
<1>5. ~Inserted(new) /\ ~Inserted(txs[s])
  BY <1>1, <1>3, <1>4 DEF Inserted, TxInv
<1>6. Writes(new)'
  BY <1>1, <1>4, <1>5 DEF TxInv, Writes
<1>7. Guarded(new)' /\ Informed(new)'
  BY <1>4, <1>5 DEF Guarded, Informed, Submitting, Inserted
<1>8. SameRecords
  BY <1>1, <1>3 DEF SameRecords, Shaped
<1>9. \A t \in Session \ {s} : \A held \in new.hold \ txs[s].hold : ~Blocks(t, held)
  BY <1>4 DEF Begin
<1>10. DOMAIN new.put = Tables
  BY <1>1, <1>4 DEF Shaped
<1>11. TxInv(new)'
  BY <1>4, <1>6, <1>7 DEF TxInv
<1>12. lastId' \in Nat /\ lastId <= lastId'
  BY <1>1, <1>3
<1>13. txs' = [txs EXCEPT ![s] = new] /\ DOMAIN new = Fields
  BY <1>3, <1>4
<1> QED
  BY <1>5, <1>8, <1>9, <1>10, <1>11, <1>12, <1>13, OneTxKeeps

\* A lock is granted when it blocks nobody.
LEMMA TakeLockKeeps ==
    ASSUME RecordInv, NEW s \in Session, TakeLock(s)
    PROVE  RecordInv'
<1>1. PICK old : old = txs[s]
  OBVIOUS
<1>2. PICK tx : tx = [old EXCEPT !.hold = @ \cup {Head(old.want)}, !.want = Tail(old.want)]
  OBVIOUS
<1>3. Shaped /\ TxInv(old) /\ DOMAIN old = Fields /\ DOMAIN old.put = Tables /\ DOMAIN txs = Session
  BY <1>1 DEF RecordInv, Shaped
<1>4. /\ DOMAIN tx = Fields /\ tx.kind = old.kind /\ tx.step = old.step /\ tx.user = old.user
      /\ tx.level = old.level /\ tx.time = old.time /\ tx.at = old.at /\ tx.id = old.id
      /\ tx.faster = old.faster /\ tx.put = old.put
      /\ tx.hold = old.hold \cup {Head(old.want)} /\ tx.want = Tail(old.want)
  BY <1>2, <1>3 DEF Fields
<1>5. txs' = [txs EXCEPT ![s] = tx]
  BY <1>1, <1>2, <1>3, <1>4 DEF TakeLock, Fields
<1>6. SameRecords
  BY <1>3 DEF TakeLock, SameRecords, Shaped
<1>7. lastId' \in Nat /\ lastId <= lastId' /\ lastId' = lastId /\ db' = db
  BY DEF TakeLock, RecordInv, Referring
<1>8. \A t \in Session \ {s} : \A lock \in tx.hold \ old.hold : ~Blocks(t, lock)
  BY <1>1, <1>4 DEF TakeLock, WaitsFor
<1>9. Inserted(tx) <=> Inserted(old)
  BY <1>4 DEF Inserted
<1>10. Writes(tx)'
  BY <1>3, <1>4, <1>7, <1>9 DEF TxInv, Writes, Key, RecordOf
<1>11. Guarded(tx)'
  BY <1>3, <1>4 DEF TxInv, Guarded, Submitting
<1>12. Informed(tx)'
  BY <1>3, <1>4, <1>7, <1>9 DEF TxInv, Informed, BeatsBest, BeatsWorld, Beats, Key, TimeOf
<1>13. TxInv(tx)'
  BY <1>3, <1>4, <1>10, <1>11, <1>12 DEF TxInv
<1> QED
  BY <1>1, <1>3, <1>4, <1>5, <1>6, <1>7, <1>8, <1>9, <1>13, OneTxKeeps

\* What is not about a submission.
LEMMA ElsewhereKeeps ==
    ASSUME RecordInv, NEW s \in Session, NEW tx, txs' = [txs EXCEPT ![s] = tx],
           db' = db, lastId' = lastId,
           DOMAIN tx = Fields, DOMAIN tx.put = Tables, tx.hold = txs[s].hold,
           tx.kind = txs[s].kind, txs[s].step # "none",
           ~Submitting(tx), ~Submitting(txs[s]),
           tx.put.record = txs[s].put.record, tx.put.best = txs[s].put.best,
           tx.put.world = txs[s].put.world, tx.put.wins = txs[s].put.wins
    PROVE  RecordInv'
<1>1. Shaped /\ TxInv(txs[s])
  BY DEF RecordInv
<1>2. SameRecords
  BY <1>1 DEF SameRecords, Shaped
<1>3. lastId' \in Nat /\ lastId <= lastId'
  BY DEF RecordInv, Referring
<1>4. ~Inserted(tx) /\ ~Inserted(txs[s])
  BY DEF Inserted, Submitting
<1>5. TxInv(tx)'
  BY <1>1, <1>4 DEF TxInv, Writes, Guarded, Informed, Submitting, Inserted
<1>6. \A t \in Session \ {s} : \A lock \in tx.hold \ txs[s].hold : ~Blocks(t, lock)
  OBVIOUS
<1> QED
  BY <1>2, <1>3, <1>4, <1>5, <1>6, OneTxKeeps

\* What the first statement of a submission makes of its transaction.
Inserting(s, old, tx, first, open) ==
    /\ txs' = [txs EXCEPT ![s] = tx]
    /\ DOMAIN tx = Fields /\ tx.kind = old.kind /\ tx.user = old.user
    /\ tx.level = old.level /\ tx.time = old.time /\ tx.at = old.at
    /\ tx.id = lastId' /\ tx.hold = old.hold /\ tx.tours = Improvable(s)
    /\ tx.faster = Beats(View(s), "world", old.level, old.time)
    /\ tx.step = IF open = <<>> THEN "recheck" ELSE "results"
    /\ tx.want = IF open = <<>> THEN ToWorldRecord(tx.faster, old.level)
                 ELSE ResultLocks(open)
    /\ first = Put(s, "record", Row(lastId', RecordOf(old)))
    /\ tx.put = IF Beats(View(s), "best", Key(old), old.time)
                THEN [first EXCEPT !.best = Row(Key(old), lastId')] ELSE first

\* It does so for one order of the locks to come.
LEMMA InsertIs ==
    ASSUME RecordInv, NEW s \in Session, NEW old, old = txs[s], InsertRecord(s)
    PROVE  \E tx, first : \E open \in InOrder(Improvable(s)) : Inserting(s, old, tx, first, open)
<1>1. DOMAIN old = Fields /\ DOMAIN old.put = Tables /\ DOMAIN txs = Session
  BY DEF RecordInv, Shaped
<1>2. PICK first : first = Put(s, "record", Row(lastId', RecordOf(old)))
  OBVIOUS
<1>3. PICK put : put = IF Beats(View(s), "best", Key(old), old.time)
                       THEN [first EXCEPT !.best = Row(Key(old), lastId')] ELSE first
  OBVIOUS
<1>4. PICK faster : faster = Beats(View(s), "world", old.level, old.time)
  OBVIOUS
<1>5. PICK tours : tours = Improvable(s)
  OBVIOUS
<1>6. PICK open \in InOrder(tours) :
          txs' = [txs EXCEPT ![s].id = lastId', ![s].put = put, ![s].faster = faster,
                    ![s].tours = tours,
                    ![s].step = IF open = <<>> THEN "recheck" ELSE "results",
                    ![s].want = IF open = <<>> THEN ToWorldRecord(faster, old.level)
                                ELSE ResultLocks(open)]
  BY <1>2, <1>3, <1>4, <1>5 DEF InsertRecord, Key, RecordOf
<1>7. PICK step : step = IF open = <<>> THEN "recheck" ELSE "results"
  OBVIOUS
<1>8. PICK want : want = IF open = <<>> THEN ToWorldRecord(faster, old.level) ELSE ResultLocks(open)
  OBVIOUS
<1>9. PICK tx : tx = [old EXCEPT !.id = lastId', !.put = put, !.faster = faster, !.tours = tours,
                                 !.step = step, !.want = want]
  OBVIOUS
<1>10. txs' = [txs EXCEPT ![s] = tx]
  BY <1>1, <1>6, <1>7, <1>8, <1>9 DEF Fields
<1>11. /\ DOMAIN tx = Fields /\ tx.kind = old.kind /\ tx.step = step /\ tx.user = old.user
       /\ tx.level = old.level /\ tx.time = old.time /\ tx.at = old.at /\ tx.id = lastId'
       /\ tx.faster = faster /\ tx.tours = tours /\ tx.put = put /\ tx.hold = old.hold
       /\ tx.want = want
  BY <1>1, <1>9 DEF Fields
<1>12. Inserting(s, old, tx, first, open)
  BY <1>2, <1>3, <1>4, <1>5, <1>7, <1>8, <1>10, <1>11 DEF Inserting
<1> QED
  BY <1>5, <1>6, <1>12

\* The first statement of a submission: its record and the personal best.
LEMMA InsertKeeps ==
    ASSUME RecordInv, NEW s \in Session, InsertRecord(s)
    PROVE  RecordInv'
<1>1. PICK old : old = txs[s]
  OBVIOUS
<1>2. /\ Shaped /\ TxInv(old) /\ DOMAIN old = Fields /\ DOMAIN old.put = Tables
      /\ DOMAIN txs = Session /\ Referring
  BY <1>1 DEF RecordInv, Shaped
<1>3. /\ old.step = "insert" /\ lastId' = lastId + 1 /\ db' = db /\ ~Inserted(old)
      /\ old.put.record = <<>> /\ old.put.best = <<>> /\ old.put.world = <<>>
      /\ old.put.wins = <<>>
  BY <1>1, <1>2 DEF InsertRecord, At, TxInv, Writes, Inserted
<1>4. PICK tx, first : \E open \in InOrder(Improvable(s)) : Inserting(s, old, tx, first, open)
  BY <1>1, InsertIs
<1>5. PICK open \in InOrder(Improvable(s)) : Inserting(s, old, tx, first, open)
  BY <1>4
<1>6. /\ txs' = [txs EXCEPT ![s] = tx]
      /\ DOMAIN tx = Fields /\ tx.kind = old.kind /\ tx.user = old.user
      /\ tx.level = old.level /\ tx.time = old.time /\ tx.at = old.at
      /\ tx.id = lastId' /\ tx.hold = old.hold /\ tx.step \in {"results", "recheck"}
      /\ tx.step = "recheck" => tx.want = ToWorldRecord(tx.faster, old.level)
      /\ first = Put(s, "record", Row(lastId', RecordOf(old)))
  BY <1>5 DEF Inserting
<1>7. tx.put = IF BeatsBest(old) THEN [first EXCEPT !.best = Row(Key(old), lastId')] ELSE first
  <2>1. Beats(View(s), "best", Key(old), old.time) <=> BeatsBest(old)
    BY <1>1, <1>3, ViewBeats
  <2> QED
    BY <1>5, <2>1 DEF Inserting
<1>8. tx.faster <=> BeatsWorld(old)
  <2>1. Beats(View(s), "world", old.level, old.time) <=> BeatsWorld(old)
    BY <1>1, ViewBeats
  <2>2. tx.faster = Beats(View(s), "world", old.level, old.time)
    BY <1>5 DEF Inserting
  <2> QED
    BY <2>1, <2>2
<1>9. PICK put : put = tx.put
  OBVIOUS
<1>10. /\ DOMAIN put = Tables /\ put.record = Row(lastId', RecordOf(old))
       /\ put.world = <<>> /\ put.wins = <<>>
       /\ put.best = IF BeatsBest(old) THEN Row(Key(old), lastId') ELSE <<>>
  <2>1. /\ DOMAIN first = Tables /\ first.record = Over(Row(lastId', RecordOf(old)), <<>>)
        /\ first.best = <<>> /\ first.world = <<>> /\ first.wins = <<>>
    BY <1>1, <1>2, <1>3, <1>6 DEF Put, Tables
  <2>2. first.record = Row(lastId', RecordOf(old))
    BY <2>1, RowIs
  <2> QED
    BY <1>7, <1>9, <2>1, <2>2 DEF Tables
<1>11. /\ lastId \in Nat /\ lastId' \in Nat /\ lastId <= lastId' /\ lastId' > lastId
       /\ lastId' \in 1..lastId' /\ lastId' \notin DOMAIN db.record
  BY <1>2, <1>3 DEF Referring
<1>12. Inserted(tx)
  BY <1>6 DEF Inserted
<1>13. Key(tx) = Key(old) /\ RecordOf(tx) = RecordOf(old)
  BY <1>6 DEF Key, RecordOf
<1>14. Writes(tx)'
  BY <1>3, <1>6, <1>9, <1>10, <1>11, <1>12, <1>13 DEF Writes
<1>15. Guarded(tx)'
  BY <1>2, <1>3, <1>6 DEF TxInv, Guarded, Submitting, ToWorldRecord
<1>16. (BeatsBest(tx)' <=> BeatsBest(old)) /\ (BeatsWorld(tx)' <=> BeatsWorld(old))
  BY <1>3, <1>6, <1>13 DEF BeatsBest, BeatsWorld, Beats, TimeOf
<1>17. put.best # <<>> <=> BeatsBest(old)
  BY <1>10, RowIs
<1>18. Informed(tx)'
  BY <1>6, <1>8, <1>9, <1>12, <1>16, <1>17 DEF Informed
<1>19. TxInv(tx)'
  BY <1>2, <1>3, <1>6, <1>12, <1>14, <1>15, <1>18 DEF TxInv
<1>20. SameRecords
  BY <1>2, <1>3 DEF SameRecords, Shaped
<1>21. \A t \in Session \ {s} : \A lock \in tx.hold \ txs[s].hold : ~Blocks(t, lock)
  BY <1>1, <1>6
<1>22. DOMAIN tx = Fields /\ DOMAIN tx.put = Tables /\ tx.id > lastId
  BY <1>6, <1>9, <1>10, <1>11
<1> QED
  BY <1>6, <1>11, <1>12, <1>19, <1>20, <1>21, <1>22, OneTxKeeps

\* The results of tournaments, which are no records.
LEMMA PutResultsKeeps ==
    ASSUME RecordInv, NEW s \in Session, PutResults(s)
    PROVE  RecordInv'
<1>1. PICK old : old = txs[s]
  OBVIOUS
<1>2. /\ Shaped /\ TxInv(old) /\ DOMAIN old = Fields /\ DOMAIN old.put = Tables
      /\ DOMAIN txs = Session /\ Referring
  BY <1>1 DEF RecordInv, Shaped
<1>3. old.step = "results" /\ lastId' = lastId /\ db' = db
  BY <1>1 DEF PutResults, At
<1>4. PICK ranked :
          txs' = [txs EXCEPT ![s].put = Put(s, "result", ranked), ![s].step = "recheck",
                             ![s].want = ToWorldRecord(old.faster, old.level)]
  BY <1>1 DEF PutResults
<1>5. PICK put : put = Put(s, "result", ranked)
  OBVIOUS
<1>6. PICK tx : tx = [old EXCEPT !.put = put, !.step = "recheck",
                                 !.want = ToWorldRecord(old.faster, old.level)]
  OBVIOUS
<1>7. txs' = [txs EXCEPT ![s] = tx]
  BY <1>1, <1>2, <1>4, <1>5, <1>6 DEF Fields
<1>8. /\ DOMAIN tx = Fields /\ tx.kind = old.kind /\ tx.step = "recheck" /\ tx.user = old.user
      /\ tx.level = old.level /\ tx.time = old.time /\ tx.at = old.at /\ tx.id = old.id
      /\ tx.faster = old.faster /\ tx.put = put /\ tx.hold = old.hold
      /\ tx.want = ToWorldRecord(old.faster, old.level)
  BY <1>2, <1>6 DEF Fields
<1>9. /\ DOMAIN put = Tables /\ put.record = old.put.record /\ put.best = old.put.best
      /\ put.world = old.put.world /\ put.wins = old.put.wins
  BY <1>1, <1>2, <1>5 DEF Put, Tables
<1>10. Inserted(tx) /\ Inserted(old)
  BY <1>3, <1>8 DEF Inserted
<1>11. Key(tx) = Key(old) /\ RecordOf(tx) = RecordOf(old)
  BY <1>8 DEF Key, RecordOf
<1>12. Writes(tx)'
  BY <1>2, <1>3, <1>8, <1>9, <1>10, <1>11 DEF TxInv, Writes
<1>13. Guarded(tx)'
  BY <1>2, <1>3, <1>8 DEF TxInv, Guarded, Submitting, ToWorldRecord
<1>14. (BeatsBest(tx)' <=> BeatsBest(old)) /\ (BeatsWorld(tx)' <=> BeatsWorld(old))
  BY <1>3, <1>8, <1>11 DEF BeatsBest, BeatsWorld, Beats, TimeOf
<1>15. Informed(tx)'
  BY <1>2, <1>3, <1>8, <1>9, <1>10, <1>14 DEF TxInv, Informed
<1>16. TxInv(tx)'
  BY <1>2, <1>3, <1>8, <1>12, <1>13, <1>15 DEF TxInv
<1>17. SameRecords
  BY <1>2, <1>3 DEF SameRecords, Shaped
<1>18. \A t \in Session \ {s} : \A lock \in tx.hold \ txs[s].hold : ~Blocks(t, lock)
  BY <1>1, <1>8
<1>19. /\ DOMAIN tx = Fields /\ DOMAIN tx.put = Tables /\ lastId' \in Nat /\ lastId <= lastId'
       /\ Inserted(txs[s]) /\ tx.id = txs[s].id
  BY <1>1, <1>2, <1>3, <1>8, <1>9, <1>10 DEF Referring
<1> QED
  BY <1>7, <1>16, <1>17, <1>18, <1>19, OneTxKeeps

\* The world record is compared once more, under its lock.
LEMMA RecheckKeeps ==
    ASSUME RecordInv, NEW s \in Session, RecheckWorldRecord(s)
    PROVE  RecordInv'
<1>1. PICK old : old = txs[s]
  OBVIOUS
<1>2. /\ Shaped /\ TxInv(old) /\ DOMAIN old = Fields /\ DOMAIN old.put = Tables
      /\ DOMAIN txs = Session /\ Referring
  BY <1>1 DEF RecordInv, Shaped
<1>3. old.step = "recheck" /\ old.want = <<>> /\ Inserted(old)
  BY <1>1 DEF RecheckWorldRecord, At, Inserted
<1>4. Beats(View(s), "world", old.level, old.time) <=> BeatsWorld(old)
  BY <1>1, ViewBeats
<1>5. CASE old.faster /\ BeatsWorld(old)
  <2>1. PICK want : Goes(s, "world", want) /\ lastId' = lastId /\ db' = db
    BY <1>1, <1>4, <1>5 DEF RecheckWorldRecord
  <2>2. PICK tx : tx = [old EXCEPT !.step = "world", !.want = want]
    OBVIOUS
  <2>3. txs' = [txs EXCEPT ![s] = tx]
    BY <1>1, <1>2, <2>1, <2>2 DEF Goes, Fields
  <2>4. /\ DOMAIN tx = Fields /\ tx.kind = old.kind /\ tx.step = "world" /\ tx.user = old.user
        /\ tx.level = old.level /\ tx.time = old.time /\ tx.at = old.at /\ tx.id = old.id
        /\ tx.faster = old.faster /\ tx.put = old.put /\ tx.hold = old.hold
    BY <1>2, <2>2 DEF Fields
  <2>5. Inserted(tx) /\ Key(tx) = Key(old) /\ RecordOf(tx) = RecordOf(old)
    BY <2>4 DEF Inserted, Key, RecordOf
  <2>6. Writes(tx)'
    BY <1>2, <1>3, <2>1, <2>4, <2>5 DEF TxInv, Writes
  <2>7. Guarded(tx)'
    <3>1. <<Exclusive(WorldRecord(old.level))>> # <<>>
      OBVIOUS
    <3> QED
      BY <1>2, <1>3, <1>5, <2>4, <3>1 DEF TxInv, Guarded, Submitting
  <2>8. (BeatsBest(tx)' <=> BeatsBest(old)) /\ (BeatsWorld(tx)' <=> BeatsWorld(old))
    BY <2>1, <2>4, <2>5 DEF BeatsBest, BeatsWorld, Beats, TimeOf
  <2>9. Informed(tx)'
    BY <1>2, <1>3, <1>5, <2>4, <2>5, <2>8 DEF TxInv, Informed
  <2>10. TxInv(tx)'
    BY <1>2, <1>3, <2>4, <2>6, <2>7, <2>9 DEF TxInv
  <2>11. SameRecords
    BY <1>2, <2>1 DEF SameRecords, Shaped
  <2>12. \A t \in Session \ {s} : \A lock \in tx.hold \ txs[s].hold : ~Blocks(t, lock)
    BY <1>1, <2>4
  <2>13. /\ DOMAIN tx = Fields /\ DOMAIN tx.put = Tables /\ lastId' \in Nat /\ lastId <= lastId'
         /\ Inserted(txs[s]) /\ tx.id = txs[s].id
    BY <1>1, <1>2, <1>3, <2>1, <2>4 DEF Referring
  <2> QED
    BY <2>3, <2>10, <2>11, <2>12, <2>13, OneTxKeeps
<1>6. CASE ~(old.faster /\ BeatsWorld(old))
  <2>1. PICK put : put = old.put
    OBVIOUS
  <2>2. Finish(s, put)
    BY <1>1, <1>4, <1>6, <2>1 DEF RecheckWorldRecord
  <2>3. ~BeatsWorld(old)
    BY <1>2, <1>3, <1>6 DEF TxInv, Informed
  <2>4. put.record = old.put.record /\ put.best = old.put.best /\ put.world = <<>>
    BY <1>2, <2>1 DEF TxInv, Writes
  <2>5. PICK world \in BOOLEAN : world = FALSE
    OBVIOUS
  <2> QED
    BY <1>1, <1>3, <2>2, <2>3, <2>4, <2>5, CommitKeeps
<1> QED
  BY <1>5, <1>6

\* The world record is put.
LEMMA PutWorldRecordKeeps ==
    ASSUME RecordInv, NEW s \in Session, PutWorldRecord(s)
    PROVE  RecordInv'
<1>1. PICK old : old = txs[s]
  OBVIOUS
<1>2. /\ Shaped /\ TxInv(old) /\ DOMAIN old = Fields /\ DOMAIN old.put = Tables
  BY <1>1 DEF RecordInv, Shaped
<1>3. old.step = "world" /\ Inserted(old)
  BY <1>1 DEF PutWorldRecord, At, Inserted
<1>4. PICK wins : Finish(s, [Put(s, "world", Row(old.level, old.id)) EXCEPT !.wins = wins])
  BY <1>1 DEF PutWorldRecord
<1>5. PICK put : put = [Put(s, "world", Row(old.level, old.id)) EXCEPT !.wins = wins]
  OBVIOUS
<1>6. Finish(s, put)
  BY <1>4, <1>5
<1>7. /\ put.record = old.put.record /\ put.best = old.put.best
      /\ put.world = Over(Row(old.level, old.id), <<>>)
  BY <1>1, <1>2, <1>5 DEF Put, Tables, TxInv, Writes
<1>8. put.world = Row(old.level, old.id) /\ BeatsWorld(old)
  BY <1>2, <1>3, <1>7, RowIs DEF TxInv, Informed
<1>9. PICK world \in BOOLEAN : world = TRUE
  OBVIOUS
<1> QED
  BY <1>1, <1>3, <1>6, <1>7, <1>8, <1>9, CommitKeeps

\* Another transaction goes on to its next statement.
LEMMA GoesKeeps ==
    ASSUME RecordInv, NEW s \in Session, NEW step, NEW want, Goes(s, step, want),
           db' = db, lastId' = lastId, ~Submitting(txs[s]), txs[s].step # "none",
           step \notin {"insert", "results", "recheck", "world"}
    PROVE  RecordInv'
<1>1. PICK old : old = txs[s]
  OBVIOUS
<1>2. Shaped /\ DOMAIN old = Fields /\ DOMAIN old.put = Tables /\ DOMAIN txs = Session
  BY <1>1 DEF RecordInv, Shaped
<1>3. PICK tx : tx = [old EXCEPT !.step = step, !.want = want]
  OBVIOUS
<1>4. txs' = [txs EXCEPT ![s] = tx]
  BY <1>1, <1>2, <1>3 DEF Goes, Fields
<1>5. /\ DOMAIN tx = Fields /\ tx.kind = old.kind /\ tx.step = step
      /\ tx.put = old.put /\ tx.hold = old.hold
  BY <1>2, <1>3 DEF Fields
<1>6. ~Submitting(tx)
  BY <1>5 DEF Submitting
<1> QED
  BY <1>1, <1>2, <1>4, <1>5, <1>6, ElsewhereKeeps

\* The statements of persistUserPointScore, updateUserRanks and
\* resetInactiveUserScores write no record.
LEMMA ScoresKeep ==
    ASSUME RecordInv, NEW s \in Session,
           \/ CompareSnapshot(s) \/ PutScore(s) \/ UpdateRanks(s) \/ Ranked(s)
           \/ CheckActivity(s) \/ ResetScore(s)
    PROVE  RecordInv'
<1>1. PICK old : old = txs[s]
  OBVIOUS
<1>2. Shaped /\ TxInv(old) /\ DOMAIN old.put = Tables
  BY <1>1 DEF RecordInv, Shaped
<1>3. old.step \in {"compare", "score", "rank", "ranked", "check", "reset"}
  BY <1>1 DEF CompareSnapshot, PutScore, UpdateRanks, Ranked, CheckActivity, ResetScore, At
<1>4. ~Submitting(old) /\ ~Inserted(old) /\ old.step # "none"
  BY <1>3 DEF Submitting, Inserted
<1>5. old.put.record = <<>> /\ old.put.best = <<>> /\ old.put.world = <<>>
  BY <1>2, <1>4 DEF TxInv, Writes
<1>6. ASSUME Finish(s, txs[s].put)
      PROVE  RecordInv'
  BY <1>1, <1>5, <1>6, CommitsNothing
<1>7. CASE CompareSnapshot(s)
  <2>1. CASE Finish(s, txs[s].put)
    BY <1>6, <2>1
  <2>2. CASE ~Finish(s, txs[s].put)
    <3>1. PICK want : Goes(s, "score", want) /\ db' = db /\ lastId' = lastId
      BY <1>7, <2>2 DEF CompareSnapshot
    <3> QED
      BY <1>1, <1>4, <3>1, GoesKeeps
  <2> QED
    BY <2>1, <2>2
<1>8. CASE PutScore(s)
  <2>1. PICK wins, score :
            Finish(s, [Put(s, "wins", wins) EXCEPT !.score = score])
    BY <1>8 DEF PutScore
  <2>2. PICK put : put = [Put(s, "wins", wins) EXCEPT !.score = score]
    OBVIOUS
  <2>3. put.record = <<>> /\ put.best = <<>> /\ put.world = <<>>
    BY <1>1, <1>2, <1>5, <2>2 DEF Put, Tables
  <2> QED
    BY <2>1, <2>2, <2>3, CommitsNothing
<1>9. CASE UpdateRanks(s)
  <2>1. PICK want : Goes(s, "ranked", want) /\ db' = db /\ lastId' = lastId
    BY <1>9 DEF UpdateRanks
  <2> QED
    BY <1>1, <1>4, <2>1, GoesKeeps
<1>10. CASE Ranked(s)
  BY <1>6, <1>10 DEF Ranked
<1>11. CASE CheckActivity(s)
  <2>1. CASE Finish(s, txs[s].put)
    BY <1>6, <2>1
  <2>2. CASE ~Finish(s, txs[s].put)
    <3>1. PICK want : Goes(s, "reset", want) /\ db' = db /\ lastId' = lastId
      BY <1>11, <2>2 DEF CheckActivity
    <3> QED
      BY <1>1, <1>4, <3>1, GoesKeeps
  <2> QED
    BY <2>1, <2>2
<1>12. CASE ResetScore(s)
  <2>1. PICK score : Finish(s, Put(s, "score", score))
    BY <1>12 DEF ResetScore
  <2>2. PICK put : put = Put(s, "score", score)
    OBVIOUS
  <2>3. put.record = <<>> /\ put.best = <<>> /\ put.world = <<>>
    BY <1>1, <1>2, <1>5, <2>2 DEF Put, Tables
  <2> QED
    BY <2>1, <2>2, <2>3, CommitsNothing
<1> QED
  BY <1>7, <1>8, <1>9, <1>10, <1>11, <1>12

\* The statements of rotateTrackTournament write none either.
LEMMA RotationKeeps ==
    ASSUME RecordInv, NEW s \in Session,
           \/ NextUnfinished(s) \/ FinalizeTournament(s) \/ SelectLevel(s) \/ CreateTournament(s)
    PROVE  RecordInv'
<1>1. PICK old : old = txs[s]
  OBVIOUS
<1>2. Shaped /\ TxInv(old) /\ DOMAIN old = Fields /\ DOMAIN old.put = Tables /\ DOMAIN txs = Session
  BY <1>1 DEF RecordInv, Shaped
<1>3. old.step \in {"unfinished", "finalize", "create"}
  BY <1>1 DEF NextUnfinished, FinalizeTournament, SelectLevel, CreateTournament, At
<1>4. ~Submitting(old) /\ ~Inserted(old) /\ old.step # "none"
  BY <1>3 DEF Submitting, Inserted
<1>5. old.put.record = <<>> /\ old.put.best = <<>> /\ old.put.world = <<>>
  BY <1>2, <1>4 DEF TxInv, Writes
<1>6. CASE NextUnfinished(s)
  <2>1. PICK t, want : /\ txs' = [txs EXCEPT ![s].step = "finalize", ![s].id = t, ![s].want = want]
                       /\ db' = db /\ lastId' = lastId
    BY <1>6 DEF NextUnfinished
  <2>2. PICK tx : tx = [old EXCEPT !.step = "finalize", !.id = t, !.want = want]
    OBVIOUS
  <2>3. txs' = [txs EXCEPT ![s] = tx]
    BY <1>1, <1>2, <2>1, <2>2 DEF Fields
  <2>4. /\ DOMAIN tx = Fields /\ tx.kind = old.kind /\ tx.step = "finalize"
        /\ tx.put = old.put /\ tx.hold = old.hold
    BY <1>2, <2>2 DEF Fields
  <2>5. ~Submitting(tx)
    BY <2>4 DEF Submitting
  <2> QED
    BY <1>1, <1>2, <1>4, <2>1, <2>3, <2>4, <2>5, ElsewhereKeeps
<1>7. CASE FinalizeTournament(s)
  <2>1. PICK result, tour :
            /\ txs' = [txs EXCEPT ![s].step = "unfinished",
                                  ![s].put = [Put(s, "result", result) EXCEPT !.tour = tour]]
            /\ db' = db /\ lastId' = lastId
    <3>1. PICK put : put = Put(s, "result", Reranked(View(s), txs[s].id))
      OBVIOUS
    <3>2. PICK tour :
              tour = Over(Row(txs[s].id, [View(s).tour[txs[s].id] EXCEPT !.final = TRUE]), put.tour)
      OBVIOUS
    <3>3. [put EXCEPT !.tour = tour]
            = [put EXCEPT !.tour = Over(Row(txs[s].id, [View(s).tour[txs[s].id] EXCEPT !.final = TRUE]), @)]
      BY <3>2
    <3>4. txs' = [txs EXCEPT ![s].step = "unfinished", ![s].put = [put EXCEPT !.tour = tour]]
      BY <1>7, <3>1, <3>3 DEF FinalizeTournament
    <3> QED
      BY <1>7, <3>1, <3>4 DEF FinalizeTournament
  <2>2. PICK put : put = [Put(s, "result", result) EXCEPT !.tour = tour]
    OBVIOUS
  <2>3. PICK tx : tx = [old EXCEPT !.step = "unfinished", !.put = put]
    OBVIOUS
  <2>4. txs' = [txs EXCEPT ![s] = tx]
    BY <1>1, <1>2, <2>1, <2>2, <2>3 DEF Fields
  <2>5. /\ DOMAIN tx = Fields /\ tx.kind = old.kind /\ tx.step = "unfinished"
        /\ tx.put = put /\ tx.hold = old.hold
    BY <1>2, <2>3 DEF Fields
  <2>6. /\ DOMAIN put = Tables /\ put.record = old.put.record /\ put.best = old.put.best
        /\ put.world = old.put.world /\ put.wins = old.put.wins
    BY <1>1, <1>2, <2>2 DEF Put, Tables
  <2>7. ~Submitting(tx)
    BY <2>5 DEF Submitting
  <2> QED
    BY <1>1, <1>2, <1>4, <2>1, <2>4, <2>5, <2>6, <2>7, ElsewhereKeeps
<1>8. CASE SelectLevel(s)
  <2>1. CASE Finish(s, txs[s].put)
    BY <1>1, <1>5, <2>1, CommitsNothing
  <2>2. CASE ~Finish(s, txs[s].put)
    <3>1. PICK l, want : /\ txs' = [txs EXCEPT ![s].level = l, ![s].step = "create", ![s].want = want]
                         /\ db' = db /\ lastId' = lastId
      BY <1>8, <2>2 DEF SelectLevel
    <3>2. PICK tx : tx = [old EXCEPT !.level = l, !.step = "create", !.want = want]
      OBVIOUS
    <3>3. txs' = [txs EXCEPT ![s] = tx]
      BY <1>1, <1>2, <3>1, <3>2 DEF Fields
    <3>4. /\ DOMAIN tx = Fields /\ tx.kind = old.kind /\ tx.step = "create"
          /\ tx.put = old.put /\ tx.hold = old.hold
      BY <1>2, <3>2 DEF Fields
    <3>5. ~Submitting(tx)
      BY <3>4 DEF Submitting
    <3> QED
      BY <1>1, <1>2, <1>4, <3>1, <3>3, <3>4, <3>5, ElsewhereKeeps
  <2> QED
    BY <2>1, <2>2
<1>9. CASE CreateTournament(s)
  <2>1. PICK tour : Finish(s, Put(s, "tour", tour))
    BY <1>9 DEF CreateTournament
  <2>2. PICK put : put = Put(s, "tour", tour)
    OBVIOUS
  <2>3. put.record = <<>> /\ put.best = <<>> /\ put.world = <<>>
    BY <1>1, <1>2, <1>5, <2>2 DEF Put, Tables
  <2> QED
    BY <2>1, <2>2, <2>3, CommitsNothing
<1> QED
  BY <1>6, <1>7, <1>8, <1>9

\* A transaction starts.
LEMMA StartKeeps ==
    ASSUME RecordInv, NEW s \in Session,
           \/ \E u \in User, l \in Level, time \in Time : Submit(s, u, l, time)
           \/ \E u \in User : Persist(s, u) \/ Reset(s, u)
           \/ Rank(s)
           \/ \E type \in Type : Rotate(s, type)
    PROVE  RecordInv'
<1>1. ASSUME NEW u \in User, NEW l \in Level, NEW time \in Time, Submit(s, u, l, time)
      PROVE  RecordInv'
  <2>1. PICK lock : lock = Exclusive(UserLevel(u, l))
    OBVIOUS
  <2>2. PICK tx : tx = [kind |-> "submit", user |-> u, level |-> l, time |-> time, at |-> now,
                        step |-> "insert", want |-> <<Shared(OfLevel(l))>>]
    OBVIOUS
  <2>3. Begin(s, lock, tx)
    BY <1>1, <2>1, <2>2 DEF Submit
  <2>4. /\ DOMAIN tx \subseteq Fields \ {"hold", "put"} /\ {"kind", "step"} \subseteq DOMAIN tx
        /\ tx.kind # "none" /\ tx.step = "insert" /\ {"user", "level", "time"} \subseteq DOMAIN tx
        /\ tx.user = u /\ tx.level = l /\ tx.time = time
    BY <2>2 DEF Fields
  <2>5. ~Inserted(tx) /\ time \in Nat
    BY <2>4, RecordAssumption DEF Inserted
  <2> QED
    BY <2>1, <2>3, <2>4, <2>5, BeginKeeps
<1>2. ASSUME NEW lock, NEW tx, Begin(s, lock, tx), DOMAIN tx \subseteq Fields \ {"hold", "put"},
             {"kind", "step"} \subseteq DOMAIN tx, tx.kind # "none",
             tx.step \in {"compare", "check", "rank", "unfinished"}
      PROVE  RecordInv'
  BY <1>2, BeginKeeps DEF Inserted
<1>3. ASSUME NEW u \in User, Persist(s, u)
      PROVE  RecordInv'
  <2>1. PICK tx : tx = [kind |-> "persist", user |-> u, step |-> "compare"]
    OBVIOUS
  <2>2. Begin(s, Exclusive(UserScore(u)), tx)
    BY <1>3, <2>1 DEF Persist
  <2>3. DOMAIN tx = {"kind", "user", "step"} /\ tx.kind = "persist" /\ tx.step = "compare"
    BY <2>1
  <2> QED
    BY <1>2, <2>2, <2>3 DEF Fields
<1>4. ASSUME NEW u \in User, Reset(s, u)
      PROVE  RecordInv'
  <2>1. PICK tx : tx = [kind |-> "reset", user |-> u, step |-> "check"]
    OBVIOUS
  <2>2. Begin(s, Exclusive(UserScore(u)), tx)
    BY <1>4, <2>1 DEF Reset
  <2>3. DOMAIN tx = {"kind", "user", "step"} /\ tx.kind = "reset" /\ tx.step = "check"
    BY <2>1
  <2> QED
    BY <1>2, <2>2, <2>3 DEF Fields
<1>5. ASSUME Rank(s)
      PROVE  RecordInv'
  <2>1. PICK lock, want : Begin(s, lock, [kind |-> "rank", step |-> "rank", want |-> want])
    BY <1>5 DEF Rank
  <2>2. PICK tx : tx = [kind |-> "rank", step |-> "rank", want |-> want]
    OBVIOUS
  <2>3. DOMAIN tx = {"kind", "step", "want"} /\ tx.kind = "rank" /\ tx.step = "rank"
    BY <2>2
  <2> QED
    BY <1>2, <2>1, <2>2, <2>3 DEF Fields
<1>6. ASSUME NEW type \in Type, Rotate(s, type)
      PROVE  RecordInv'
  <2>1. PICK tx : tx = [kind |-> "rotate", at |-> now, tours |-> {<<type, now>>},
                        step |-> "unfinished"]
    OBVIOUS
  <2>2. Begin(s, Exclusive(TourType(type)), tx)
    BY <1>6, <2>1 DEF Rotate
  <2>3. /\ DOMAIN tx = {"kind", "at", "tours", "step"} /\ tx.kind = "rotate"
        /\ tx.step = "unfinished"
    BY <2>1
  <2> QED
    BY <1>2, <2>2, <2>3 DEF Fields
<1> QED
  BY <1>1, <1>3, <1>4, <1>5, <1>6

\* A transaction that ends without a commit leaves nothing.
LEMMA AbortKeeps ==
    ASSUME RecordInv, NEW s \in Session, TxAbort(s)
    PROVE  RecordInv'
<1>1. SameRecords
  BY DEF TxAbort, SameRecords, RecordInv, Shaped
<1> QED
  BY <1>1, NoTxKeeps DEF TxAbort

\* Nothing but the clock.
LEMMA StandsStill ==
    ASSUME RecordInv, UNCHANGED <<db, txs, lastId>>
    PROVE  RecordInv'
<1>1. Shaped' /\ LocksExclude' /\ IdsApart' /\ Referring'
  BY DEF RecordInv, Shaped, LocksExclude, Blocks, IdsApart, Referring
<1>2. RecordsAreFastest'
  BY DEF RecordInv, RecordsAreFastest, FastestOf, TimeOf, RecordsOf
<1>3. \A s \in Session : TxInv(txs[s])'
  BY DEF RecordInv, TxInv, Writes, Guarded, Informed, BeatsBest, BeatsWorld, Beats, TimeOf
<1> QED
  BY <1>1, <1>2, <1>3 DEF RecordInv

\* The invariant is inductive: the locks a submission takes and how long it keeps
\* them make what it has found out still true when it commits.
THEOREM RecordInvariant == RecSpec => []RecordInv
<1>1. RecInit => RecordInv
  <2> SUFFICES ASSUME RecInit PROVE RecordInv
    OBVIOUS
  <2>1. /\ DOMAIN db = Tables /\ \A table \in Tables : db[table] = <<>>
        /\ txs = [s \in Session |-> NoTx] /\ lastId = 0
    BY DEF RecInit, Tables
  <2>2. DOMAIN <<>> = {} /\ IsTable(<<>>)
    BY DEF IsTable
  <2>3. db.record = <<>> /\ db.best = <<>> /\ db.world = <<>>
    BY <2>1 DEF Tables
  <2>4. ASSUME NEW s \in Session
        PROVE  /\ DOMAIN txs[s] = Fields /\ txs[s].put = [table \in Tables |-> <<>>]
               /\ txs[s].hold = {} /\ txs[s].step = "none"
    BY <2>1 DEF NoTx, Fields
  <2>5. Shaped
    BY <2>1, <2>2, <2>4 DEF Shaped
  <2>6. LocksExclude /\ IdsApart
    BY <2>4 DEF LocksExclude, IdsApart, Inserted
  <2>7. Referring /\ RecordsAreFastest
    BY <2>1, <2>2, <2>3 DEF Referring, RecordsAreFastest
  <2>8. ASSUME NEW s \in Session PROVE TxInv(txs[s])
    BY <2>4 DEF TxInv, Writes, Guarded, Informed, Inserted, Submitting, Tables
  <2> QED
    BY <2>5, <2>6, <2>7, <2>8 DEF RecordInv
<1>2. RecordInv /\ [RecNext]_recVars => RecordInv'
  <2> SUFFICES ASSUME RecordInv, [RecNext]_recVars PROVE RecordInv'
    OBVIOUS
  <2>1. CASE UNCHANGED recVars
    BY <2>1, StandsStill DEF recVars
  <2>2. CASE PeriodEnds
    BY <2>2, StandsStill DEF PeriodEnds
  <2>3. CASE RecNext /\ ~PeriodEnds
    BY <2>3, TakeLockKeeps, AbortKeeps, StartKeeps, InsertKeeps, PutResultsKeeps, RecheckKeeps,
       PutWorldRecordKeeps, ScoresKeep, RotationKeeps DEF RecNext
  <2> QED
    BY <2>1, <2>2, <2>3
<1> QED
  BY <1>1, <1>2, PTL DEF RecSpec

\* A level's world record is the fastest of its committed records, and a user's
\* personal best the fastest of theirs, for any number of sessions, users and
\* levels.
THEOREM RecordsStayFastest == RecSpec => []RecordsAreFastest
<1>1. RecordInv => RecordsAreFastest
  BY DEF RecordInv
<1> QED
  BY <1>1, RecordInvariant, PTL

-----------------------------------------------------------------------------
(* The numbers of world records.                                           *)

\* A user's world records are counted alike in two states of the tables, if the
\* world records are the same and the records they refer to.
LEMMA WinsAlike ==
    ASSUME NEW view, NEW other, NEW u, view.world = other.world,
           \A l \in DOMAIN view.world : view.record[view.world[l]] = other.record[view.world[l]]
    PROVE  Wins(view, u) = Wins(other, u)
<1>1. {l \in DOMAIN view.world : view.record[view.world[l]].user = u}
        = {l \in DOMAIN other.world : other.record[other.world[l]].user = u}
  OBVIOUS
<1> QED
  BY <1>1 DEF Wins

\* A commit takes no record away.
LEMMA RecordsRemain ==
    ASSUME RecordInv, NEW s \in Session, NEW record, record = Over(txs[s].put.record, db.record),
           NEW r \in DOMAIN db.record
    PROVE  record[r] = db.record[r]
<1>1. PICK tx : tx = txs[s]
  OBVIOUS
<1>2. TxInv(tx) /\ IsTable(db.record)
  BY <1>1 DEF RecordInv, Shaped, Tables
<1>3. CASE Inserted(tx)
  BY <1>1, <1>2, <1>3 DEF TxInv, Writes, Over, Row
<1>4. CASE ~Inserted(tx)
  BY <1>1, <1>2, <1>4, OverNothing DEF TxInv, Writes
<1> QED
  BY <1>3, <1>4

\* A commit that brings no world record leaves the numbers right, if it writes
\* none or the right one.
LEMMA CommitCounts ==
    ASSUME RecordInv, WinsAccurate, NEW s \in Session, NEW put, Finish(s, put),
           put.record = txs[s].put.record, put.world = <<>>,
           put.wins = <<>> \/ \E u : put.wins = Row(u, Wins(View(s), u))
    PROVE  WinsAccurate'
<1>1. Shaped /\ Referring /\ TxInv(txs[s])
  BY DEF RecordInv
<1>2. /\ db'.record = Over(txs[s].put.record, db.record) /\ db'.world = Over(<<>>, db.world)
      /\ db'.wins = Over(put.wins, db.wins)
  BY <1>1, FinishIs DEF Tables
<1>3. IsTable(db.world) /\ IsTable(db.wins)
  BY <1>1 DEF Shaped, Tables
<1>4. db'.world = db.world
  BY <1>2, <1>3, OverNothing
<1>5. \A l \in DOMAIN db.world : db'.record[db.world[l]] = db.record[db.world[l]]
  BY <1>1, <1>2, RecordsRemain DEF Referring
<1>6. ASSUME NEW u PROVE Wins(db', u) = Wins(db, u)
  BY <1>4, <1>5, WinsAlike
<1>7. CASE put.wins = <<>>
  BY <1>2, <1>3, <1>6, <1>7, OverNothing DEF WinsAccurate
<1>8. CASE \E u : put.wins = Row(u, Wins(View(s), u))
  <2>1. PICK u : put.wins = Row(u, Wins(View(s), u))
    BY <1>8
  <2>2. PICK view : view = View(s)
    OBVIOUS
  <2>3. /\ view.record = Over(txs[s].put.record, db.record)
        /\ view.world = Over(txs[s].put.world, db.world)
    BY <1>1, <2>2 DEF View, Shaped, Tables
  <2>4. view.world = db.world
    BY <1>1, <1>3, <2>3, OverNothing DEF TxInv, Writes
  <2>5. \A l \in DOMAIN db.world : view.record[db.world[l]] = db.record[db.world[l]]
    BY <1>1, <2>3, RecordsRemain DEF Referring
  <2>6. Wins(view, u) = Wins(db, u)
    BY <2>4, <2>5, WinsAlike
  <2>7. ASSUME NEW v \in DOMAIN db'.wins
        PROVE  db'.wins[v] = Wins(db, v)
    BY <1>2, <2>1, <2>2, <2>6 DEF Over, Row, WinsAccurate
  <2> QED
    BY <1>6, <2>7 DEF WinsAccurate
<1> QED
  BY <1>7, <1>8

\* A new world record changes the number of its holder and of the one before, and
\* of nobody else.
LEMMA WorldRecordCounts ==
    ASSUME RecordInv, WinsAccurate, NEW s \in Session, PutWorldRecord(s)
    PROVE  WinsAccurate'
<1>1. PICK tx : tx = txs[s]
  OBVIOUS
<1>2. Shaped /\ Referring /\ TxInv(tx) /\ DOMAIN tx.put = Tables
  BY <1>1 DEF RecordInv, Shaped
<1>3. tx.step = "world" /\ Inserted(tx)
  BY <1>1 DEF PutWorldRecord, At, Inserted
<1>4. PICK view : view = View(s)
  OBVIOUS
<1>5. /\ DOMAIN view = Tables
      /\ view.record = Over(tx.put.record, db.record) /\ view.world = Over(tx.put.world, db.world)
  BY <1>1, <1>2, <1>4 DEF View, Shaped, Tables
<1>6. view.world = db.world
  <2>1. IsTable(db.world)
    BY <1>2 DEF Shaped, Tables
  <2> QED
    BY <1>2, <1>5, <2>1, OverNothing DEF TxInv, Writes
<1>7. PICK next : next = [view EXCEPT !.world = Over(Row(tx.level, tx.id), view.world)]
  OBVIOUS
<1>8. PICK wins : wins = [u \in Holders(s) |-> Wins(next, u)]
  OBVIOUS
<1>9. PICK put : put = [Put(s, "world", Row(tx.level, tx.id)) EXCEPT !.wins = wins]
  OBVIOUS
<1>10. Finish(s, put)
  <2>1. next = [View(s) EXCEPT !.world = Over(Row(txs[s].level, txs[s].id), @)]
    BY <1>1, <1>4, <1>7
  <2> QED
    BY <1>1, <1>8, <1>9, <2>1 DEF PutWorldRecord
<1>11. /\ put.record = tx.put.record /\ put.wins = wins
       /\ put.world = Over(Row(tx.level, tx.id), <<>>)
  BY <1>1, <1>2, <1>9 DEF Put, Tables, TxInv, Writes
<1>12. /\ db'.record = view.record /\ db'.wins = Over(wins, db.wins)
       /\ db'.world = Over(Row(tx.level, tx.id), db.world)
  <2>1. put.world = Row(tx.level, tx.id)
    BY <1>11, RowIs
  <2>2. /\ db'.record = Over(put.record, db.record) /\ db'.wins = Over(put.wins, db.wins)
        /\ db'.world = Over(put.world, db.world)
    BY <1>2, <1>10, FinishIs DEF Tables
  <2> QED
    BY <1>5, <1>11, <2>1, <2>2
<1>13. next.world = db'.world /\ next.record = db'.record
  BY <1>5, <1>6, <1>7, <1>12 DEF Tables
<1>14. ASSUME NEW u PROVE Wins(next, u) = Wins(db', u)
  BY <1>13, WinsAlike
<1>15. \A l \in DOMAIN db.world : /\ db.world[l] \in DOMAIN db.record
                                  /\ db'.record[db.world[l]] = db.record[db.world[l]]
  BY <1>1, <1>2, <1>5, <1>12, RecordsRemain DEF Referring
<1>16. /\ DOMAIN db'.world = {tx.level} \cup DOMAIN db.world /\ db'.world[tx.level] = tx.id
       /\ \A l \in DOMAIN db.world \ {tx.level} : db'.world[l] = db.world[l]
  BY <1>12 DEF Over, Row
<1>17. db'.record[tx.id].user = tx.user
  BY <1>2, <1>3, <1>5, <1>12 DEF TxInv, Writes, Over, Row, RecordOf
<1>18. ASSUME NEW u, u \notin Holders(s)
       PROVE  Wins(db', u) = Wins(db, u)
  <2>1. u # tx.user
    BY <1>1, <1>18 DEF Holders
  <2>2. tx.level \in DOMAIN db.world => db.record[db.world[tx.level]].user # u
    BY <1>1, <1>4, <1>6, <1>12, <1>15, <1>18 DEF Holders
  <2>3. {l \in DOMAIN db'.world : db'.record[db'.world[l]].user = u}
          = {l \in DOMAIN db.world : db.record[db.world[l]].user = u}
    BY <1>15, <1>16, <1>17, <2>1, <2>2
  <2> QED
    BY <2>3 DEF Wins
<1>19. ASSUME NEW u \in DOMAIN db'.wins
       PROVE  db'.wins[u] = Wins(db', u)
  <2>1. CASE u \in Holders(s)
    BY <1>8, <1>12, <1>14, <2>1 DEF Over
  <2>2. CASE u \notin Holders(s)
    BY <1>8, <1>12, <1>18, <1>19, <2>2 DEF Over, WinsAccurate
  <2> QED
    BY <2>1, <2>2
<1> QED
  BY <1>19 DEF WinsAccurate

\* The statements before the last one of a transaction, and its end without a
\* commit.
LEMMA UncommittedCounts ==
    ASSUME RecordInv, WinsAccurate, db' = db
    PROVE  WinsAccurate'
BY DEF WinsAccurate, Wins

\* Nobody but a submission has a world record to write.
LEMMA ElsewhereCounts ==
    ASSUME RecordInv, WinsAccurate, NEW s \in Session,
           \/ CompareSnapshot(s) \/ PutScore(s) \/ UpdateRanks(s) \/ Ranked(s)
           \/ CheckActivity(s) \/ ResetScore(s) \/ SelectLevel(s) \/ CreateTournament(s)
    PROVE  WinsAccurate'
<1>1. PICK old : old = txs[s]
  OBVIOUS
<1>2. TxInv(old) /\ DOMAIN old.put = Tables
  BY <1>1 DEF RecordInv, Shaped
<1>3. ~Inserted(old)
  BY <1>1 DEF CompareSnapshot, PutScore, UpdateRanks, Ranked, CheckActivity, ResetScore,
              SelectLevel, CreateTournament, At, Inserted
<1>4. old.put.record = <<>> /\ old.put.world = <<>> /\ old.put.wins = <<>>
  BY <1>2, <1>3 DEF TxInv, Writes
<1>5. CASE Finish(s, txs[s].put)
  BY <1>1, <1>4, <1>5, CommitCounts
<1>6. CASE \E score : Finish(s, Put(s, "score", score)) \/ Finish(s, Put(s, "tour", score))
  <2>1. PICK score : Finish(s, Put(s, "score", score)) \/ Finish(s, Put(s, "tour", score))
    BY <1>6
  <2>2. PICK put : Finish(s, put) /\ put \in {Put(s, "score", score), Put(s, "tour", score)}
    BY <2>1
  <2>3. put.record = old.put.record /\ put.world = <<>> /\ put.wins = <<>>
    BY <1>1, <1>2, <1>4, <2>2 DEF Put, Tables
  <2> QED
    BY <1>1, <2>2, <2>3, CommitCounts
<1>7. CASE PutScore(s)
  <2>1. PICK u, score :
            Finish(s, [Put(s, "wins", Row(u, Wins(View(s), u))) EXCEPT !.score = score])
    BY <1>7 DEF PutScore
  <2>2. PICK put : put = [Put(s, "wins", Row(u, Wins(View(s), u))) EXCEPT !.score = score]
    OBVIOUS
  <2>3. /\ put.record = old.put.record /\ put.world = <<>>
        /\ put.wins = Over(Row(u, Wins(View(s), u)), <<>>)
    BY <1>1, <1>2, <1>4, <2>2 DEF Put, Tables
  <2>4. put.wins = Row(u, Wins(View(s), u))
    BY <2>3, RowIs
  <2> QED
    BY <1>1, <2>1, <2>2, <2>3, <2>4, CommitCounts
<1>8. CASE db' = db
  BY <1>8, UncommittedCounts
<1>9. CASE ResetScore(s) \/ CreateTournament(s)
  BY <1>6, <1>9 DEF ResetScore, CreateTournament
<1>10. CASE CompareSnapshot(s) \/ UpdateRanks(s) \/ Ranked(s) \/ CheckActivity(s) \/ SelectLevel(s)
  BY <1>5, <1>8, <1>10 DEF CompareSnapshot, UpdateRanks, Ranked, CheckActivity, SelectLevel
<1> QED
  BY <1>7, <1>9, <1>10

\* A submission that ends without a world record.
LEMMA RecheckCounts ==
    ASSUME RecordInv, WinsAccurate, NEW s \in Session, RecheckWorldRecord(s)
    PROVE  WinsAccurate'
<1>1. PICK put : put = txs[s].put
  OBVIOUS
<1>2. put.world = <<>> /\ put.wins = <<>>
  BY <1>1 DEF RecordInv, TxInv, Writes
<1>3. Finish(s, put) \/ db' = db
  BY <1>1 DEF RecheckWorldRecord
<1> QED
  BY <1>1, <1>2, <1>3, CommitCounts, UncommittedCounts

\* user_points.world_records is the number of world records the user holds,
\* whichever of the transactions that write it come between one another, for any
\* number of them.
THEOREM WinsStayAccurate == RecSpec => []WinsAccurate
<1>1. RecInit => WinsAccurate
  <2> SUFFICES ASSUME RecInit PROVE DOMAIN db.wins = {}
    BY DEF WinsAccurate
  <2>1. db.wins = <<>>
    BY DEF RecInit
  <2> QED
    BY <2>1
<1>2. RecordInv /\ WinsAccurate /\ [RecNext]_recVars => WinsAccurate'
  <2> SUFFICES ASSUME RecordInv, WinsAccurate, [RecNext]_recVars PROVE WinsAccurate'
    OBVIOUS
  <2>1. CASE db' = db
    BY <2>1, UncommittedCounts
  <2>2. ASSUME NEW s \in Session,
               \/ TakeLock(s) \/ TxAbort(s)
               \/ \E u \in User, l \in Level, time \in Time : Submit(s, u, l, time)
               \/ InsertRecord(s) \/ PutResults(s)
               \/ \E u \in User : Persist(s, u) \/ Reset(s, u)
               \/ Rank(s) \/ (\E type \in Type : Rotate(s, type))
               \/ NextUnfinished(s) \/ FinalizeTournament(s)
        PROVE  db' = db
    BY <2>2 DEF TakeLock, TxAbort, Submit, Begin, InsertRecord, PutResults, Persist, Reset, Rank,
                Rotate, NextUnfinished, FinalizeTournament
  <2>3. CASE UNCHANGED recVars \/ PeriodEnds
    BY <2>1, <2>3 DEF recVars, PeriodEnds
  <2>4. CASE RecNext /\ ~PeriodEnds
    BY <2>1, <2>2, <2>4, ElsewhereCounts, RecheckCounts, WorldRecordCounts DEF RecNext
  <2> QED
    BY <2>3, <2>4
<1> QED
  BY <1>1, <1>2, RecordInvariant, PTL DEF RecSpec

-----------------------------------------------------------------------------
(* The track tournaments.  What is said of the tables is said of some      *)
(* tables d, so that it is about db in one state and about db' in the next. *)

Rotating(tx) == tx.step \in {"unfinished", "finalize", "create"}

\* A transaction holds a lock, or is about to take it before anything else.
Holds(tx, lock) == lock \in tx.hold
Awaits(tx, lock) == tx.want = <<lock>> \/ lock \in tx.hold

LevelLock(d, t) == Exclusive(OfLevel(d.tour[t].level))

\* A tournament that still takes results of submissions like tx.
OpenTo(d, tx, t) ==
    /\ t \in DOMAIN d.tour
    /\ d.tour[t].level = tx.level /\ ~d.tour[t].final /\ t[2] = tx.at

Rows(record, result) == [record |-> record, result |-> result]

\* The result at k is of a record of the user, on the level and in the period, and
\* its rank is the one its time gives it.
Standing(record, result, k, level) ==
    /\ k = <<k[1], k[2]>>
    /\ "id" \in DOMAIN result[k] /\ result[k].id \in DOMAIN record
    /\ record[result[k].id].user = k[2] /\ record[result[k].id].at = k[1][2]
    /\ record[result[k].id].level = level
    /\ result[k] = Reranked(Rows(record, result), k[1])[k]

\* The records as a transaction sees them.
Seen(d, tx) == Over(tx.put.record, d.record)

\* A submission: while it goes on no tournament of its level can be finalized, and
\* once it has put a result nobody else changes those of that tournament.
Submits(d, tx) ==
    /\ tx.put.tour = <<>>
    /\ IF tx.step = "insert" THEN Awaits(tx, Shared(OfLevel(tx.level)))
                             ELSE Holds(tx, Shared(OfLevel(tx.level)))
    /\ tx.step \in {"insert", "results"} => tx.put.result = <<>>
    /\ tx.step = "results" =>
          /\ tx.want \in Seq({Exclusive(TourResults(t)) : t \in tx.tours})
          /\ \A t \in tx.tours : /\ OpenTo(d, tx, t)
                                 /\ \/ Holds(tx, Exclusive(TourResults(t)))
                                    \/ \E i \in DOMAIN tx.want :
                                           tx.want[i] = Exclusive(TourResults(t))
    /\ \A k \in DOMAIN tx.put.result :
          /\ OpenTo(d, tx, k[1]) /\ Holds(tx, Exclusive(TourResults(k[1])))
          /\ Standing(Seen(d, tx), tx.put.result, k, tx.level)
          /\ \A j \in DOMAIN d.result : j[1] = k[1] => j \in DOMAIN tx.put.result

\* A tournament a rotation finalizes.
Finalizes(d, tx, t) ==
    /\ t \in DOMAIN d.tour /\ ~d.tour[t].final
    /\ \A own \in tx.tours : t[1] = own[1]

\* A rotation: the tournaments it finalizes are of its type and no submission to
\* their level goes on.  It ranks nothing that was not ranked so.
Rotates(d, tx) ==
    /\ \E own \in tx.tours : /\ tx.tours = {own} /\ own = <<own[1], tx.at>>
                             /\ Holds(tx, Exclusive(TourType(own[1])))
    /\ \A t \in DOMAIN tx.put.tour :
          /\ Finalizes(d, tx, t) /\ Holds(tx, LevelLock(d, t))
          /\ tx.put.tour[t] = [d.tour[t] EXCEPT !.final = TRUE]
    /\ tx.step = "finalize" =>
          Finalizes(d, tx, tx.id) /\ Awaits(tx, LevelLock(d, tx.id))
    /\ tx.step = "create" => tx.tours \cap DOMAIN d.tour = {}
    /\ \A k \in DOMAIN tx.put.result :
          /\ k[1] \in DOMAIN d.tour /\ ~d.tour[k[1]].final /\ Holds(tx, LevelLock(d, k[1]))
          /\ k \in DOMAIN d.result /\ tx.put.result[k] = d.result[k]

TourTx(d, tx) ==
    /\ Submitting(tx) => Submits(d, tx)
    /\ Rotating(tx) => Rotates(d, tx)
    /\ ~Submitting(tx) /\ ~Rotating(tx) => tx.put.tour = <<>> /\ tx.put.result = <<>>

Tours(d) ==
    /\ IsFiniteSet(DOMAIN d.tour)
    /\ \A t \in DOMAIN d.tour : DOMAIN d.tour[t] = {"level", "final"} /\ IsTable(d.tour[t])
    /\ \A k \in DOMAIN d.result :
          k[1] \in DOMAIN d.tour /\ Standing(d.record, d.result, k, d.tour[k[1]].level)

TourInv == Tours(db) /\ \A s \in Session : TourTx(db, txs[s])

-----------------------------------------------------------------------------
(* Ranks.                                                                  *)

\* The results of the tournament of k that are faster than the one at k.
FasterThan(view, k) ==
    {j \in {i \in DOMAIN view.result : i[1] = k[1]} :
        TimeOf(view, view.result[j].id) < TimeOf(view, view.result[k].id)}

\* What becomes of one result.
LEMMA RerankedIs ==
    ASSUME NEW view, NEW k \in DOMAIN view.result
    PROVE  Reranked(view, k[1])[k]
             = [view.result[k] EXCEPT !.rank = 1 + Cardinality(FasterThan(view, k))]
BY DEF Reranked, FasterThan

\* A rank is a matter of the records the results of the tournament refer to.
LEMMA FasterAlike ==
    ASSUME NEW view, NEW other, NEW k \in DOMAIN view.result, k \in DOMAIN other.result,
           \A j : j[1] = k[1] => (j \in DOMAIN view.result <=> j \in DOMAIN other.result),
           \A j \in DOMAIN view.result : j[1] = k[1] =>
               view.record[view.result[j].id] = other.record[other.result[j].id]
    PROVE  FasterThan(view, k) = FasterThan(other, k)
<1>1. {i \in DOMAIN view.result : i[1] = k[1]} = {i \in DOMAIN other.result : i[1] = k[1]}
  OBVIOUS
<1>2. ASSUME NEW j \in {i \in DOMAIN view.result : i[1] = k[1]}
      PROVE  TimeOf(view, view.result[j].id) = TimeOf(other, other.result[j].id)
  BY DEF TimeOf
<1> QED
  BY <1>1, <1>2 DEF FasterThan

\* The results of a tournament are the same, and no record is gone.
SameResults(tour, record, result, record2, result2) ==
    /\ \A j : j[1] = tour => (j \in DOMAIN result <=> j \in DOMAIN result2)
    /\ \A j \in DOMAIN result : j[1] = tour => result2[j] = result[j]
    /\ \A r \in DOMAIN record : r \in DOMAIN record2 /\ record2[r] = record[r]

AllStanding(tour, record, result, level) ==
    \A j \in DOMAIN result : j[1] = tour => Standing(record, result, j, level)

\* Results stand as long as those of their tournament are the same and their
\* records are there.
LEMMA StandingAlike ==
    ASSUME NEW record, NEW result, NEW level, NEW tour, NEW record2, NEW result2,
           AllStanding(tour, record, result, level),
           SameResults(tour, record, result, record2, result2)
    PROVE  AllStanding(tour, record2, result2, level)
<1> SUFFICES ASSUME NEW k \in DOMAIN result2, k[1] = tour
             PROVE  Standing(record2, result2, k, level)
  BY DEF AllStanding
<1>1. k \in DOMAIN result /\ result2[k] = result[k] /\ Standing(record, result, k, level)
  BY DEF AllStanding, SameResults
<1>2. PICK view : view = Rows(record, result)
  OBVIOUS
<1>3. PICK other : other = Rows(record2, result2)
  OBVIOUS
<1>4. view.record = record /\ view.result = result /\ other.record = record2 /\ other.result = result2
  BY <1>2, <1>3 DEF Rows
<1>5. \A j \in DOMAIN view.result : j[1] = k[1] =>
          view.record[view.result[j].id] = other.record[other.result[j].id]
  BY <1>4 DEF Standing, AllStanding, SameResults
<1>6. FasterThan(view, k) = FasterThan(other, k)
  <2>1. \A j : j[1] = k[1] => (j \in DOMAIN view.result <=> j \in DOMAIN other.result)
    BY <1>4 DEF SameResults
  <2>2. k \in DOMAIN view.result /\ k \in DOMAIN other.result
    BY <1>1, <1>4
  <2> QED
    BY <1>5, <2>1, <2>2, FasterAlike
<1>7. Reranked(view, k[1])[k] = Reranked(other, k[1])[k]
  <2>1. k \in DOMAIN view.result /\ k \in DOMAIN other.result /\ view.result[k] = other.result[k]
    BY <1>1, <1>4
  <2>2. Reranked(view, k[1])[k]
          = [view.result[k] EXCEPT !.rank = 1 + Cardinality(FasterThan(view, k))]
    BY <2>1, RerankedIs
  <2>3. Reranked(other, k[1])[k]
          = [other.result[k] EXCEPT !.rank = 1 + Cardinality(FasterThan(other, k))]
    BY <2>1, RerankedIs
  <2> QED
    BY <1>6, <2>1, <2>2, <2>3
<1> QED
  BY <1>1, <1>2, <1>3, <1>7 DEF Standing, SameResults

-----------------------------------------------------------------------------
(* Commits.                                                                *)

\* Nothing finalized changes.
FinalKept ==
    \A t \in DOMAIN db.tour : db.tour[t].final =>
        /\ db'.tour[t] = db.tour[t]
        /\ \A u \in User : LET k == <<t, u>>
                           IN  /\ (k \in DOMAIN db'.result) = (k \in DOMAIN db.result)
                               /\ k \in DOMAIN db.result => db'.result[k] = db.result[k]

\* A step of one transaction that commits nothing keeps the invariant, if the
\* transaction is in order after it.
LEMMA OneTxTours ==
    ASSUME RecordInv, TourInv, NEW s \in Session, NEW tx, txs' = [txs EXCEPT ![s] = tx],
           db' = db, TourTx(db, tx)
    PROVE  TourInv' /\ FinalKept
<1>1. txs'[s] = tx /\ \A t \in Session \ {s} : txs'[t] = txs[t]
  BY DEF RecordInv, Shaped
<1>2. \A t \in Session : TourTx(db, txs'[t])
  BY <1>1 DEF TourInv
<1>3. TourInv'
  BY <1>2 DEF TourInv
<1> QED
  BY <1>3 DEF FinalKept

\* No transaction has put anything.
LEMMA NoTxTours ==
    ASSUME RecordInv, NEW s \in Session, txs' = [txs EXCEPT ![s] = NoTx], Tours(db'),
           \A t \in Session \ {s} : TourTx(db', txs[t])
    PROVE  TourInv'
<1>1. PICK none : none = NoTx
  OBVIOUS
<1>2. none.step = "none" /\ none.put = [table \in Tables |-> <<>>]
  BY <1>1 DEF NoTx, RecordInv, Shaped
<1>3. TourTx(db', none)
  BY <1>2 DEF TourTx, Submitting, Rotating, Tables
<1>4. txs'[s] = none /\ \A t \in Session \ {s} : txs'[t] = txs[t]
  BY <1>1 DEF RecordInv, Shaped
<1> QED
  BY <1>3, <1>4 DEF TourInv

\* Two transactions hold no locks that exclude one another.
LEMMA SharedAlone ==
    ASSUME RecordInv, NEW s \in Session, NEW t \in Session, NEW lock,
           Exclusive(lock) \in txs[s].hold,
           Shared(lock) \in txs[t].hold \/ Exclusive(lock) \in txs[t].hold
    PROVE  s = t
<1>1. /\ Exclusive(lock)[1] = "exclusive" /\ Exclusive(lock)[2] = lock /\ Shared(lock)[2] = lock
  BY DEF Exclusive, Shared
<1> QED
  BY <1>1 DEF RecordInv, LocksExclude, Blocks

\* What a commit that puts results has to do with the tables: they are those of
\* the tournaments whose locks s holds, all of them.
Puts(s, result) ==
    /\ db'.tour = db.tour /\ db'.result = Over(result, db.result)
    /\ \A r \in DOMAIN db.record : r \in DOMAIN db'.record /\ db'.record[r] = db.record[r]
    /\ \A k \in DOMAIN result :
          /\ k[1] \in DOMAIN db.tour /\ ~db.tour[k[1]].final
          /\ Standing(db'.record, result, k, db.tour[k[1]].level)
          /\ \A j \in DOMAIN db.result : j[1] = k[1] => j \in DOMAIN result
          /\ Exclusive(TourResults(k[1])) \in txs[s].hold
          /\ Shared(OfLevel(db.tour[k[1]].level)) \in txs[s].hold

\* All results stand after that, and those of a finalized tournament are what they
\* were.
LEMMA PutsStand ==
    ASSUME TourInv, NEW s \in Session, NEW result, Puts(s, result)
    PROVE  Tours(db') /\ FinalKept
<1>1. PICK old, new, before, after :
          /\ old = db.result /\ new = db'.result /\ before = db.record /\ after = db'.record
  OBVIOUS
<1>2. /\ DOMAIN new = DOMAIN result \cup DOMAIN old
      /\ \A k \in DOMAIN result : new[k] = result[k]
      /\ \A k \in DOMAIN old \ DOMAIN result : new[k] = old[k]
  BY <1>1 DEF Puts, Over
<1>3. ASSUME NEW t \in DOMAIN db.tour
      PROVE  AllStanding(t, after, new, db.tour[t].level)
  <2>1. CASE \E k \in DOMAIN result : k[1] = t
    <3>1. AllStanding(t, after, result, db.tour[t].level)
      BY <1>1 DEF Puts, AllStanding
    <3>2. SameResults(t, after, result, after, new)
      BY <1>1, <1>2, <2>1 DEF Puts, SameResults
    <3> QED
      BY <3>1, <3>2, StandingAlike
  <2>2. CASE ~\E k \in DOMAIN result : k[1] = t
    <3>1. AllStanding(t, before, old, db.tour[t].level)
      BY <1>1 DEF TourInv, Tours, AllStanding
    <3>2. SameResults(t, before, old, after, new)
      BY <1>1, <1>2, <2>2 DEF Puts, SameResults
    <3> QED
      BY <3>1, <3>2, StandingAlike
  <2> QED
    BY <2>1, <2>2
<1>4. Tours(db')
  <2>1. \A k \in DOMAIN new : k[1] \in DOMAIN db.tour
    BY <1>1, <1>2 DEF Puts, TourInv, Tours
  <2> QED
    BY <1>1, <1>3, <2>1 DEF Puts, TourInv, Tours, AllStanding
<1>5. ASSUME NEW t \in DOMAIN db.tour, db.tour[t].final, NEW u \in User
      PROVE  <<t, u>> \notin DOMAIN result
  BY <1>5 DEF Puts
<1>6. FinalKept
  BY <1>1, <1>2, <1>5 DEF FinalKept, Puts
<1> QED
  BY <1>4, <1>6

\* What a transaction sees of the records stays.
LEMMA SeenGrows ==
    ASSUME NEW tx, NEW d, NEW e,
           \A r \in DOMAIN d.record : r \in DOMAIN e.record /\ e.record[r] = d.record[r],
           NEW r \in DOMAIN Seen(d, tx)
    PROVE  r \in DOMAIN Seen(e, tx) /\ Seen(e, tx)[r] = Seen(d, tx)[r]
BY DEF Seen, Over

\* The others do not notice such a commit.
LEMMA PutsLeaveOthers ==
    ASSUME RecordInv, TourInv, NEW s \in Session, NEW result, Puts(s, result),
           NEW t \in Session \ {s}
    PROVE  TourTx(db', txs[t])
<1>1. PICK tx : tx = txs[t]
  OBVIOUS
<1>2. PICK old, new : old = db.result /\ new = db'.result
  OBVIOUS
<1>3. /\ DOMAIN new = DOMAIN result \cup DOMAIN old
      /\ \A k \in DOMAIN old \ DOMAIN result : new[k] = old[k]
  BY <1>2 DEF Puts, Over
<1>4. TourTx(db, tx) /\ db'.tour = db.tour
  BY <1>1 DEF TourInv, Puts
<1>5. ASSUME Submits(db, tx) PROVE Submits(db', tx)
  <2>1. \A u : OpenTo(db', tx, u) <=> OpenTo(db, tx, u)
    BY <1>4 DEF OpenTo
  <2>2. ASSUME NEW k \in DOMAIN tx.put.result
        PROVE  /\ Standing(Seen(db', tx), tx.put.result, k, tx.level)
               /\ \A j \in DOMAIN new : j[1] = k[1] => j \in DOMAIN tx.put.result
    <3>1. AllStanding(k[1], Seen(db, tx), tx.put.result, tx.level)
      BY <1>5 DEF Submits, AllStanding
    <3>2. SameResults(k[1], Seen(db, tx), tx.put.result, Seen(db', tx), tx.put.result)
      BY SeenGrows DEF SameResults, Puts
    <3>3. AllStanding(k[1], Seen(db', tx), tx.put.result, tx.level)
      BY <3>1, <3>2, StandingAlike
    <3>4. ASSUME NEW j \in DOMAIN result, j[1] = k[1] PROVE FALSE
      BY <1>1, <1>5, <3>4, SharedAlone DEF Submits, Holds, Puts
    <3> QED
      BY <1>2, <1>3, <1>5, <3>3, <3>4 DEF Submits, AllStanding
  <2> QED
    BY <1>2, <1>5, <2>1, <2>2 DEF Submits
<1>6. ASSUME Rotates(db, tx) PROVE Rotates(db', tx)
  <2>1. ASSUME NEW k \in DOMAIN tx.put.result
        PROVE  k \in DOMAIN new /\ tx.put.result[k] = new[k]
    <3>1. k \in DOMAIN old /\ tx.put.result[k] = old[k] /\ LevelLock(db, k[1]) \in tx.hold
      BY <1>2, <1>6 DEF Rotates, Holds
    <3>2. k \notin DOMAIN result
      BY <1>1, <3>1, SharedAlone DEF Puts, LevelLock
    <3> QED
      BY <1>3, <3>1, <3>2
  <2>2. \A u : /\ Finalizes(db', tx, u) <=> Finalizes(db, tx, u)
               /\ LevelLock(db', u) = LevelLock(db, u)
    BY <1>4 DEF Finalizes, LevelLock
  <2> QED
    BY <1>2, <1>4, <1>6, <2>1, <2>2 DEF Rotates
<1> QED
  BY <1>1, <1>4, <1>5, <1>6 DEF TourTx

\* What a commit of a rotation has to do with the tables: it may bring its own
\* tournament, and finalizes some of its type whose levels it has locked.
Closes(s, own) ==
    /\ db'.record = db.record /\ db'.result = db.result
    /\ IsFiniteSet(DOMAIN db'.tour) /\ DOMAIN db.tour \subseteq DOMAIN db'.tour
    /\ DOMAIN db'.tour \subseteq DOMAIN db.tour \cup {own}
    /\ \A t \in DOMAIN db'.tour : DOMAIN db'.tour[t] = {"level", "final"} /\ IsTable(db'.tour[t])
    /\ \A t \in DOMAIN db.tour :
          /\ db'.tour[t].level = db.tour[t].level
          /\ \/ db'.tour[t] = db.tour[t]
             \/ ~db.tour[t].final /\ t[1] = own[1] /\ LevelLock(db, t) \in txs[s].hold
    /\ Exclusive(TourType(own[1])) \in txs[s].hold

\* Nothing that was final is touched, and the results stand.
LEMMA ClosesStand ==
    ASSUME TourInv, NEW s \in Session, NEW own, Closes(s, own)
    PROVE  Tours(db') /\ FinalKept
<1>1. Tours(db')
  BY DEF TourInv, Tours, Closes
<1>2. FinalKept
  BY DEF FinalKept, Closes
<1> QED
  BY <1>1, <1>2

\* The others do not notice it: the tournaments that they have to do with are of
\* other types or on levels they have locked.
LEMMA ClosesLeavesOthers ==
    ASSUME RecordInv, TourInv, NEW s \in Session, NEW own, Closes(s, own),
           NEW t \in Session \ {s}
    PROVE  TourTx(db', txs[t])
<1>1. PICK tx : tx = txs[t]
  OBVIOUS
<1>2. TourTx(db, tx) /\ db'.result = db.result /\ Seen(db', tx) = Seen(db, tx)
  BY <1>1 DEF TourInv, Closes, Seen
<1>3. ASSUME NEW u \in DOMAIN db.tour,
             \/ LevelLock(db, u) \in tx.hold \/ Shared(OfLevel(db.tour[u].level)) \in tx.hold
             \/ Exclusive(TourType(u[1])) \in tx.hold
      PROVE  db'.tour[u] = db.tour[u]
  <2>1. LevelLock(db, u) \notin txs[s].hold \/ Exclusive(TourType(u[1])) \in tx.hold
    BY <1>1, <1>3, SharedAlone DEF LevelLock
  <2>2. Exclusive(TourType(u[1])) \in tx.hold => u[1] # own[1]
    BY <1>1, SharedAlone DEF Closes
  <2> QED
    BY <2>1, <2>2 DEF Closes
<1>4. ASSUME Submits(db, tx), tx.step # "insert" PROVE Submits(db', tx)
  <2>1. Shared(OfLevel(tx.level)) \in tx.hold
    BY <1>4 DEF Submits, Holds
  <2>2. ASSUME NEW u, OpenTo(db, tx, u) PROVE OpenTo(db', tx, u)
    <3>1. db'.tour[u] = db.tour[u] /\ u \in DOMAIN db'.tour
      BY <1>3, <2>1, <2>2 DEF OpenTo, Closes
    <3> QED
      BY <2>2, <3>1 DEF OpenTo
  <2> QED
    BY <1>2, <1>4, <2>2 DEF Submits
<1>5. ASSUME Submits(db, tx), tx.step = "insert" PROVE Submits(db', tx)
  BY <1>5 DEF Submits
<1>6. ASSUME Rotates(db, tx) PROVE Rotates(db', tx)
  <2>1. PICK mine \in tx.tours : /\ tx.tours = {mine} /\ mine = <<mine[1], tx.at>>
                                 /\ Holds(tx, Exclusive(TourType(mine[1])))
    BY <1>6 DEF Rotates
  <2>2. ASSUME NEW u, Finalizes(db, tx, u)
        PROVE  Finalizes(db', tx, u) /\ db'.tour[u] = db.tour[u]
    <3>1. u \in DOMAIN db.tour /\ u[1] = mine[1] /\ Exclusive(TourType(u[1])) \in tx.hold
      BY <2>1, <2>2 DEF Finalizes, Holds
    <3>2. db'.tour[u] = db.tour[u] /\ u \in DOMAIN db'.tour
      BY <1>3, <3>1 DEF Closes
    <3> QED
      BY <2>2, <3>2 DEF Finalizes
  <2>3. \A u \in DOMAIN tx.put.tour :
            /\ Finalizes(db', tx, u) /\ Holds(tx, LevelLock(db', u))
            /\ tx.put.tour[u] = [db'.tour[u] EXCEPT !.final = TRUE]
    BY <1>6, <2>2 DEF Rotates, LevelLock
  <2>4. tx.step = "finalize" => Finalizes(db', tx, tx.id) /\ Awaits(tx, LevelLock(db', tx.id))
    BY <1>6, <2>2 DEF Rotates, LevelLock
  <2>5. tx.step = "create" => tx.tours \cap DOMAIN db'.tour = {}
    <3>1. mine[1] # own[1]
      BY <1>1, <2>1, SharedAlone DEF Holds, Closes
    <3> QED
      BY <1>6, <2>1, <3>1 DEF Rotates, Closes
  <2>6. \A k \in DOMAIN tx.put.result :
            /\ k[1] \in DOMAIN db'.tour /\ ~db'.tour[k[1]].final /\ Holds(tx, LevelLock(db', k[1]))
            /\ k \in DOMAIN db'.result /\ tx.put.result[k] = db'.result[k]
    <3>1. ASSUME NEW k \in DOMAIN tx.put.result
          PROVE  /\ k[1] \in DOMAIN db.tour /\ k[1] \in DOMAIN db'.tour
                 /\ db'.tour[k[1]] = db.tour[k[1]]
      BY <1>3, <1>6 DEF Rotates, Holds, Closes
    <3> QED
      BY <1>2, <1>6, <3>1 DEF Rotates, LevelLock
  <2> QED
    BY <2>1, <2>3, <2>4, <2>5, <2>6 DEF Rotates
<1> QED
  BY <1>1, <1>2, <1>4, <1>5, <1>6 DEF TourTx

-----------------------------------------------------------------------------
(* Each step keeps it.                                                     *)

\* A commit of anything but a rotation.
LEMMA CommitTours ==
    ASSUME RecordInv, TourInv, NEW s \in Session, NEW put, Finish(s, put),
           ~Rotating(txs[s]), put.record = txs[s].put.record, put.result = txs[s].put.result,
           put.tour = <<>>
    PROVE  TourInv' /\ FinalKept
<1>1. PICK tx : tx = txs[s]
  OBVIOUS
<1>2. Shaped /\ TourTx(db, tx) /\ IsTable(db.tour)
  BY <1>1 DEF RecordInv, Shaped, TourInv, Tables
<1>3. PICK result : result = put.result
  OBVIOUS
<1>4. /\ db'.record = Over(tx.put.record, db.record) /\ db'.result = Over(result, db.result)
      /\ db'.tour = Over(<<>>, db.tour) /\ txs' = [txs EXCEPT ![s] = NoTx]
  BY <1>1, <1>2, <1>3, FinishIs DEF Tables
<1>5. db'.tour = db.tour
  BY <1>2, <1>4, OverNothing
<1>6. db'.record = Seen(db, tx)
  BY <1>4 DEF Seen
<1>7. \A r \in DOMAIN db.record : r \in DOMAIN db'.record /\ db'.record[r] = db.record[r]
  <2>1. \A r \in DOMAIN db.record : r \in DOMAIN db'.record
    BY <1>4 DEF Over
  <2> QED
    BY <1>1, <1>4, <2>1, RecordsRemain
<1>8. Puts(s, result)
  <2>1. CASE DOMAIN result = {}
    BY <1>4, <1>5, <1>7, <2>1 DEF Puts
  <2>2. CASE DOMAIN result # {}
    <3>1. Submits(db, tx) /\ tx.step # "insert" /\ result = tx.put.result
      BY <1>1, <1>2, <1>3, <2>2 DEF TourTx, Submits
    <3>2. ASSUME NEW k \in DOMAIN result
          PROVE  /\ k[1] \in DOMAIN db.tour /\ ~db.tour[k[1]].final
                 /\ Standing(db'.record, result, k, db.tour[k[1]].level)
                 /\ \A j \in DOMAIN db.result : j[1] = k[1] => j \in DOMAIN result
                 /\ Exclusive(TourResults(k[1])) \in txs[s].hold
                 /\ Shared(OfLevel(db.tour[k[1]].level)) \in txs[s].hold
      BY <1>1, <1>6, <3>1 DEF Submits, OpenTo, Holds
    <3> QED
      BY <1>4, <1>5, <1>7, <3>2 DEF Puts
  <2> QED
    BY <2>1, <2>2
<1>9. Tours(db') /\ FinalKept
  BY <1>8, PutsStand
<1>10. \A t \in Session \ {s} : TourTx(db', txs[t])
  BY <1>8, PutsLeaveOthers
<1> QED
  BY <1>4, <1>9, <1>10, NoTxTours

\* A commit of a rotation.
LEMMA RotationCommits ==
    ASSUME RecordInv, TourInv, NEW s \in Session, NEW put, Finish(s, put),
           put.record = <<>>, put.result = txs[s].put.result, NEW own, Closes(s, own),
           Rotates(db, txs[s])
    PROVE  TourInv' /\ FinalKept
<1>1. Tours(db') /\ FinalKept
  BY ClosesStand
<1>2. \A t \in Session \ {s} : TourTx(db', txs[t])
  BY ClosesLeavesOthers
<1>3. txs' = [txs EXCEPT ![s] = NoTx]
  BY DEF Finish
<1> QED
  BY <1>1, <1>2, <1>3, NoTxTours

\* What the first statement makes of a transaction.
LEMMA BeginIs ==
    ASSUME RecordInv, NEW s \in Session, NEW lock, NEW tx, Begin(s, lock, tx),
           DOMAIN tx \subseteq Fields \ {"hold", "put"}
    PROVE  \E new : /\ txs' = [txs EXCEPT ![s] = new] /\ db' = db
                    /\ new.hold = {lock} /\ new.put = txs[s].put
                    /\ \A x \in DOMAIN tx : new[x] = tx[x]
                    /\ \A x \in Fields \ (DOMAIN tx \cup {"hold"}) : new[x] = txs[s][x]
<1>1. DOMAIN txs[s] = Fields
  BY DEF RecordInv, Shaped
<1>2. PICK new : new = [x \in Fields |-> IF x = "hold" THEN {lock}
                                         ELSE IF x \in DOMAIN tx THEN tx[x] ELSE txs[s][x]]
  OBVIOUS
<1>3. txs' = [txs EXCEPT ![s] = new] /\ db' = db
  BY <1>1, <1>2 DEF Begin
<1>4. /\ new.hold = {lock} /\ new.put = txs[s].put
      /\ \A x \in DOMAIN tx : new[x] = tx[x]
      /\ \A x \in Fields \ (DOMAIN tx \cup {"hold"}) : new[x] = txs[s][x]
  BY <1>2 DEF Fields
<1> QED
  BY <1>3, <1>4

\* A transaction starts.
LEMMA StartTours ==
    ASSUME RecordInv, TourInv, NEW s \in Session,
           \/ \E u \in User, l \in Level, time \in Time : Submit(s, u, l, time)
           \/ \E u \in User : Persist(s, u) \/ Reset(s, u)
           \/ Rank(s)
           \/ \E type \in Type : Rotate(s, type)
    PROVE  TourInv' /\ FinalKept
<1>1. txs[s].kind = "none"
  BY DEF Submit, Persist, Reset, Rank, Rotate, Begin
<1>2. txs[s].put.tour = <<>> /\ txs[s].put.result = <<>>
  BY <1>1 DEF RecordInv, TxInv, TourInv, TourTx, Submitting, Rotating
<1>3. DOMAIN <<>> = {}
  OBVIOUS
<1>4. CASE \E u \in User, l \in Level, time \in Time : Submit(s, u, l, time)
  <2>1. PICK u \in User, l \in Level, time \in Time : Submit(s, u, l, time)
    BY <1>4
  <2>2. PICK tx : tx = [kind |-> "submit", user |-> u, level |-> l, time |-> time, at |-> now,
                        step |-> "insert", want |-> <<Shared(OfLevel(l))>>]
    OBVIOUS
  <2>3. Begin(s, Exclusive(UserLevel(u, l)), tx)
    BY <2>1, <2>2 DEF Submit
  <2>4. /\ DOMAIN tx = {"kind", "user", "level", "time", "at", "step", "want"}
        /\ tx["step"] = "insert" /\ tx["level"] = l /\ tx["want"] = <<Shared(OfLevel(l))>>
    BY <2>2
  <2>5. PICK new : /\ txs' = [txs EXCEPT ![s] = new] /\ db' = db
                   /\ new.put = txs[s].put /\ \A x \in DOMAIN tx : new[x] = tx[x]
    BY <2>3, <2>4, BeginIs DEF Fields
  <2>6. new.step = "insert" /\ new.level = l /\ new.want = <<Shared(OfLevel(l))>>
    BY <2>4, <2>5
  <2>7. TourTx(db, new)
    BY <1>2, <1>3, <2>5, <2>6 DEF TourTx, Submitting, Rotating, Submits, Awaits
  <2> QED
    BY <2>5, <2>7, OneTxTours
<1>5. CASE \E type \in Type : Rotate(s, type)
  <2>1. PICK type \in Type : Rotate(s, type)
    BY <1>5
  <2>2. PICK tx : tx = [kind |-> "rotate", at |-> now, tours |-> {<<type, now>>},
                        step |-> "unfinished"]
    OBVIOUS
  <2>3. Begin(s, Exclusive(TourType(type)), tx)
    BY <2>1, <2>2 DEF Rotate
  <2>4. /\ DOMAIN tx = {"kind", "at", "tours", "step"}
        /\ tx["step"] = "unfinished" /\ tx["tours"] = {<<type, now>>} /\ tx["at"] = now
    BY <2>2
  <2>5. PICK new : /\ txs' = [txs EXCEPT ![s] = new] /\ db' = db
                   /\ new.hold = {Exclusive(TourType(type))}
                   /\ new.put = txs[s].put /\ \A x \in DOMAIN tx : new[x] = tx[x]
    BY <2>3, <2>4, BeginIs DEF Fields
  <2>6. /\ new.step = "unfinished" /\ new.tours = {<<type, now>>} /\ new.at = now
        /\ new.put.tour = <<>> /\ new.put.result = <<>>
    BY <1>2, <2>4, <2>5
  <2>7. Rotates(db, new)
    <3>1. PICK own : own = <<type, now>>
      OBVIOUS
    <3>2. own \in new.tours /\ new.tours = {own} /\ own = <<own[1], new.at>> /\ own[1] = type
      BY <2>6, <3>1
    <3> QED
      BY <1>3, <2>5, <2>6, <3>2 DEF Rotates, Holds
  <2>8. TourTx(db, new)
    BY <2>6, <2>7 DEF TourTx, Submitting, Rotating
  <2> QED
    BY <2>5, <2>8, OneTxTours
<1>6. CASE Rank(s) \/ \E u \in User : Persist(s, u) \/ Reset(s, u)
  <2>1. PICK lock, tx : /\ Begin(s, lock, tx) /\ DOMAIN tx \subseteq Fields \ {"hold", "put"}
                        /\ "step" \in DOMAIN tx /\ tx["step"] \in {"rank", "compare", "check"}
    <3>1. CASE Rank(s)
      <4>1. PICK lock, want : Begin(s, lock, [kind |-> "rank", step |-> "rank", want |-> want])
        BY <3>1 DEF Rank
      <4>2. PICK tx : tx = [kind |-> "rank", step |-> "rank", want |-> want]
        OBVIOUS
      <4>3. DOMAIN tx = {"kind", "step", "want"} /\ tx["step"] = "rank"
        BY <4>2
      <4> QED
        BY <4>1, <4>2, <4>3 DEF Fields
    <3>2. CASE \E u \in User : Persist(s, u)
      <4>1. PICK u \in User : Persist(s, u)
        BY <3>2
      <4>2. PICK tx : tx = [kind |-> "persist", user |-> u, step |-> "compare"]
        OBVIOUS
      <4>3. DOMAIN tx = {"kind", "user", "step"} /\ tx["step"] = "compare"
        BY <4>2
      <4> QED
        BY <4>1, <4>2, <4>3 DEF Persist, Fields
    <3>3. CASE \E u \in User : Reset(s, u)
      <4>1. PICK u \in User : Reset(s, u)
        BY <3>3
      <4>2. PICK tx : tx = [kind |-> "reset", user |-> u, step |-> "check"]
        OBVIOUS
      <4>3. DOMAIN tx = {"kind", "user", "step"} /\ tx["step"] = "check"
        BY <4>2
      <4> QED
        BY <4>1, <4>2, <4>3 DEF Reset, Fields
    <3> QED
      BY <1>6, <3>1, <3>2, <3>3
  <2>2. PICK new : /\ txs' = [txs EXCEPT ![s] = new] /\ db' = db
                   /\ new.put = txs[s].put /\ \A x \in DOMAIN tx : new[x] = tx[x]
    BY <2>1, BeginIs
  <2>3. new.step \in {"rank", "compare", "check"}
    BY <2>1, <2>2
  <2>4. TourTx(db, new)
    BY <1>2, <2>2, <2>3 DEF TourTx, Submitting, Rotating
  <2> QED
    BY <2>2, <2>4, OneTxTours
<1> QED
  BY <1>4, <1>5, <1>6

\* A transaction that ends without a commit takes what it put with it.
LEMMA AbortTours ==
    ASSUME RecordInv, TourInv, NEW s \in Session, TxAbort(s)
    PROVE  TourInv' /\ FinalKept
<1>1. Tours(db') /\ (\A t \in Session \ {s} : TourTx(db', txs[t])) /\ db' = db
  BY DEF TxAbort, TourInv
<1>2. TourInv'
  BY <1>1, NoTxTours DEF TxAbort
<1> QED
  BY <1>1, <1>2 DEF FinalKept

\* A lock that is granted is held from then on, and was awaited before.
LEMMA TakeLockTours ==
    ASSUME RecordInv, TourInv, NEW s \in Session, TakeLock(s)
    PROVE  TourInv' /\ FinalKept
<1>1. PICK old : old = txs[s]
  OBVIOUS
<1>2. PICK tx : tx = [old EXCEPT !.hold = @ \cup {Head(old.want)}, !.want = Tail(old.want)]
  OBVIOUS
<1>3. DOMAIN old = Fields /\ DOMAIN txs = Session /\ TourTx(db, old) /\ old.want # <<>>
  BY <1>1 DEF RecordInv, Shaped, TourInv, TakeLock
<1>4. /\ tx.step = old.step /\ tx.level = old.level /\ tx.at = old.at /\ tx.id = old.id
      /\ tx.tours = old.tours /\ tx.put = old.put
      /\ tx.hold = old.hold \cup {Head(old.want)} /\ tx.want = Tail(old.want)
  BY <1>2, <1>3 DEF Fields
<1>5. txs' = [txs EXCEPT ![s] = tx] /\ db' = db
  BY <1>1, <1>2, <1>3, <1>4 DEF TakeLock, Fields
<1>6. \A lock : (Holds(old, lock) => Holds(tx, lock)) /\ (Awaits(old, lock) => Holds(tx, lock))
  <2>1. \A lock : old.want = <<lock>> => Head(old.want) = lock
    OBVIOUS
  <2> QED
    BY <1>4, <2>1 DEF Holds, Awaits
<1>7. \A lock : Holds(tx, lock) => Awaits(tx, lock)
  BY DEF Holds, Awaits
<1>8. ASSUME Submits(db, old) PROVE Submits(db, tx)
  <2>1. ASSUME tx.step = "results"
        PROVE  /\ tx.want \in Seq({Exclusive(TourResults(t)) : t \in tx.tours})
               /\ \A t \in tx.tours : \/ Holds(tx, Exclusive(TourResults(t)))
                                      \/ \E i \in DOMAIN tx.want :
                                             tx.want[i] = Exclusive(TourResults(t))
    <3>1. PICK locks : locks = {Exclusive(TourResults(t)) : t \in tx.tours}
      OBVIOUS
    <3>2. old.want \in Seq(locks)
      BY <1>4, <1>8, <2>1, <3>1 DEF Submits
    <3>3. /\ tx.want \in Seq(locks)
          /\ \A i \in DOMAIN old.want :
                 old.want[i] = Head(old.want) \/ \E j \in DOMAIN tx.want : tx.want[j] = old.want[i]
      <4>1. tx.want \in Seq(locks) /\ DOMAIN old.want = 1..Len(old.want) /\ Len(old.want) \in Nat
        BY <1>3, <1>4, <3>2
      <4>2. DOMAIN tx.want = 1..(Len(old.want) - 1)
        BY <1>3, <1>4, <3>2, <4>1
      <4>3. \A j \in DOMAIN tx.want : tx.want[j] = old.want[j + 1]
        BY <1>3, <1>4, <3>2, <4>1, <4>2
      <4>4. Head(old.want) = old.want[1]
        BY <1>3, <3>2
      <4>5. ASSUME NEW i \in DOMAIN old.want, i # 1
            PROVE  i - 1 \in DOMAIN tx.want /\ tx.want[i - 1] = old.want[i]
        BY <4>1, <4>2, <4>3, <4>5
      <4> QED
        BY <4>1, <4>4, <4>5
    <3>4. \A t \in tx.tours : \/ Holds(old, Exclusive(TourResults(t)))
                              \/ \E i \in DOMAIN old.want : old.want[i] = Exclusive(TourResults(t))
      BY <1>4, <1>8, <2>1 DEF Submits
    <3>5. Holds(tx, Head(old.want))
      BY <1>4 DEF Holds
    <3> QED
      BY <1>6, <3>1, <3>3, <3>4, <3>5
  <2>2. \A t : OpenTo(db, tx, t) <=> OpenTo(db, old, t)
    BY <1>4 DEF OpenTo
  <2>3. Seen(db, tx) = Seen(db, old)
    BY <1>4 DEF Seen
  <2> QED
    BY <1>4, <1>6, <1>7, <1>8, <2>1, <2>2, <2>3 DEF Submits
<1>9. ASSUME Rotates(db, old) PROVE Rotates(db, tx)
  <2>1. \A t : Finalizes(db, tx, t) <=> Finalizes(db, old, t)
    BY <1>4 DEF Finalizes
  <2> QED
    BY <1>4, <1>6, <1>7, <1>9, <2>1 DEF Rotates
<1>10. TourTx(db, tx)
  BY <1>3, <1>4, <1>8, <1>9 DEF TourTx, Submitting, Rotating
<1> QED
  BY <1>5, <1>10, OneTxTours

\* An order of tournaments names each of them.
LEMMA OrderCovers ==
    ASSUME NEW S, IsFiniteSet(S), NEW open \in InOrder(S)
    PROVE  /\ open \in Seq(S)
           /\ \A t \in S : \E i \in DOMAIN open : open[i] = t
<1>1. PICK n : n = Cardinality(S)
  OBVIOUS
<1>2. n \in Nat
  BY <1>1, FS_CardinalityType
<1>3. open \in [1..n -> S] /\ \A i, j \in 1..n : i # j => open[i] # open[j]
  BY <1>1 DEF InOrder, SetToSeqs
<1>4. open \in Injection(1..n, S)
  BY <1>3 DEF Injection, IsInjective
<1>5. IsFiniteSet(1..n) /\ Cardinality(1..n) = n
  BY <1>2, FS_Interval
<1>6. open \in Surjection(1..n, S)
  BY <1>1, <1>4, <1>5, FS_Injection
<1> QED
  BY <1>2, <1>3, <1>6 DEF Surjection

\* The first statement of a submission finds the tournaments that take its result.
LEMMA InsertTours ==
    ASSUME RecordInv, TourInv, NEW s \in Session, InsertRecord(s)
    PROVE  TourInv' /\ FinalKept
<1>1. PICK old : old = txs[s]
  OBVIOUS
<1>2. /\ Shaped /\ DOMAIN old.put = Tables /\ TourTx(db, old) /\ old.step = "insert"
      /\ old.want = <<>> /\ db' = db
  BY <1>1 DEF RecordInv, Shaped, TourInv, InsertRecord, At
<1>3. /\ old.put.tour = <<>> /\ old.put.result = <<>>
      /\ Holds(old, Shared(OfLevel(old.level)))
  <2>1. <<>> # <<Shared(OfLevel(old.level))>>
    OBVIOUS
  <2> QED
    BY <1>2, <2>1 DEF TourTx, Submitting, Submits, Awaits, Holds
<1>4. PICK tx, first : \E open \in InOrder(Improvable(s)) : Inserting(s, old, tx, first, open)
  BY <1>1, InsertIs
<1>5. PICK open \in InOrder(Improvable(s)) : Inserting(s, old, tx, first, open)
  BY <1>4
<1>6. /\ txs' = [txs EXCEPT ![s] = tx] /\ tx.level = old.level /\ tx.at = old.at
      /\ tx.hold = old.hold /\ tx.tours = Improvable(s) /\ tx.step \in {"results", "recheck"}
      /\ tx.step = "results" => tx.want = ResultLocks(open)
      /\ first = Put(s, "record", Row(lastId', RecordOf(old)))
      /\ tx.put = first \/ tx.put = [first EXCEPT !.best = Row(Key(old), lastId')]
  BY <1>5 DEF Inserting
<1>7. tx.put.tour = <<>> /\ tx.put.result = <<>>
  <2>1. DOMAIN first = Tables /\ first.tour = <<>> /\ first.result = <<>>
    BY <1>1, <1>2, <1>3, <1>6 DEF Put, Tables
  <2> QED
    BY <1>6, <2>1 DEF Tables
<1>8. \A t \in tx.tours : OpenTo(db, tx, t)
  <2>1. PICK view : view = View(s)
    OBVIOUS
  <2>2. view.tour = db.tour
    <3>1. view.tour = Over(<<>>, db.tour) /\ IsTable(db.tour)
      BY <1>1, <1>2, <1>3, <2>1 DEF View, Shaped, Tables
    <3> QED
      BY <3>1, OverNothing
  <2> QED
    BY <1>1, <1>6, <2>1, <2>2 DEF Improvable, OpenTo
<1>9. /\ open \in Seq(tx.tours)
      /\ \A t \in tx.tours : \E i \in DOMAIN open : open[i] = t
  <2>1. IsFiniteSet(tx.tours)
    <3>1. tx.tours \in SUBSET DOMAIN db.tour
      BY <1>8 DEF OpenTo
    <3> QED
      BY <3>1, FS_Subset DEF TourInv, Tours
  <2> QED
    BY <1>5, <1>6, <2>1, OrderCovers
<1>10. ASSUME tx.step = "results"
       PROVE  /\ tx.want \in Seq({Exclusive(TourResults(t)) : t \in tx.tours})
              /\ \A t \in tx.tours : \E i \in DOMAIN tx.want : tx.want[i] = Exclusive(TourResults(t))
  <2>1. PICK locks : locks = {Exclusive(TourResults(t)) : t \in tx.tours}
    OBVIOUS
  <2>2. tx.want = [i \in DOMAIN open |-> Exclusive(TourResults(open[i]))]
    BY <1>6, <1>10 DEF ResultLocks
  <2>3. DOMAIN open = 1..Len(open) /\ Len(open) \in Nat /\ \A i \in DOMAIN open : open[i] \in tx.tours
    BY <1>9
  <2>4. tx.want \in Seq(locks)
    <3>1. tx.want \in [1..Len(open) -> locks]
      BY <2>1, <2>2, <2>3
    <3> QED
      BY <2>3, <3>1
  <2> QED
    BY <1>9, <2>1, <2>2, <2>4
<1>11. Submits(db, tx)
  <2>1. DOMAIN <<>> = {}
    OBVIOUS
  <2> QED
    BY <1>3, <1>6, <1>7, <1>8, <1>10, <2>1 DEF Submits, Holds
<1>12. TourTx(db, tx)
  BY <1>6, <1>11 DEF TourTx, Submitting, Rotating
<1> QED
  BY <1>2, <1>6, <1>12, OneTxTours

\* Under the locks of the tournaments the result is put, and ranked among all the
\* others.
LEMMA PutResultsTours ==
    ASSUME RecordInv, TourInv, NEW s \in Session, PutResults(s)
    PROVE  TourInv' /\ FinalKept
<1>1. PICK old : old = txs[s]
  OBVIOUS
<1>2. /\ Shaped /\ DOMAIN old = Fields /\ DOMAIN old.put = Tables /\ DOMAIN txs = Session
      /\ TxInv(old) /\ TourTx(db, old) /\ old.step = "results" /\ old.want = <<>> /\ db' = db
  BY <1>1 DEF RecordInv, Shaped, TourInv, PutResults, At
<1>3. Submits(db, old) /\ old.put.tour = <<>> /\ old.put.result = <<>>
  BY <1>2 DEF TourTx, Submitting, Submits
<1>4. \A t \in old.tours : OpenTo(db, old, t) /\ Holds(old, Exclusive(TourResults(t)))
  BY <1>2, <1>3 DEF Submits
<1>5. PICK changed : changed = {t \in old.tours : Improves(s, t)}
  OBVIOUS
<1>6. PICK rows : rows = [k \in changed \X {old.user} |-> [id |-> old.id, rank |-> 1]]
  OBVIOUS
<1>7. PICK view : view = View(s)
  OBVIOUS
<1>8. /\ DOMAIN view = Tables /\ view.record = Seen(db, old) /\ view.result = db.result
  <2>1. /\ DOMAIN view = Tables /\ view.record = Over(old.put.record, db.record)
        /\ view.result = Over(<<>>, db.result) /\ IsTable(db.result)
    BY <1>1, <1>2, <1>3, <1>7 DEF View, Shaped, Tables
  <2> QED
    BY <2>1, OverNothing DEF Seen
<1>9. PICK next : next = [view EXCEPT !.result = Over(rows, view.result)]
  OBVIOUS
<1>10. next.record = Seen(db, old) /\ next.result = Over(rows, db.result)
  BY <1>8, <1>9 DEF Tables
<1>11. PICK ranked : ranked = [k \in {j \in DOMAIN next.result : j[1] \in changed} |->
                                  Reranked(next, k[1])[k]]
  OBVIOUS
<1>12. PICK put : put = Put(s, "result", ranked)
  OBVIOUS
<1>13. txs' = [txs EXCEPT ![s].put = put, ![s].step = "recheck",
                          ![s].want = ToWorldRecord(old.faster, old.level)]
  <2>1. next = [View(s) EXCEPT !.result = Over(rows, @)]
    BY <1>7, <1>9
  <2> QED
    BY <1>1, <1>5, <1>6, <1>11, <1>12, <2>1 DEF PutResults
<1>14. PICK tx : tx = [old EXCEPT !.put = put, !.step = "recheck",
                                  !.want = ToWorldRecord(old.faster, old.level)]
  OBVIOUS
<1>15. txs' = [txs EXCEPT ![s] = tx]
  BY <1>1, <1>2, <1>13, <1>14 DEF Fields
<1>16. /\ tx.step = "recheck" /\ tx.user = old.user /\ tx.level = old.level /\ tx.at = old.at
       /\ tx.id = old.id /\ tx.put = put /\ tx.hold = old.hold
  BY <1>2, <1>14 DEF Fields
<1>17. put.tour = <<>> /\ put.record = old.put.record /\ put.result = ranked
  <2>1. put.tour = <<>> /\ put.record = old.put.record /\ put.result = Over(ranked, <<>>)
    BY <1>1, <1>2, <1>3, <1>12 DEF Put, Tables
  <2>2. Over(ranked, <<>>) = ranked
    <3>1. DOMAIN <<>> = {}
      OBVIOUS
    <3>2. Over(ranked, <<>>) = [k \in DOMAIN ranked |-> ranked[k]]
      BY <3>1 DEF Over
    <3> QED
      BY <1>11, <3>2
  <2> QED
    BY <2>1, <2>2
<1>18. PICK record : record = Seen(db, old)
  OBVIOUS
<1>19. Seen(db, tx) = record
  BY <1>16, <1>17, <1>18 DEF Seen
<1>20. /\ DOMAIN next.result = (changed \X {old.user}) \cup DOMAIN db.result
       /\ \A k \in changed \X {old.user} : next.result[k] = [id |-> old.id, rank |-> 1]
       /\ \A k \in DOMAIN db.result \ (changed \X {old.user}) : next.result[k] = db.result[k]
  BY <1>6, <1>10 DEF Over
<1>21. record[old.id] = RecordOf(old) /\ old.id \in DOMAIN record
  BY <1>2, <1>18 DEF TxInv, Writes, Inserted, Seen, Over, Row
<1>22. \A r \in DOMAIN db.record : r \in DOMAIN record /\ record[r] = db.record[r]
  <2>1. \A r \in DOMAIN db.record : r \in DOMAIN record
    BY <1>18 DEF Seen, Over
  <2> QED
    BY <1>1, <1>18, <2>1, RecordsRemain DEF Seen
<1>23. ASSUME NEW k \in DOMAIN ranked
       PROVE  /\ OpenTo(db, old, k[1]) /\ Holds(old, Exclusive(TourResults(k[1])))
              /\ \A j \in DOMAIN db.result : j[1] = k[1] => j \in DOMAIN ranked
              /\ k \in DOMAIN next.result /\ k[1] \in changed
              /\ ranked[k] = [next.result[k] EXCEPT !.rank = 1 + Cardinality(FasterThan(next, k))]
  <2>1. k \in DOMAIN next.result /\ k[1] \in changed
    BY <1>11
  <2>2. ranked[k] = Reranked(next, k[1])[k]
    BY <1>11
  <2>3. Reranked(next, k[1])[k]
          = [next.result[k] EXCEPT !.rank = 1 + Cardinality(FasterThan(next, k))]
    BY <2>1, RerankedIs
  <2> QED
    BY <1>4, <1>5, <1>11, <1>20, <2>1, <2>2, <2>3
<1>24. ASSUME NEW k \in DOMAIN ranked
       PROVE  /\ k = <<k[1], k[2]>>
              /\ ranked[k].id = next.result[k].id /\ ranked[k].id \in DOMAIN record
              /\ record[ranked[k].id].user = k[2] /\ record[ranked[k].id].at = k[1][2]
              /\ record[ranked[k].id].level = old.level
              /\ "id" \in DOMAIN ranked[k]
  <2>1. CASE k \in changed \X {old.user}
    <3>1. next.result[k] = [id |-> old.id, rank |-> 1]
      BY <1>20, <2>1
    <3>2. ranked[k].id = old.id /\ "id" \in DOMAIN ranked[k]
      BY <1>23, <3>1
    <3>3. k = <<k[1], k[2]>> /\ k[2] = old.user /\ k[1][2] = old.at
      BY <1>23, <2>1 DEF OpenTo
    <3> QED
      BY <1>21, <3>1, <3>2, <3>3 DEF RecordOf
  <2>2. CASE k \notin changed \X {old.user}
    <3>1. k \in DOMAIN db.result /\ next.result[k] = db.result[k]
      BY <1>20, <1>23, <2>2
    <3>2. Standing(db.record, db.result, k, old.level)
      BY <1>23, <3>1 DEF TourInv, Tours, OpenTo
    <3>3. ranked[k].id = db.result[k].id /\ "id" \in DOMAIN ranked[k]
      BY <1>23, <3>1, <3>2 DEF Standing
    <3> QED
      BY <1>22, <3>1, <3>2, <3>3 DEF Standing
  <2> QED
    BY <2>1, <2>2
<1>25. ASSUME NEW k \in DOMAIN ranked PROVE Standing(record, ranked, k, old.level)
  <2>1. PICK own : own = Rows(record, ranked)
    OBVIOUS
  <2>2. own.record = record /\ own.result = ranked
    BY <2>1 DEF Rows
  <2>3. \A j : j[1] = k[1] => (j \in DOMAIN own.result <=> j \in DOMAIN next.result)
    BY <1>11, <1>23, <2>2
  <2>4. \A j \in DOMAIN own.result : j[1] = k[1] =>
            own.record[own.result[j].id] = next.record[next.result[j].id]
    BY <1>10, <1>18, <1>24, <2>2
  <2>5. FasterThan(own, k) = FasterThan(next, k)
    <3>1. k \in DOMAIN own.result /\ k \in DOMAIN next.result
      BY <1>23, <2>2
    <3> QED
      BY <2>3, <2>4, <3>1, FasterAlike
  <2>6. Reranked(own, k[1])[k] = [ranked[k] EXCEPT !.rank = 1 + Cardinality(FasterThan(own, k))]
    <3>1. k \in DOMAIN own.result /\ own.result[k] = ranked[k]
      BY <2>2
    <3>2. Reranked(own, k[1])[k]
            = [own.result[k] EXCEPT !.rank = 1 + Cardinality(FasterThan(own, k))]
      BY <3>1, RerankedIs
    <3> QED
      BY <3>1, <3>2
  <2>7. PICK rank : rank = 1 + Cardinality(FasterThan(next, k))
    OBVIOUS
  <2>8. PICK row : row = next.result[k]
    OBVIOUS
  <2>9. ranked[k] = [row EXCEPT !.rank = rank]
    BY <1>23, <2>7, <2>8
  <2>10. [[row EXCEPT !.rank = rank] EXCEPT !.rank = rank] = [row EXCEPT !.rank = rank]
    OBVIOUS
  <2>11. ranked[k] = Reranked(own, k[1])[k]
    BY <2>5, <2>6, <2>7, <2>9, <2>10
  <2> QED
    BY <1>24, <2>1, <2>11 DEF Standing
<1>26. Submits(db, tx)
  <2>1. Holds(tx, Shared(OfLevel(tx.level)))
    BY <1>2, <1>3, <1>16 DEF Submits, Holds
  <2>2. \A k \in DOMAIN ranked : OpenTo(db, tx, k[1]) /\ Holds(tx, Exclusive(TourResults(k[1])))
    BY <1>16, <1>23 DEF OpenTo, Holds
  <2> QED
    BY <1>16, <1>17, <1>19, <1>23, <1>25, <2>1, <2>2 DEF Submits
<1>27. TourTx(db, tx)
  BY <1>16, <1>26 DEF TourTx, Submitting, Rotating
<1> QED
  BY <1>2, <1>15, <1>27, OneTxTours

\* A transaction other than a rotation goes on.
LEMMA GoesTours ==
    ASSUME RecordInv, TourInv, NEW s \in Session, NEW step, NEW want, Goes(s, step, want), db' = db,
           \/ txs[s].step = "recheck" /\ step = "world"
           \/ ~Submitting(txs[s]) /\ ~Rotating(txs[s]) /\ step \in {"score", "ranked", "reset"}
    PROVE  TourInv' /\ FinalKept
<1>1. PICK old : old = txs[s]
  OBVIOUS
<1>2. DOMAIN old = Fields /\ DOMAIN txs = Session /\ TourTx(db, old)
  BY <1>1 DEF RecordInv, Shaped, TourInv
<1>3. PICK tx : tx = [old EXCEPT !.step = step, !.want = want]
  OBVIOUS
<1>4. txs' = [txs EXCEPT ![s] = tx]
  BY <1>1, <1>2, <1>3 DEF Goes, Fields
<1>5. /\ tx.step = step /\ tx.level = old.level /\ tx.at = old.at /\ tx.put = old.put
      /\ tx.hold = old.hold
  BY <1>2, <1>3 DEF Fields
<1>6. CASE old.step = "recheck" /\ step = "world"
  <2>1. Submits(db, old) /\ Seen(db, tx) = Seen(db, old)
    BY <1>2, <1>5, <1>6 DEF TourTx, Submitting, Seen
  <2>2. \A t : OpenTo(db, tx, t) <=> OpenTo(db, old, t)
    BY <1>5 DEF OpenTo
  <2>3. Submits(db, tx)
    BY <1>5, <1>6, <2>1, <2>2 DEF Submits, Holds
  <2>4. TourTx(db, tx)
    BY <1>5, <1>6, <2>3 DEF TourTx, Submitting, Rotating
  <2> QED
    BY <1>4, <2>4, OneTxTours
<1>7. CASE ~Submitting(old) /\ ~Rotating(old) /\ step \in {"score", "ranked", "reset"}
  <2>1. TourTx(db, tx)
    BY <1>2, <1>5, <1>7 DEF TourTx, Submitting, Rotating
  <2> QED
    BY <1>4, <2>1, OneTxTours
<1> QED
  BY <1>1, <1>6, <1>7

\* A submission ends, with or without a world record.
LEMMA EndTours ==
    ASSUME RecordInv, TourInv, NEW s \in Session, RecheckWorldRecord(s) \/ PutWorldRecord(s)
    PROVE  TourInv' /\ FinalKept
<1>1. PICK old : old = txs[s]
  OBVIOUS
<1>2. DOMAIN old.put = Tables /\ old.step \in {"recheck", "world"} /\ TourTx(db, old)
  BY <1>1 DEF RecordInv, Shaped, TourInv, RecheckWorldRecord, PutWorldRecord, At
<1>3. old.put.tour = <<>> /\ ~Rotating(old)
  BY <1>2 DEF TourTx, Submits, Submitting, Rotating
<1>4. CASE RecheckWorldRecord(s)
  <2>1. PICK put : put = old.put
    OBVIOUS
  <2>2. CASE Finish(s, put)
    BY <1>1, <1>3, <2>1, <2>2, CommitTours
  <2>3. CASE ~Finish(s, put)
    <3>1. PICK want : Goes(s, "world", want) /\ db' = db
      BY <1>1, <1>4, <2>1, <2>3 DEF RecheckWorldRecord
    <3>2. txs[s].step = "recheck"
      BY <1>4 DEF RecheckWorldRecord, At
    <3> QED
      BY <3>1, <3>2, GoesTours
  <2> QED
    BY <2>2, <2>3
<1>5. CASE PutWorldRecord(s)
  <2>1. PICK wins : Finish(s, [Put(s, "world", Row(old.level, old.id)) EXCEPT !.wins = wins])
    BY <1>1, <1>5 DEF PutWorldRecord
  <2>2. PICK put : put = [Put(s, "world", Row(old.level, old.id)) EXCEPT !.wins = wins]
    OBVIOUS
  <2>3. put.record = old.put.record /\ put.result = old.put.result /\ put.tour = <<>>
    BY <1>1, <1>2, <1>3, <2>2 DEF Put, Tables
  <2> QED
    BY <1>1, <1>3, <2>1, <2>2, <2>3, CommitTours
<1> QED
  BY <1>4, <1>5

\* The scores and ranks of users have nothing to do with tournaments.
LEMMA ScoresTours ==
    ASSUME RecordInv, TourInv, NEW s \in Session,
           \/ CompareSnapshot(s) \/ PutScore(s) \/ UpdateRanks(s) \/ Ranked(s)
           \/ CheckActivity(s) \/ ResetScore(s)
    PROVE  TourInv' /\ FinalKept
<1>1. PICK old : old = txs[s]
  OBVIOUS
<1>2. /\ DOMAIN old.put = Tables /\ TourTx(db, old)
      /\ old.step \in {"compare", "score", "rank", "ranked", "check", "reset"}
  BY <1>1 DEF RecordInv, Shaped, TourInv, CompareSnapshot, PutScore, UpdateRanks, Ranked,
              CheckActivity, ResetScore, At
<1>3. ~Submitting(old) /\ ~Rotating(old) /\ old.put.tour = <<>> /\ old.put.result = <<>>
  BY <1>2 DEF TourTx, Submitting, Rotating
<1>4. CASE Finish(s, old.put)
  BY <1>1, <1>3, <1>4, CommitTours
<1>5. ASSUME NEW step, NEW want, Goes(s, step, want), db' = db,
             step \in {"score", "ranked", "reset"}
      PROVE  TourInv' /\ FinalKept
  BY <1>1, <1>3, <1>5, GoesTours
<1>6. CASE PutScore(s)
  <2>1. PICK wins, score : Finish(s, [Put(s, "wins", wins) EXCEPT !.score = score])
    BY <1>6 DEF PutScore
  <2>2. PICK put : put = [Put(s, "wins", wins) EXCEPT !.score = score]
    OBVIOUS
  <2>3. put.record = old.put.record /\ put.result = old.put.result /\ put.tour = <<>>
    BY <1>1, <1>2, <1>3, <2>2 DEF Put, Tables
  <2> QED
    BY <1>1, <1>3, <2>1, <2>2, <2>3, CommitTours
<1>7. CASE ResetScore(s)
  <2>1. PICK score : Finish(s, Put(s, "score", score))
    BY <1>7 DEF ResetScore
  <2>2. PICK put : put = Put(s, "score", score)
    OBVIOUS
  <2>3. put.record = old.put.record /\ put.result = old.put.result /\ put.tour = <<>>
    BY <1>1, <1>2, <1>3, <2>2 DEF Put, Tables
  <2> QED
    BY <1>1, <1>3, <2>1, <2>2, <2>3, CommitTours
<1>8. CASE UpdateRanks(s)
  <2>1. PICK want : Goes(s, "ranked", want) /\ db' = db
    BY <1>8 DEF UpdateRanks
  <2> QED
    BY <1>5, <2>1
<1>9. CASE ~Finish(s, old.put) /\ (CompareSnapshot(s) \/ Ranked(s) \/ CheckActivity(s))
  <2>1. PICK step, want : Goes(s, step, want) /\ db' = db /\ step \in {"score", "reset"}
    BY <1>1, <1>9 DEF CompareSnapshot, Ranked, CheckActivity
  <2> QED
    BY <1>5, <2>1
<1> QED
  BY <1>4, <1>6, <1>7, <1>8, <1>9

\* What a rotation sees: the tournaments of its own as it will have finalized
\* them, and the results as they are.
LEMMA RotationSees ==
    ASSUME RecordInv, TourInv, NEW s \in Session, NEW tx, tx = txs[s], Rotating(tx),
           NEW view, view = View(s)
    PROVE  /\ Rotates(db, tx) /\ tx.put.record = <<>> /\ tx.put.wins = <<>>
           /\ view.tour = Over(tx.put.tour, db.tour)
           /\ view.record = db.record /\ view.result = db.result
           /\ DOMAIN tx = Fields /\ DOMAIN tx.put = Tables /\ DOMAIN txs = Session
           /\ \E own : /\ tx.tours = {own} /\ own = <<own[1], tx.at>> /\ This(s) = own
                       /\ Exclusive(TourType(own[1])) \in tx.hold
<1>1. Shaped /\ TxInv(tx) /\ TourTx(db, tx) /\ DOMAIN tx = Fields /\ DOMAIN tx.put = Tables
  BY DEF RecordInv, Shaped, TourInv
<1>2. Rotates(db, tx) /\ ~Inserted(tx)
  BY <1>1 DEF TourTx, Rotating, Inserted
<1>3. tx.put.record = <<>> /\ tx.put.wins = <<>>
  BY <1>1, <1>2 DEF TxInv, Writes
<1>4. /\ view.tour = Over(tx.put.tour, db.tour) /\ view.record = Over(<<>>, db.record)
      /\ view.result = Over(tx.put.result, db.result) /\ IsTable(db.record) /\ IsTable(db.result)
  BY <1>1, <1>3 DEF View, Shaped, Tables
<1>5. view.record = db.record
  BY <1>4, OverNothing
<1>6. view.result = db.result
  <2>1. \A k \in DOMAIN tx.put.result : k \in DOMAIN db.result /\ tx.put.result[k] = db.result[k]
    BY <1>2 DEF Rotates
  <2>2. view.result = [k \in DOMAIN db.result |-> db.result[k]]
    BY <1>4, <2>1 DEF Over
  <2> QED
    BY <1>4, <2>2 DEF IsTable
<1>7. PICK own \in tx.tours : /\ tx.tours = {own} /\ own = <<own[1], tx.at>>
                              /\ Holds(tx, Exclusive(TourType(own[1])))
  BY <1>2 DEF Rotates
<1>8. This(s) = own
  BY <1>7 DEF This
<1> QED
  BY <1>1, <1>2, <1>3, <1>4, <1>5, <1>6, <1>7, <1>8 DEF Holds, Shaped

\* A tournament a rotation sees open is open.
LEMMA OpenIsOpen ==
    ASSUME RecordInv, TourInv, NEW s \in Session, NEW tx, tx = txs[s], Rotating(tx),
           NEW view, view = View(s), NEW t \in DOMAIN view.tour, ~view.tour[t].final
    PROVE  t \in DOMAIN db.tour /\ view.tour[t] = db.tour[t]
<1>1. Rotates(db, tx) /\ view.tour = Over(tx.put.tour, db.tour)
  BY RotationSees
<1>2. t \notin DOMAIN tx.put.tour
  <2> SUFFICES ASSUME t \in DOMAIN tx.put.tour PROVE FALSE
    OBVIOUS
  <2>1. view.tour[t] = [db.tour[t] EXCEPT !.final = TRUE] /\ t \in DOMAIN db.tour
    BY <1>1 DEF Rotates, Finalizes, Over
  <2>2. DOMAIN db.tour[t] = {"level", "final"}
    BY <2>1 DEF TourInv, Tours
  <2> QED
    BY <2>1, <2>2
<1> QED
  BY <1>1, <1>2 DEF Over

\* A rotation finds a tournament to finalize.
LEMMA NextTours ==
    ASSUME RecordInv, TourInv, NEW s \in Session, NextUnfinished(s)
    PROVE  TourInv' /\ FinalKept
<1>1. PICK old : old = txs[s]
  OBVIOUS
<1>2. PICK view : view = View(s)
  OBVIOUS
<1>3. Rotating(old)
  BY <1>1 DEF NextUnfinished, At, Rotating
<1>4. /\ Rotates(db, old) /\ DOMAIN old = Fields /\ DOMAIN txs = Session
      /\ \E own : old.tours = {own} /\ This(s) = own
  BY <1>1, <1>2, <1>3, RotationSees
<1>5. PICK t \in OfType(view, s) :
          /\ ~view.tour[t].final /\ db' = db
          /\ txs' = [txs EXCEPT ![s].step = "finalize", ![s].id = t,
                                ![s].want = <<Exclusive(OfLevel(view.tour[t].level))>>]
  BY <1>2 DEF NextUnfinished
<1>6. t \in DOMAIN view.tour /\ t[1] = This(s)[1]
  BY <1>5 DEF OfType
<1>7. t \in DOMAIN db.tour /\ view.tour[t] = db.tour[t]
  BY <1>1, <1>2, <1>3, <1>5, <1>6, OpenIsOpen
<1>8. PICK want : want = <<Exclusive(OfLevel(view.tour[t].level))>>
  OBVIOUS
<1>9. PICK tx : tx = [old EXCEPT !.step = "finalize", !.id = t, !.want = want]
  OBVIOUS
<1>10. txs' = [txs EXCEPT ![s] = tx]
  BY <1>1, <1>4, <1>5, <1>8, <1>9 DEF Fields
<1>11. /\ tx.step = "finalize" /\ tx.id = t /\ tx.want = want /\ tx.put = old.put
       /\ tx.hold = old.hold /\ tx.tours = old.tours /\ tx.at = old.at
  BY <1>4, <1>9 DEF Fields
<1>12. Finalizes(db, tx, t) /\ Awaits(tx, LevelLock(db, t))
  BY <1>4, <1>5, <1>6, <1>7, <1>8, <1>11 DEF Finalizes, Awaits, LevelLock
<1>13. \A u : Finalizes(db, old, u) <=> Finalizes(db, tx, u)
  BY <1>11 DEF Finalizes
<1>14. Rotates(db, tx)
  BY <1>4, <1>11, <1>12, <1>13 DEF Rotates, Holds
<1>15. TourTx(db, tx)
  BY <1>11, <1>14 DEF TourTx, Submitting, Rotating
<1> QED
  BY <1>5, <1>10, <1>15, OneTxTours

\* It finalizes it: the ranks are what they were, for they were those of the
\* times.
LEMMA FinalizeTours ==
    ASSUME RecordInv, TourInv, NEW s \in Session, FinalizeTournament(s)
    PROVE  TourInv' /\ FinalKept
<1>1. PICK old : old = txs[s]
  OBVIOUS
<1>2. PICK view : view = View(s)
  OBVIOUS
<1>3. Rotating(old) /\ old.step = "finalize" /\ old.want = <<>> /\ db' = db
  BY <1>1 DEF FinalizeTournament, At, Rotating
<1>4. /\ Rotates(db, old) /\ view.tour = Over(old.put.tour, db.tour)
      /\ view.record = db.record /\ view.result = db.result
      /\ DOMAIN old = Fields /\ DOMAIN old.put = Tables /\ DOMAIN txs = Session
  BY <1>1, <1>2, <1>3, RotationSees
<1>5. PICK t : t = old.id
  OBVIOUS
<1>6. Finalizes(db, old, t) /\ LevelLock(db, t) \in old.hold
  <2>1. <<>> # <<LevelLock(db, t)>>
    OBVIOUS
  <2> QED
    BY <1>3, <1>4, <1>5, <2>1 DEF Rotates, Awaits
<1>7. PICK ranked : ranked = Reranked(view, t)
  OBVIOUS
<1>8. DOMAIN ranked = {k \in DOMAIN db.result : k[1] = t}
  BY <1>4, <1>7 DEF Reranked
<1>9. ASSUME NEW k \in DOMAIN ranked PROVE ranked[k] = db.result[k]
  <2>1. PICK other : other = Rows(db.record, db.result)
    OBVIOUS
  <2>2. other.record = db.record /\ other.result = db.result
    BY <2>1 DEF Rows
  <2>3. k \in DOMAIN view.result /\ k \in DOMAIN other.result /\ k[1] = t
    BY <1>4, <1>8, <2>2
  <2>4. FasterThan(view, k) = FasterThan(other, k)
    BY <1>4, <2>2, <2>3 DEF FasterThan, TimeOf
  <2>5. Reranked(view, k[1])[k]
          = [view.result[k] EXCEPT !.rank = 1 + Cardinality(FasterThan(view, k))]
    BY <2>3, RerankedIs
  <2>6. Reranked(other, k[1])[k]
          = [other.result[k] EXCEPT !.rank = 1 + Cardinality(FasterThan(other, k))]
    BY <2>3, RerankedIs
  <2>7. db.result[k] = Reranked(other, k[1])[k]
    BY <1>8, <2>1 DEF TourInv, Tours, Standing
  <2> QED
    BY <1>4, <1>7, <2>2, <2>3, <2>4, <2>5, <2>6, <2>7
<1>10. PICK row : row = Row(t, [view.tour[t] EXCEPT !.final = TRUE])
  OBVIOUS
<1>11. view.tour[t] = db.tour[t] \/ view.tour[t] = [db.tour[t] EXCEPT !.final = TRUE]
  BY <1>4, <1>6 DEF Rotates, Finalizes, Over
<1>12. DOMAIN row = {t} /\ row[t] = [db.tour[t] EXCEPT !.final = TRUE]
  <2>1. PICK tour : tour = db.tour[t]
    OBVIOUS
  <2>2. [[tour EXCEPT !.final = TRUE] EXCEPT !.final = TRUE] = [tour EXCEPT !.final = TRUE]
    OBVIOUS
  <2> QED
    BY <1>10, <1>11, <2>1, <2>2 DEF Row
<1>13. PICK first : first = Put(s, "result", ranked)
  OBVIOUS
<1>14. /\ DOMAIN first = Tables /\ first.result = Over(ranked, old.put.result)
       /\ first.tour = old.put.tour /\ first.record = old.put.record
  BY <1>1, <1>4, <1>13 DEF Put, Tables
<1>15. PICK put : put = [first EXCEPT !.tour = Over(row, first.tour)]
  OBVIOUS
<1>16. put.result = Over(ranked, old.put.result) /\ put.tour = Over(row, old.put.tour)
  BY <1>14, <1>15 DEF Tables
<1>17. txs' = [txs EXCEPT ![s].step = "unfinished", ![s].put = put]
  <2>1. put = [first EXCEPT !.tour = Over(row, @)]
    BY <1>15
  <2> QED
    BY <1>1, <1>2, <1>5, <1>7, <1>10, <1>13, <2>1 DEF FinalizeTournament
<1>18. PICK tx : tx = [old EXCEPT !.step = "unfinished", !.put = put]
  OBVIOUS
<1>19. txs' = [txs EXCEPT ![s] = tx]
  BY <1>1, <1>4, <1>17, <1>18 DEF Fields
<1>20. /\ tx.step = "unfinished" /\ tx.put = put /\ tx.hold = old.hold /\ tx.tours = old.tours
       /\ tx.at = old.at
  BY <1>4, <1>18 DEF Fields
<1>21. ASSUME NEW u \in DOMAIN put.tour
       PROVE  /\ Finalizes(db, tx, u) /\ Holds(tx, LevelLock(db, u))
              /\ put.tour[u] = [db.tour[u] EXCEPT !.final = TRUE]
  <2>1. CASE u = t
    BY <1>6, <1>12, <1>16, <1>20, <2>1 DEF Finalizes, Holds, Over
  <2>2. CASE u # t
    <3>1. u \in DOMAIN old.put.tour /\ put.tour[u] = old.put.tour[u]
      BY <1>12, <1>16, <2>2 DEF Over
    <3> QED
      BY <1>4, <1>20, <3>1 DEF Rotates, Finalizes, Holds
  <2> QED
    BY <2>1, <2>2
<1>22. ASSUME NEW k \in DOMAIN put.result
       PROVE  /\ k[1] \in DOMAIN db.tour /\ ~db.tour[k[1]].final /\ Holds(tx, LevelLock(db, k[1]))
              /\ k \in DOMAIN db.result /\ put.result[k] = db.result[k]
  <2>1. CASE k \in DOMAIN ranked
    BY <1>6, <1>8, <1>9, <1>16, <1>20, <2>1 DEF Finalizes, Holds, Over
  <2>2. CASE k \notin DOMAIN ranked
    <3>1. k \in DOMAIN old.put.result /\ put.result[k] = old.put.result[k]
      BY <1>16, <2>2 DEF Over
    <3> QED
      BY <1>4, <1>20, <3>1 DEF Rotates, Holds
  <2> QED
    BY <2>1, <2>2
<1>23. Rotates(db, tx)
  BY <1>4, <1>20, <1>21, <1>22 DEF Rotates, Holds
<1>24. TourTx(db, tx)
  BY <1>20, <1>23 DEF TourTx, Submitting, Rotating
<1> QED
  BY <1>3, <1>19, <1>24, OneTxTours

\* What finalizing makes of the row of a tournament.
LEMMA FinalIs ==
    ASSUME NEW row, DOMAIN row = {"level", "final"}, IsTable(row),
           NEW next, next = [row EXCEPT !.final = TRUE]
    PROVE  DOMAIN next = {"level", "final"} /\ IsTable(next) /\ next.level = row.level
BY DEF IsTable

\* A rotation commits what it has finalized and perhaps a tournament of its own,
\* if there was none.
LEMMA RotationEnds ==
    ASSUME RecordInv, TourInv, NEW s \in Session, NEW put, Finish(s, put), Rotating(txs[s]),
           put.record = <<>>, put.result = txs[s].put.result,
           \/ put.tour = txs[s].put.tour
           \/ /\ This(s) \notin DOMAIN db.tour
              /\ \E l : put.tour = Over(Row(This(s), [level |-> l, final |-> FALSE]),
                                        txs[s].put.tour)
    PROVE  TourInv' /\ FinalKept
<1>1. PICK tx : tx = txs[s]
  OBVIOUS
<1>2. PICK view : view = View(s)
  OBVIOUS
<1>3. /\ Rotates(db, tx) /\ view.result = db.result
      /\ DOMAIN tx = Fields /\ DOMAIN tx.put = Tables
  BY <1>1, <1>2, RotationSees
<1>4. PICK own : /\ tx.tours = {own} /\ This(s) = own
                 /\ Exclusive(TourType(own[1])) \in tx.hold
  BY <1>1, <1>2, RotationSees
<1>5. Shaped /\ IsTable(db.record)
  BY DEF RecordInv, Shaped, Tables
<1>6. /\ db'.record = Over(put.record, db.record) /\ db'.result = Over(put.result, db.result)
      /\ db'.tour = Over(put.tour, db.tour)
  BY <1>5, FinishIs DEF Tables
<1>7. db'.record = db.record
  BY <1>5, <1>6, OverNothing
<1>8. db'.result = db.result
  <2>1. view.result = Over(tx.put.result, db.result)
    BY <1>1, <1>2, <1>5 DEF View, Shaped, Tables
  <2> QED
    BY <1>1, <1>3, <1>6, <2>1
<1>9. PICK tour, old, new : tour = put.tour /\ old = db.tour /\ new = db'.tour
  OBVIOUS
<1>10. /\ DOMAIN new = DOMAIN tour \cup DOMAIN old
       /\ \A t \in DOMAIN tour : new[t] = tour[t]
       /\ \A t \in DOMAIN old \ DOMAIN tour : new[t] = old[t]
  BY <1>6, <1>9 DEF Over
<1>11. ASSUME NEW t \in DOMAIN tour
       PROVE  \/ t \in DOMAIN tx.put.tour /\ tour[t] = tx.put.tour[t]
              \/ /\ t = own /\ own \notin DOMAIN old
                 /\ \E l : tour[t] = [level |-> l, final |-> FALSE]
  BY <1>1, <1>4, <1>9 DEF Over, Row
<1>12. ASSUME NEW t \in DOMAIN tx.put.tour
       PROVE  /\ t \in DOMAIN old /\ ~old[t].final /\ t[1] = own[1]
              /\ LevelLock(db, t) \in tx.hold /\ tx.put.tour[t] = [old[t] EXCEPT !.final = TRUE]
  BY <1>3, <1>4, <1>9 DEF Rotates, Finalizes, Holds
<1>13. \A t \in DOMAIN old : DOMAIN old[t] = {"level", "final"} /\ IsTable(old[t])
  BY <1>9 DEF TourInv, Tours
<1>14. ASSUME NEW t \in DOMAIN new
       PROVE  DOMAIN new[t] = {"level", "final"} /\ IsTable(new[t])
  <2>1. CASE t \notin DOMAIN tour
    BY <1>10, <1>13, <2>1
  <2>2. CASE t \in DOMAIN tour /\ t \in DOMAIN tx.put.tour /\ tour[t] = tx.put.tour[t]
    <3>1. new[t] = [old[t] EXCEPT !.final = TRUE] /\ t \in DOMAIN old
      BY <1>10, <1>12, <2>2
    <3> QED
      BY <1>13, <3>1, FinalIs
  <2>3. ASSUME NEW l, t \in DOMAIN tour, tour[t] = [level |-> l, final |-> FALSE]
        PROVE  DOMAIN new[t] = {"level", "final"} /\ IsTable(new[t])
    BY <1>10, <2>3 DEF IsTable
  <2> QED
    BY <1>11, <2>1, <2>2, <2>3
<1>15. ASSUME NEW t \in DOMAIN old
       PROVE  /\ new[t].level = old[t].level
              /\ \/ new[t] = old[t]
                 \/ ~old[t].final /\ t[1] = own[1] /\ LevelLock(db, t) \in tx.hold
  <2>1. CASE t \notin DOMAIN tour
    BY <1>10, <2>1
  <2>2. CASE t \in DOMAIN tour
    <3>1. t \in DOMAIN tx.put.tour /\ new[t] = tx.put.tour[t]
      BY <1>10, <1>11, <2>2
    <3>2. new[t] = [old[t] EXCEPT !.final = TRUE]
      BY <1>12, <3>1
    <3> QED
      BY <1>12, <1>13, <3>1, <3>2, FinalIs
  <2> QED
    BY <2>1, <2>2
<1>16. DOMAIN old \subseteq DOMAIN new /\ DOMAIN new \subseteq DOMAIN old \cup {own}
  BY <1>10, <1>11, <1>12
<1>17. IsFiniteSet(DOMAIN new)
  <2>1. IsFiniteSet(DOMAIN old)
    BY <1>9 DEF TourInv, Tours
  <2>2. IsFiniteSet(DOMAIN old \cup {own})
    BY <2>1, FS_AddElement
  <2> QED
    BY <1>16, <2>2, FS_Subset
<1>18. Closes(s, own)
  BY <1>1, <1>4, <1>7, <1>8, <1>9, <1>14, <1>15, <1>16, <1>17 DEF Closes
<1> QED
  BY <1>1, <1>3, <1>18, RotationCommits

\* A rotation that has finalized what there was to finalize chooses a level for
\* its own tournament, unless there is one or no level.
LEMMA SelectTours ==
    ASSUME RecordInv, TourInv, NEW s \in Session, SelectLevel(s)
    PROVE  TourInv' /\ FinalKept
<1>1. PICK old : old = txs[s]
  OBVIOUS
<1>2. PICK view : view = View(s)
  OBVIOUS
<1>3. Rotating(old) /\ old.step = "unfinished"
  BY <1>1 DEF SelectLevel, At, Rotating
<1>4. /\ Rotates(db, old) /\ old.put.record = <<>> /\ view.tour = Over(old.put.tour, db.tour)
      /\ DOMAIN old = Fields /\ DOMAIN txs = Session
      /\ \E own : old.tours = {own} /\ This(s) = own
  BY <1>1, <1>2, <1>3, RotationSees
<1>5. CASE Finish(s, txs[s].put)
  BY <1>1, <1>3, <1>4, <1>5, RotationEnds
<1>6. CASE ~Finish(s, txs[s].put)
  <2>1. PICK l : /\ This(s) \notin OfType(view, s) /\ db' = db
                 /\ txs' = [txs EXCEPT ![s].level = l, ![s].step = "create",
                                       ![s].want = <<Exclusive(OfLevel(l))>>]
    BY <1>2, <1>6 DEF SelectLevel
  <2>2. This(s) \notin DOMAIN db.tour
    BY <1>4, <2>1 DEF OfType, Over
  <2>3. PICK want : want = <<Exclusive(OfLevel(l))>>
    OBVIOUS
  <2>4. PICK tx : tx = [old EXCEPT !.level = l, !.step = "create", !.want = want]
    OBVIOUS
  <2>5. txs' = [txs EXCEPT ![s] = tx]
    BY <1>1, <1>4, <2>1, <2>3, <2>4 DEF Fields
  <2>6. /\ tx.step = "create" /\ tx.put = old.put /\ tx.hold = old.hold /\ tx.tours = old.tours
        /\ tx.at = old.at
    BY <1>4, <2>4 DEF Fields
  <2>7. \A u : Finalizes(db, old, u) <=> Finalizes(db, tx, u)
    BY <2>6 DEF Finalizes
  <2>8. tx.tours \cap DOMAIN db.tour = {}
    BY <1>4, <2>2, <2>6
  <2>9. Rotates(db, tx)
    BY <1>4, <2>6, <2>7, <2>8 DEF Rotates, Holds
  <2>10. TourTx(db, tx)
    BY <2>6, <2>9 DEF TourTx, Submitting, Rotating
  <2> QED
    BY <2>1, <2>5, <2>10, OneTxTours
<1> QED
  BY <1>5, <1>6

\* It brings its tournament.
LEMMA CreateTours ==
    ASSUME RecordInv, TourInv, NEW s \in Session, CreateTournament(s)
    PROVE  TourInv' /\ FinalKept
<1>1. PICK old : old = txs[s]
  OBVIOUS
<1>2. PICK view : view = View(s)
  OBVIOUS
<1>3. Rotating(old) /\ old.step = "create"
  BY <1>1 DEF CreateTournament, At, Rotating
<1>4. /\ Rotates(db, old) /\ old.put.record = <<>> /\ DOMAIN old.put = Tables
      /\ \E own : old.tours = {own} /\ This(s) = own
  BY <1>1, <1>2, <1>3, RotationSees
<1>5. This(s) \notin DOMAIN db.tour
  BY <1>3, <1>4 DEF Rotates
<1>6. PICK put : put = Put(s, "tour", Row(This(s), [level |-> old.level, final |-> FALSE]))
  OBVIOUS
<1>7. Finish(s, put)
  BY <1>1, <1>6 DEF CreateTournament
<1>8. /\ put.record = <<>> /\ put.result = old.put.result
      /\ put.tour = Over(Row(This(s), [level |-> old.level, final |-> FALSE]), old.put.tour)
  BY <1>1, <1>4, <1>6 DEF Put, Tables
<1> QED
  BY <1>1, <1>3, <1>5, <1>7, <1>8, RotationEnds

-----------------------------------------------------------------------------
(* The theorems.                                                           *)

\* Every step.
LEMMA StepTours ==
    ASSUME RecordInv, TourInv, [RecNext]_recVars
    PROVE  TourInv' /\ FinalKept
<1>1. CASE UNCHANGED recVars \/ PeriodEnds
  <2>1. db' = db /\ txs' = txs
    BY <1>1 DEF recVars, PeriodEnds
  <2>2. TourInv'
    BY <2>1 DEF TourInv
  <2>3. FinalKept
    BY <2>1 DEF FinalKept
  <2> QED
    BY <2>2, <2>3
<1>2. CASE RecNext /\ ~PeriodEnds
  BY <1>2, TakeLockTours, AbortTours, StartTours, InsertTours, PutResultsTours, EndTours,
     ScoresTours, NextTours, FinalizeTours, SelectTours, CreateTours DEF RecNext
<1> QED
  BY <1>1, <1>2

\* What submissions and rotations rely on holds in every state.
THEOREM TournamentInvariant == RecSpec => []TourInv
<1>1. RecInit => TourInv
  <2> SUFFICES ASSUME RecInit PROVE TourInv
    OBVIOUS
  <2>1. db.tour = <<>> /\ db.result = <<>> /\ DOMAIN <<>> = {}
    BY DEF RecInit
  <2>2. IsFiniteSet({})
    BY FS_EmptySet
  <2>3. Tours(db)
    BY <2>1, <2>2 DEF Tours
  <2>4. ASSUME NEW s \in Session PROVE TourTx(db, txs[s])
    <3>1. DOMAIN db = Tables /\ txs = [t \in Session |-> NoTx]
      BY DEF RecInit, Tables
    <3>2. txs[s].step = "none" /\ txs[s].put = [table \in Tables |-> <<>>]
      BY <3>1 DEF NoTx
    <3> QED
      BY <3>2 DEF TourTx, Submitting, Rotating, Tables
  <2> QED
    BY <2>3, <2>4 DEF TourInv
<1>2. RecordInv /\ TourInv /\ [RecNext]_recVars => TourInv'
  BY StepTours
<1> QED
  BY <1>1, <1>2, RecordInvariant, PTL DEF RecSpec

\* The ranks of a tournament are those of its times, and its results are of records
\* on its level in its period, for any number of submissions and rotations.
THEOREM ResultsStayRanked == RecSpec => []ResultsRanked
<1>1. TourInv => ResultsRanked
  <2> SUFFICES ASSUME TourInv, NEW k \in DOMAIN db.result
               PROVE  /\ db.result[k] = Reranked(db, k[1])[k]
                      /\ LET r == db.record[db.result[k].id]
                         IN  r.user = k[2] /\ r.at = k[1][2] /\ r.level = db.tour[k[1]].level
    BY DEF ResultsRanked
  <2>1. PICK other : other = Rows(db.record, db.result)
    OBVIOUS
  <2>2. other.record = db.record /\ other.result = db.result
    BY <2>1 DEF Rows
  <2>3. FasterThan(db, k) = FasterThan(other, k)
    BY <2>2 DEF FasterThan, TimeOf
  <2>4. Reranked(db, k[1])[k]
          = [db.result[k] EXCEPT !.rank = 1 + Cardinality(FasterThan(db, k))]
    BY RerankedIs
  <2>5. Reranked(other, k[1])[k]
          = [other.result[k] EXCEPT !.rank = 1 + Cardinality(FasterThan(other, k))]
    BY <2>2, RerankedIs
  <2>6. Standing(db.record, db.result, k, db.tour[k[1]].level)
    BY DEF TourInv, Tours
  <2> QED
    BY <2>1, <2>2, <2>3, <2>4, <2>5, <2>6 DEF Standing
<1> QED
  BY <1>1, TournamentInvariant, PTL

\* A finalized tournament stays as it is, also when a submission that was accepted
\* before its end commits after it.
THEOREM FinalizedStays == RecSpec => FinalStays
<1>1. RecordInv /\ TourInv /\ [RecNext]_recVars => FinalKept
  BY StepTours
<1>2. FinalKept =>
        \A t \in DOMAIN db.tour : db.tour[t].final =>
          /\ db'.tour[t] = db.tour[t]
          /\ \A u \in User : LET k == <<t, u>>
                             IN  /\ (k \in DOMAIN db'.result) = (k \in DOMAIN db.result)
                                 /\ k \in DOMAIN db.result => db'.result[k] = db.result[k]
  BY DEF FinalKept
<1> QED
  BY <1>1, <1>2, RecordInvariant, TournamentInvariant, PTL DEF RecSpec, FinalStays

-----------------------------------------------------------------------------
(* Waiting.                                                                *)

\* The order in which all transactions take locks: kind by kind, and those of one
\* kind by the tournament's type or the user's id.
Place(lock) ==
    CASE lock[2][1] = "level" -> 1
      [] lock[2][1] = "tournament-result" -> 2
      [] lock[2][1] = "world-record" -> 3
      [] lock[2][1] = "world-record-count" -> 4
      [] lock[2][1] = "user_points" -> 5
      [] OTHER -> 0

Within(lock) ==
    CASE lock[2][1] = "tournament-result" -> lock[2][2][1]
      [] lock[2][1] \in {"world-record-count", "user_points"} -> lock[2][2]
      [] OTHER -> 0

Before(a, b) == \/ Place(a) < Place(b)
                \/ Place(a) = Place(b) /\ Within(a) < Within(b)

\* The place of the last lock a transaction takes for a statement.
Top(step) ==
    CASE step \in {"insert"} -> 1
      [] step = "results" -> 2
      [] step = "recheck" -> 3
      [] step \in {"world", "score", "reset"} -> 5
      [] OTHER -> 0

KindOf(step) ==
    CASE step \in {"insert", "results", "recheck", "world"} -> "submit"
      [] step \in {"compare", "score"} -> "persist"
      [] step \in {"rank", "ranked"} -> "rank"
      [] step \in {"check", "reset"} -> "reset"
      [] step \in {"unfinished", "finalize", "create"} -> "rotate"
      [] OTHER -> "none"

IsSeq(want) == \E S : want \in Seq(S)

\* Locks in that order, each of a place from first to last.
Climbs(want, first, last) ==
    /\ IsSeq(want)
    /\ \A i \in DOMAIN want : Place(want[i]) \in first..last /\ Within(want[i]) \in Nat
    /\ \A i, j \in DOMAIN want : i < j => Before(want[i], want[j])

\* A transaction awaits only locks that come after those it holds; a rotation only
\* levels.
InPlace(tx) ==
    /\ tx.kind = KindOf(tx.step)
    /\ tx.kind = "none" => tx.want = <<>>
    /\ tx.kind \in {"submit", "persist", "reset"} =>
          /\ tx.user \in User
          /\ Climbs(tx.want, 1, Top(tx.step))
          /\ \A lock \in tx.hold : Place(lock) \in 0..Top(tx.step)
          /\ \A lock \in tx.hold : \A i \in DOMAIN tx.want : Before(lock, tx.want[i])
    /\ tx.kind = "rotate" =>
          /\ IsSeq(tx.want)
          /\ \A i \in DOMAIN tx.want : Place(tx.want[i]) = 1 /\ Within(tx.want[i]) = 0
          /\ \A lock \in tx.hold : Place(lock) \in 0..1
    /\ \A t \in tx.tours : t[1] \in Nat

\* Users and types have numbers.
Numbered(d) ==
    /\ \A r \in DOMAIN d.record : d.record[r].user \in User
    /\ \A t \in DOMAIN d.tour : t[1] \in Nat

WaitInv == Numbered(db) /\ \A s \in Session : InPlace(txs[s])

\* The places of the locks.
LEMMA PlacesAre ==
    ASSUME NEW x, NEW u, NEW t, NEW lock,
           lock \in {Exclusive(x), Shared(x)}
    PROVE  /\ x \in {UserLevel(u, t), UserScore(u), TourType(u)} => Place(lock) = 0
           /\ x = OfLevel(u) => Place(lock) = 1 /\ Within(lock) = 0
           /\ x = TourResults(t) => Place(lock) = 2 /\ Within(lock) = t[1]
           /\ x = WorldRecord(u) => Place(lock) = 3 /\ Within(lock) = 0
           /\ x = WorldRecordCount(u) => Place(lock) = 4 /\ Within(lock) = u
           /\ x = PointsRow(u) => Place(lock) = 5 /\ Within(lock) = u
<1>1. lock[2] = x
  BY DEF Exclusive, Shared
<1>2. /\ UserLevel(u, t)[1] = "user-level" /\ UserScore(u)[1] = "user-score"
      /\ TourType(u)[1] = "tournament"
  BY DEF UserLevel, UserScore, TourType
<1>3. /\ OfLevel(u)[1] = "level" /\ WorldRecord(u)[1] = "world-record"
      /\ TourResults(t)[1] = "tournament-result" /\ TourResults(t)[2] = t
  BY DEF OfLevel, WorldRecord, TourResults
<1>4. /\ WorldRecordCount(u)[1] = "world-record-count" /\ WorldRecordCount(u)[2] = u
      /\ PointsRow(u)[1] = "user_points" /\ PointsRow(u)[2] = u
  BY DEF WorldRecordCount, PointsRow
<1> QED
  BY <1>1, <1>2, <1>3, <1>4 DEF Place, Within

\* Places of locks are a matter of what is locked.
LEMMA SamePlace ==
    ASSUME NEW a, NEW b, a[2] = b[2]
    PROVE  Place(a) = Place(b) /\ Within(a) = Within(b)
BY DEF Place, Within

\* One lock, and none.
LEMMA FewClimb ==
    ASSUME NEW lock, NEW first \in Nat, NEW last \in Nat, Place(lock) \in first..last,
           Within(lock) \in Nat
    PROVE  Climbs(<<lock>>, first, last) /\ Climbs(<<>>, first, last) /\ IsSeq(<<lock>>)
<1>1. PICK one, none : one = <<lock>> /\ none = <<>>
  OBVIOUS
<1>2. one \in Seq({lock}) /\ none \in Seq({lock})
  BY <1>1
<1>3. IsSeq(one) /\ IsSeq(none)
  BY <1>2 DEF IsSeq
<1>4. DOMAIN one = {1} /\ one[1] = lock /\ DOMAIN none = {}
  BY <1>1
<1>5. Climbs(one, first, last) /\ Climbs(none, first, last)
  BY <1>3, <1>4 DEF Climbs
<1> QED
  BY <1>1, <1>3, <1>5

\* The first of the locks is taken.
LEMMA TailClimbs ==
    ASSUME NEW want, IsSeq(want), want # <<>>
    PROVE  /\ IsSeq(Tail(want)) /\ 1 \in DOMAIN want /\ Head(want) = want[1]
           /\ \A i \in DOMAIN Tail(want) :
                  i \in Nat \ {0} /\ i + 1 \in DOMAIN want /\ Tail(want)[i] = want[i + 1]
<1>1. PICK S : want \in Seq(S)
  BY DEF IsSeq
<1>2. Tail(want) \in Seq(S) /\ Len(want) \in Nat /\ DOMAIN want = 1..Len(want)
  BY <1>1
<1>3. /\ DOMAIN Tail(want) = 1..(Len(want) - 1) /\ Len(want) > 0
      /\ \A i \in DOMAIN Tail(want) : Tail(want)[i] = want[i + 1]
  BY <1>1, <1>2
<1>4. \A i \in DOMAIN Tail(want) : i \in Nat \ {0} /\ i + 1 \in DOMAIN want
  BY <1>2, <1>3
<1>5. Head(want) = want[1] /\ 1 \in DOMAIN want
  BY <1>1, <1>2, <1>3
<1> QED
  BY <1>2, <1>3, <1>4, <1>5 DEF IsSeq

\* Locks by the order of users.
LEMMA UsersClimb ==
    ASSUME NEW users, IsFiniteSet(users), users \subseteq User, NEW order \in ById(users)
    PROVE  Climbs(CountLocks(order) \o RowLocks(order), 4, 5)
<1>1. PICK n : n = Cardinality(users)
  OBVIOUS
<1>2. n \in Nat
  BY <1>1, FS_CardinalityType
<1>3. order \in [1..n -> users] /\ \A i, j \in 1..n : i < j => order[i] < order[j]
  BY <1>1 DEF ById, SetToSeqs
<1>4. PICK counts, rows : counts = CountLocks(order) /\ rows = RowLocks(order)
  OBVIOUS
<1>5. /\ counts = [i \in 1..n |-> Exclusive(WorldRecordCount(order[i]))]
      /\ rows = [i \in 1..n |-> Exclusive(PointsRow(order[i]))]
  BY <1>3, <1>4 DEF CountLocks, RowLocks
<1>6. PICK S : S = {Exclusive(WorldRecordCount(u)) : u \in users}
                    \cup {Exclusive(PointsRow(u)) : u \in users}
  OBVIOUS
<1>7. counts \in Seq(S) /\ rows \in Seq(S) /\ Len(counts) = n /\ Len(rows) = n
  <2>1. counts \in [1..n -> S] /\ rows \in [1..n -> S]
    BY <1>3, <1>5, <1>6
  <2> QED
    BY <1>2, <2>1
<1>8. PICK want : want = counts \o rows
  OBVIOUS
<1>9. /\ want \in Seq(S) /\ DOMAIN want = 1..(n + n)
      /\ \A i \in 1..n : want[i] = counts[i]
      /\ \A i \in (n + 1)..(n + n) : want[i] = rows[i - n]
  BY <1>2, <1>7, <1>8
<1>10. ASSUME NEW i \in 1..n
       PROVE  /\ order[i] \in Nat
              /\ Place(want[i]) = 4 /\ Within(want[i]) = order[i]
  <2>1. order[i] \in Nat
    BY <1>3, RecordAssumption
  <2>2. want[i] = Exclusive(WorldRecordCount(order[i]))
    BY <1>5, <1>9
  <2> QED
    BY <2>1, <2>2, PlacesAre
<1>11. ASSUME NEW i \in (n + 1)..(n + n)
       PROVE  /\ i - n \in 1..n /\ order[i - n] \in Nat
              /\ Place(want[i]) = 5 /\ Within(want[i]) = order[i - n]
  <2>1. i - n \in 1..n
    BY <1>2
  <2>2. order[i - n] \in Nat
    BY <1>3, <2>1, RecordAssumption
  <2>3. want[i] = Exclusive(PointsRow(order[i - n]))
    BY <1>5, <1>9, <2>1
  <2> QED
    BY <2>1, <2>2, <2>3, PlacesAre
<1>12. \A i \in DOMAIN want : i \in 1..n \/ i \in (n + 1)..(n + n)
  BY <1>2, <1>9
<1>13. ASSUME NEW i \in DOMAIN want
       PROVE  Place(want[i]) \in 4..5 /\ Within(want[i]) \in Nat
  BY <1>10, <1>11, <1>12
<1>14. ASSUME NEW i \in DOMAIN want, NEW j \in DOMAIN want, i < j
       PROVE  Before(want[i], want[j])
  <2>1. CASE i \in 1..n /\ j \in 1..n
    BY <1>3, <1>10, <1>14, <2>1 DEF Before
  <2>2. CASE i \in 1..n /\ j \in (n + 1)..(n + n)
    <3>1. Place(want[i]) = 4 /\ Place(want[j]) = 5
      BY <1>10, <1>11, <2>2
    <3> QED
      BY <3>1 DEF Before
  <2>3. CASE i \in (n + 1)..(n + n) /\ j \in (n + 1)..(n + n)
    <3>1. i - n < j - n
      BY <1>2, <1>14, <2>3
    <3>2. order[i - n] < order[j - n]
      BY <1>3, <1>11, <2>3, <3>1
    <3> QED
      BY <1>11, <2>3, <3>2 DEF Before
  <2>4. ~(i \in (n + 1)..(n + n) /\ j \in 1..n)
    BY <1>2, <1>14
  <2> QED
    BY <1>12, <2>1, <2>2, <2>3, <2>4
<1> QED
  BY <1>4, <1>8, <1>9, <1>13, <1>14 DEF Climbs, IsSeq

\* Locks of results by the order of types.
LEMMA ResultsClimb ==
    ASSUME NEW S, IsFiniteSet(S), \A t \in S : t[1] \in Nat, NEW open \in InOrder(S)
    PROVE  Climbs(ResultLocks(open), 2, 2)
<1>1. open \in Seq(S) /\ \A i, j \in DOMAIN open : i < j => open[i][1] < open[j][1]
  BY OrderCovers DEF InOrder
<1>2. PICK want : want = ResultLocks(open)
  OBVIOUS
<1>3. PICK locks : locks = {Exclusive(TourResults(t)) : t \in S}
  OBVIOUS
<1>4. /\ want = [i \in DOMAIN open |-> Exclusive(TourResults(open[i]))]
      /\ \A i \in DOMAIN open : open[i] \in S
  BY <1>1, <1>2 DEF ResultLocks
<1>5. want \in Seq(locks) /\ DOMAIN want = DOMAIN open
  BY <1>1, <1>3, <1>4
<1>6. ASSUME NEW i \in DOMAIN open
      PROVE  Place(want[i]) = 2 /\ Within(want[i]) = open[i][1] /\ open[i][1] \in Nat
  BY <1>4, PlacesAre
<1> QED
  BY <1>1, <1>2, <1>5, <1>6 DEF Climbs, IsSeq, Before

-----------------------------------------------------------------------------
(* Each step keeps the order.                                              *)

\* A step of one transaction, if it is in place after it and the numbers are.
LEMMA OneTxWaits ==
    ASSUME RecordInv, WaitInv, NEW s \in Session, NEW tx, txs' = [txs EXCEPT ![s] = tx],
           Numbered(db'), InPlace(tx)
    PROVE  WaitInv'
<1>1. txs'[s] = tx /\ \A t \in Session \ {s} : txs'[t] = txs[t]
  BY DEF RecordInv, Shaped
<1> QED
  BY <1>1 DEF WaitInv

\* A transaction that has ended waits for nothing.
LEMMA EndWaits ==
    ASSUME RecordInv, WaitInv, NEW s \in Session, txs' = [txs EXCEPT ![s] = NoTx], Numbered(db')
    PROVE  WaitInv'
<1>1. PICK none : none = NoTx
  OBVIOUS
<1>2. none.kind = "none" /\ none.step = "none" /\ none.want = <<>> /\ none.tours = {}
  BY <1>1 DEF NoTx
<1>3. InPlace(none)
  BY <1>2 DEF InPlace, KindOf
<1> QED
  BY <1>1, <1>3, OneTxWaits

\* A commit brings only users and tournaments that have numbers.
LEMMA CommitWaits ==
    ASSUME RecordInv, WaitInv, NEW s \in Session, NEW put, Finish(s, put),
           put.record = txs[s].put.record, \A t \in DOMAIN put.tour : t[1] \in Nat
    PROVE  WaitInv'
<1>1. PICK tx : tx = txs[s]
  OBVIOUS
<1>2. Shaped /\ TxInv(tx) /\ IsTable(db.record)
  BY <1>1 DEF RecordInv, Shaped, Tables
<1>3. /\ db'.record = Over(tx.put.record, db.record) /\ db'.tour = Over(put.tour, db.tour)
      /\ txs' = [txs EXCEPT ![s] = NoTx]
  BY <1>1, <1>2, FinishIs DEF Tables
<1>4. \A t \in DOMAIN db'.tour : t[1] \in Nat
  BY <1>3 DEF Over, WaitInv, Numbered
<1>5. CASE Inserted(tx)
  <2>1. tx.user \in User /\ tx.put.record = Row(tx.id, RecordOf(tx))
    BY <1>2, <1>5 DEF TxInv, Writes, Guarded, Submitting, Inserted
  <2>2. \A r \in DOMAIN db'.record :
            \/ db'.record[r] = RecordOf(tx)
            \/ r \in DOMAIN db.record /\ db'.record[r] = db.record[r]
    <3>1. PICK row, old, new : /\ row = Row(tx.id, RecordOf(tx))
                               /\ old = db.record /\ new = db'.record
      OBVIOUS
    <3>2. DOMAIN row = {tx.id} /\ row[tx.id] = RecordOf(tx)
      BY <3>1 DEF Row
    <3>3. new = Over(row, old)
      BY <1>3, <2>1, <3>1
    <3> QED
      BY <3>1, <3>2, <3>3 DEF Over
  <2>3. RecordOf(tx).user = tx.user
    BY DEF RecordOf
  <2>4. Numbered(db')
    BY <1>4, <2>1, <2>2, <2>3 DEF WaitInv, Numbered
  <2> QED
    BY <1>3, <2>4, EndWaits
<1>6. CASE ~Inserted(tx)
  <2>1. db'.record = db.record
    BY <1>2, <1>3, <1>6, OverNothing DEF TxInv, Writes
  <2>2. Numbered(db')
    BY <1>4, <2>1 DEF WaitInv, Numbered
  <2> QED
    BY <1>3, <2>2, EndWaits
<1> QED
  BY <1>5, <1>6

\* The next statement of a transaction that has all the locks it waited for.
Continues(old, tx) ==
    /\ old.want = <<>> /\ tx.hold = old.hold /\ tx.kind = old.kind /\ tx.user = old.user
    /\ KindOf(tx.step) = KindOf(old.step) /\ Top(old.step) <= Top(tx.step)
    /\ Climbs(tx.want, Top(old.step) + 1, Top(tx.step))
    /\ \A t \in tx.tours : t[1] \in Nat

\* Its locks come after those it holds.
LEMMA ContinuesInPlace ==
    ASSUME NEW old, NEW tx, InPlace(old), Continues(old, tx),
           old.kind \in {"submit", "persist", "reset"}
    PROVE  InPlace(tx)
<1>1. Top(old.step) \in 0..5 /\ Top(tx.step) \in 0..5
  BY DEF Top
<1>2. PICK from, to, want : from = Top(old.step) /\ to = Top(tx.step) /\ want = tx.want
  OBVIOUS
<1>3. /\ IsSeq(want)
      /\ \A i \in DOMAIN want : Place(want[i]) \in (from + 1)..to /\ Within(want[i]) \in Nat
      /\ \A i, j \in DOMAIN want : i < j => Before(want[i], want[j])
  BY <1>2 DEF Continues, Climbs
<1>4. \A lock \in tx.hold : Place(lock) \in 0..from
  BY <1>2 DEF InPlace, Continues
<1>5. from \in Nat /\ to \in Nat /\ from <= to
  BY <1>1, <1>2 DEF Continues
<1>6. Climbs(want, 1, to)
  BY <1>3, <1>5 DEF Climbs
<1>7. \A lock \in tx.hold : Place(lock) \in 0..to
  BY <1>4, <1>5
<1>8. ASSUME NEW lock \in tx.hold, NEW i \in DOMAIN want
      PROVE  Before(lock, want[i])
  <2>1. Place(lock) < Place(want[i])
    BY <1>3, <1>4, <1>5
  <2> QED
    BY <2>1 DEF Before
<1> QED
  BY <1>2, <1>6, <1>7, <1>8 DEF InPlace, Continues

\* A lock is granted.
LEMMA TakeLockWaits ==
    ASSUME RecordInv, WaitInv, NEW s \in Session, TakeLock(s)
    PROVE  WaitInv'
<1>1. PICK old : old = txs[s]
  OBVIOUS
<1>2. PICK want : want = old.want
  OBVIOUS
<1>3. PICK tx : tx = [old EXCEPT !.hold = @ \cup {Head(want)}, !.want = Tail(want)]
  OBVIOUS
<1>4. DOMAIN old = Fields /\ InPlace(old) /\ want # <<>>
  BY <1>1, <1>2 DEF RecordInv, Shaped, WaitInv, TakeLock
<1>5. /\ tx.step = old.step /\ tx.kind = old.kind /\ tx.user = old.user /\ tx.tours = old.tours
      /\ tx.hold = old.hold \cup {Head(want)} /\ tx.want = Tail(want)
  BY <1>3, <1>4 DEF Fields
<1>6. txs' = [txs EXCEPT ![s] = tx] /\ db' = db
  BY <1>1, <1>2, <1>3, <1>4, <1>5 DEF TakeLock, Fields
<1>7. ASSUME IsSeq(want)
      PROVE  /\ IsSeq(Tail(want)) /\ 1 \in DOMAIN want /\ Head(want) = want[1]
             /\ \A i \in DOMAIN Tail(want) :
                    i \in Nat \ {0} /\ i + 1 \in DOMAIN want /\ Tail(want)[i] = want[i + 1]
  BY <1>4, <1>7, TailClimbs
<1>8. ASSUME old.kind \in {"submit", "persist", "reset"} PROVE InPlace(tx)
  <2>1. Climbs(want, 1, Top(old.step))
    BY <1>2, <1>4, <1>8 DEF InPlace
  <2>2. IsSeq(want)
    BY <2>1 DEF Climbs
  <2>3. \A i, j \in DOMAIN Tail(want) : i < j => i + 1 < j + 1
    BY <1>7, <2>2
  <2>4. Climbs(Tail(want), 1, Top(old.step))
    BY <1>7, <2>1, <2>2, <2>3 DEF Climbs
  <2>5. \A i \in DOMAIN Tail(want) : Before(Head(want), Tail(want)[i])
    <3>1. \A i \in DOMAIN Tail(want) : 1 < i + 1
      BY <1>7, <2>2
    <3> QED
      BY <1>7, <2>1, <2>2, <3>1 DEF Climbs
  <2>6. Place(Head(want)) \in 0..Top(old.step)
    <3>1. Place(Head(want)) \in 1..Top(old.step) /\ Top(old.step) \in 0..5
      BY <1>7, <2>1, <2>2 DEF Climbs, Top
    <3> QED
      BY <3>1
  <2>7. \A lock \in old.hold : \A i \in DOMAIN Tail(want) : Before(lock, Tail(want)[i])
    BY <1>2, <1>4, <1>7, <1>8, <2>2 DEF InPlace
  <2> QED
    BY <1>4, <1>5, <1>8, <2>4, <2>5, <2>6, <2>7 DEF InPlace
<1>9. ASSUME old.kind = "rotate" PROVE InPlace(tx)
  <2>1. /\ IsSeq(want) /\ \A lock \in old.hold : Place(lock) \in 0..1
        /\ \A i \in DOMAIN want : Place(want[i]) = 1 /\ Within(want[i]) = 0
    BY <1>2, <1>4, <1>9 DEF InPlace
  <2>2. IsSeq(Tail(want)) /\ \A lock \in tx.hold : Place(lock) \in 0..1
    BY <1>5, <1>7, <2>1
  <2>3. \A i \in DOMAIN Tail(want) : Place(Tail(want)[i]) = 1 /\ Within(Tail(want)[i]) = 0
    BY <1>7, <2>1
  <2> QED
    BY <1>4, <1>5, <1>9, <2>2, <2>3 DEF InPlace
<1>10. InPlace(tx)
  BY <1>2, <1>4, <1>5, <1>8, <1>9 DEF InPlace
<1> QED
  BY <1>6, <1>10, OneTxWaits DEF WaitInv

\* A transaction starts.
LEMMA StartWaits ==
    ASSUME RecordInv, WaitInv, NEW s \in Session,
           \/ \E u \in User, l \in Level, time \in Time : Submit(s, u, l, time)
           \/ \E u \in User : Persist(s, u) \/ Reset(s, u)
           \/ Rank(s)
           \/ \E type \in Type : Rotate(s, type)
    PROVE  WaitInv'
<1>1. txs[s].kind = "none" /\ txs[s].want = <<>>
  BY DEF Submit, Persist, Reset, Rank, Rotate, Begin, WaitInv, InPlace
<1>2. \A t \in txs[s].tours : t[1] \in Nat
  BY DEF WaitInv, InPlace
<1>3. PICK none : none = <<>>
  OBVIOUS
<1>4. DOMAIN none = {} /\ none \in Seq({})
  BY <1>3
<1>5. IsSeq(none) /\ \A last \in Nat : Climbs(none, 1, last)
  BY <1>4 DEF IsSeq, Climbs
<1>6. CASE \E u \in User, l \in Level, time \in Time : Submit(s, u, l, time)
  <2>1. PICK u \in User, l \in Level, time \in Time : Submit(s, u, l, time)
    BY <1>6
  <2>2. PICK tx : tx = [kind |-> "submit", user |-> u, level |-> l, time |-> time, at |-> now,
                        step |-> "insert", want |-> <<Shared(OfLevel(l))>>]
    OBVIOUS
  <2>3. Begin(s, Exclusive(UserLevel(u, l)), tx)
    BY <2>1, <2>2 DEF Submit
  <2>4. /\ DOMAIN tx = {"kind", "user", "level", "time", "at", "step", "want"}
        /\ tx["step"] = "insert" /\ tx["kind"] = "submit" /\ tx["user"] = u
        /\ tx["want"] = <<Shared(OfLevel(l))>>
    BY <2>2
  <2>5. PICK new : /\ txs' = [txs EXCEPT ![s] = new] /\ db' = db
                   /\ new.hold = {Exclusive(UserLevel(u, l))}
                   /\ \A x \in DOMAIN tx : new[x] = tx[x]
                   /\ \A x \in Fields \ (DOMAIN tx \cup {"hold"}) : new[x] = txs[s][x]
    BY <2>3, <2>4, BeginIs DEF Fields
  <2>6. /\ new.step = "insert" /\ new.kind = "submit" /\ new.user = u /\ new.tours = txs[s].tours
        /\ new.want = <<Shared(OfLevel(l))>>
    BY <2>4, <2>5 DEF Fields
  <2>7. PICK first, next, want : /\ first = Exclusive(UserLevel(u, l)) /\ next = Shared(OfLevel(l))
                                 /\ want = <<next>>
    OBVIOUS
  <2>8. Place(first) = 0 /\ Place(next) = 1 /\ Within(next) = 0
    BY <2>7, PlacesAre
  <2>9. Climbs(want, 1, 1) /\ DOMAIN want = {1} /\ want[1] = next
    BY <2>7, <2>8, FewClimb
  <2>10. KindOf("insert") = "submit" /\ Top("insert") = 1
    BY DEF KindOf, Top
  <2>11. Before(first, next) /\ Place(first) \in 0..1
    BY <2>8 DEF Before
  <2>12. InPlace(new)
    BY <1>2, <2>5, <2>6, <2>7, <2>9, <2>10, <2>11 DEF InPlace
  <2> QED
    BY <2>5, <2>12, OneTxWaits DEF WaitInv
<1>7. ASSUME NEW u \in User, Persist(s, u) \/ Reset(s, u) PROVE WaitInv'
  <2>1. PICK kind, step : /\ Begin(s, Exclusive(UserScore(u)), [kind |-> kind, user |-> u, step |-> step])
                          /\ \/ kind = "persist" /\ step = "compare"
                             \/ kind = "reset" /\ step = "check"
    BY <1>7 DEF Persist, Reset
  <2>2. PICK tx : tx = [kind |-> kind, user |-> u, step |-> step]
    OBVIOUS
  <2>3. /\ DOMAIN tx = {"kind", "user", "step"}
        /\ tx["step"] = step /\ tx["kind"] = kind /\ tx["user"] = u
    BY <2>2
  <2>4. PICK new : /\ txs' = [txs EXCEPT ![s] = new] /\ db' = db
                   /\ new.hold = {Exclusive(UserScore(u))}
                   /\ \A x \in DOMAIN tx : new[x] = tx[x]
                   /\ \A x \in Fields \ (DOMAIN tx \cup {"hold"}) : new[x] = txs[s][x]
    BY <2>1, <2>2, <2>3, BeginIs DEF Fields
  <2>5. /\ new.step = step /\ new.kind = kind /\ new.user = u /\ new.tours = txs[s].tours
        /\ new.want = none
    BY <1>1, <1>3, <2>3, <2>4 DEF Fields
  <2>6. PICK first : first = Exclusive(UserScore(u))
    OBVIOUS
  <2>7. Place(first) = 0 /\ KindOf(step) = kind /\ Top(step) = 0
    BY <2>1, <2>6, PlacesAre DEF KindOf, Top
  <2>8. InPlace(new)
    BY <1>2, <1>3, <1>4, <1>5, <2>1, <2>4, <2>5, <2>6, <2>7 DEF InPlace
  <2> QED
    BY <2>4, <2>8, OneTxWaits DEF WaitInv
<1>8. CASE Rank(s)
  <2>1. PICK lock, want : Begin(s, lock, [kind |-> "rank", step |-> "rank", want |-> want])
    BY <1>8 DEF Rank
  <2>2. PICK tx : tx = [kind |-> "rank", step |-> "rank", want |-> want]
    OBVIOUS
  <2>3. DOMAIN tx = {"kind", "step", "want"} /\ tx["step"] = "rank" /\ tx["kind"] = "rank"
    BY <2>2
  <2>4. PICK new : /\ txs' = [txs EXCEPT ![s] = new] /\ db' = db
                   /\ \A x \in DOMAIN tx : new[x] = tx[x]
                   /\ \A x \in Fields \ (DOMAIN tx \cup {"hold"}) : new[x] = txs[s][x]
    BY <2>1, <2>2, <2>3, BeginIs DEF Fields
  <2>5. new.step = "rank" /\ new.kind = "rank" /\ new.tours = txs[s].tours
    BY <2>3, <2>4 DEF Fields
  <2>6. InPlace(new)
    BY <1>2, <2>5 DEF InPlace, KindOf
  <2> QED
    BY <2>4, <2>6, OneTxWaits DEF WaitInv
<1>9. CASE \E type \in Type : Rotate(s, type)
  <2>1. PICK type \in Type : Rotate(s, type)
    BY <1>9
  <2>2. PICK tx : tx = [kind |-> "rotate", at |-> now, tours |-> {<<type, now>>},
                        step |-> "unfinished"]
    OBVIOUS
  <2>3. Begin(s, Exclusive(TourType(type)), tx)
    BY <2>1, <2>2 DEF Rotate
  <2>4. /\ DOMAIN tx = {"kind", "at", "tours", "step"}
        /\ tx["step"] = "unfinished" /\ tx["tours"] = {<<type, now>>} /\ tx["kind"] = "rotate"
    BY <2>2
  <2>5. PICK new : /\ txs' = [txs EXCEPT ![s] = new] /\ db' = db
                   /\ new.hold = {Exclusive(TourType(type))}
                   /\ \A x \in DOMAIN tx : new[x] = tx[x]
                   /\ \A x \in Fields \ (DOMAIN tx \cup {"hold"}) : new[x] = txs[s][x]
    BY <2>3, <2>4, BeginIs DEF Fields
  <2>6. /\ new.step = "unfinished" /\ new.kind = "rotate" /\ new.tours = {<<type, now>>}
        /\ new.want = none
    BY <1>1, <1>3, <2>4, <2>5 DEF Fields
  <2>7. PICK first : first = Exclusive(TourType(type))
    OBVIOUS
  <2>8. Place(first) = 0 /\ KindOf("unfinished") = "rotate"
    BY <2>7, PlacesAre DEF KindOf
  <2>9. type \in Nat
    BY RecordAssumption
  <2>10. \A t \in new.tours : t[1] \in Nat
    BY <2>6, <2>9
  <2>11. InPlace(new)
    BY <1>3, <1>4, <1>5, <2>5, <2>6, <2>7, <2>8, <2>10 DEF InPlace
  <2> QED
    BY <2>5, <2>11, OneTxWaits DEF WaitInv
<1> QED
  BY <1>6, <1>7, <1>8, <1>9

\* A commit of what was put before.
LEMMA EndsWaits ==
    ASSUME RecordInv, TourInv, WaitInv, NEW s \in Session, NEW put, Finish(s, put),
           put.record = txs[s].put.record, put.tour = txs[s].put.tour
    PROVE  WaitInv'
<1>1. PICK tx : tx = txs[s]
  OBVIOUS
<1>2. TourTx(db, tx) /\ DOMAIN <<>> = {}
  BY <1>1 DEF TourInv
<1>3. \A t \in DOMAIN tx.put.tour : t \in DOMAIN db.tour
  BY <1>2 DEF TourTx, Submits, Rotates, Finalizes
<1>4. \A t \in DOMAIN put.tour : t[1] \in Nat
  BY <1>1, <1>3 DEF WaitInv, Numbered
<1> QED
  BY <1>4, CommitWaits

\* A transaction goes on with its next statement.
LEMMA GoesWaits ==
    ASSUME RecordInv, WaitInv, NEW s \in Session, NEW step, NEW want, Goes(s, step, want), db' = db,
           txs[s].want = <<>>,
           \/ txs[s].step = "recheck" /\ step = "world" /\ Climbs(want, 4, 5)
           \/ txs[s].step = "compare" /\ step = "score" /\ Climbs(want, 1, 5)
           \/ txs[s].step = "check" /\ step = "reset" /\ Climbs(want, 1, 5)
           \/ txs[s].step = "rank" /\ step = "ranked"
    PROVE  WaitInv'
<1>1. PICK old : old = txs[s]
  OBVIOUS
<1>2. DOMAIN old = Fields /\ DOMAIN txs = Session /\ InPlace(old)
  BY <1>1 DEF RecordInv, Shaped, WaitInv
<1>3. PICK tx : tx = [old EXCEPT !.step = step, !.want = want]
  OBVIOUS
<1>4. txs' = [txs EXCEPT ![s] = tx]
  BY <1>1, <1>2, <1>3 DEF Goes, Fields
<1>5. /\ tx.step = step /\ tx.want = want /\ tx.hold = old.hold /\ tx.kind = old.kind
      /\ tx.user = old.user /\ tx.tours = old.tours
  BY <1>2, <1>3 DEF Fields
<1>6. \A t \in tx.tours : t[1] \in Nat
  BY <1>2, <1>5 DEF InPlace
<1>7. CASE old.step = "rank" /\ step = "ranked"
  <2>1. old.kind = "rank" /\ KindOf(step) = "rank"
    BY <1>2, <1>7 DEF InPlace, KindOf
  <2>2. InPlace(tx)
    BY <1>5, <1>6, <2>1 DEF InPlace
  <2> QED
    BY <1>4, <2>2, OneTxWaits DEF WaitInv
<1>8. CASE ~(old.step = "rank" /\ step = "ranked")
  <2>1. /\ old.kind \in {"submit", "persist", "reset"} /\ KindOf(step) = KindOf(old.step)
        /\ Top(old.step) <= Top(step)
    BY <1>1, <1>2, <1>8 DEF InPlace, KindOf, Top
  <2>2. Climbs(want, Top(old.step) + 1, Top(step))
    <3>1. CASE old.step = "recheck" /\ step = "world" /\ Climbs(want, 4, 5)
      <4>1. Top(old.step) = 3 /\ Top(step) = 5
        BY <3>1 DEF Top
      <4> QED
        BY <3>1, <4>1
    <3>2. CASE old.step \in {"compare", "check"} /\ step \in {"score", "reset"} /\ Climbs(want, 1, 5)
      <4>1. Top(old.step) = 0 /\ Top(step) = 5
        BY <3>2 DEF Top
      <4> QED
        BY <3>2, <4>1
    <3> QED
      BY <1>1, <1>8, <3>1, <3>2
  <2>3. Continues(old, tx)
    BY <1>1, <1>5, <1>6, <2>1, <2>2 DEF Continues
  <2>4. InPlace(tx)
    BY <1>2, <2>1, <2>3, ContinuesInPlace
  <2> QED
    BY <1>4, <2>4, OneTxWaits DEF WaitInv
<1> QED
  BY <1>7, <1>8

\* The world record lock comes after those of the results.
LEMMA WorldRecordClimbs ==
    ASSUME NEW faster, NEW l, NEW first \in 0..3
    PROVE  Climbs(ToWorldRecord(faster, l), first, 3)
<1>1. PICK lock : lock = Exclusive(WorldRecord(l))
  OBVIOUS
<1>2. Place(lock) = 3 /\ Within(lock) = 0
  BY <1>1, PlacesAre
<1>3. Climbs(<<lock>>, first, 3) /\ Climbs(<<>>, first, 3)
  BY <1>2, FewClimb
<1> QED
  BY <1>1, <1>3 DEF ToWorldRecord

\* A submission goes on to the results it improves, in the order of their types.
LEMMA InsertWaits ==
    ASSUME RecordInv, TourInv, WaitInv, NEW s \in Session, InsertRecord(s)
    PROVE  WaitInv'
<1>1. PICK old : old = txs[s]
  OBVIOUS
<1>2. /\ Shaped /\ TourTx(db, old) /\ InPlace(old) /\ old.step = "insert"
      /\ old.want = <<>> /\ db' = db
  BY <1>1 DEF RecordInv, TourInv, WaitInv, InsertRecord, At
<1>3. PICK tx, first : \E open \in InOrder(Improvable(s)) : Inserting(s, old, tx, first, open)
  BY <1>1, InsertIs
<1>4. PICK open \in InOrder(Improvable(s)) : Inserting(s, old, tx, first, open)
  BY <1>3
<1>5. /\ txs' = [txs EXCEPT ![s] = tx] /\ tx.kind = old.kind /\ tx.user = old.user
      /\ tx.hold = old.hold /\ tx.tours = Improvable(s)
      /\ \/ tx.step = "recheck" /\ tx.want = ToWorldRecord(tx.faster, old.level)
         \/ tx.step = "results" /\ tx.want = ResultLocks(open)
  BY <1>4 DEF Inserting
<1>6. tx.tours \subseteq DOMAIN db.tour
  <2>1. PICK view : view = View(s)
    OBVIOUS
  <2>2. view.tour = db.tour
    <3>1. old.put.tour = <<>>
      BY <1>2 DEF TourTx, Submits, Submitting
    <3>2. view.tour = Over(<<>>, db.tour) /\ IsTable(db.tour)
      BY <1>1, <1>2, <2>1, <3>1 DEF View, Shaped, Tables
    <3> QED
      BY <3>2, OverNothing
  <2> QED
    BY <1>5, <2>1, <2>2 DEF Improvable
<1>7. IsFiniteSet(tx.tours) /\ \A t \in tx.tours : t[1] \in Nat
  <2>1. IsFiniteSet(tx.tours)
    BY <1>6, FS_Subset DEF TourInv, Tours
  <2> QED
    BY <1>6, <2>1 DEF WaitInv, Numbered
<1>8. Climbs(tx.want, 2, Top(tx.step)) /\ Top(tx.step) \in 2..3
  <2>1. CASE tx.step = "recheck" /\ tx.want = ToWorldRecord(tx.faster, old.level)
    <3>1. Top("recheck") = 3 /\ Climbs(ToWorldRecord(tx.faster, old.level), 2, 3)
      BY WorldRecordClimbs DEF Top
    <3> QED
      BY <2>1, <3>1
  <2>2. CASE tx.step = "results" /\ tx.want = ResultLocks(open)
    <3>1. Climbs(ResultLocks(open), 2, 2)
      BY <1>4, <1>5, <1>7, ResultsClimb
    <3>2. Top("results") = 2
      BY DEF Top
    <3> QED
      BY <2>2, <3>1, <3>2
  <2> QED
    BY <1>5, <2>1, <2>2
<1>9. Top("insert") = 1 /\ KindOf(tx.step) = "submit" /\ KindOf("insert") = "submit"
  BY <1>5 DEF Top, KindOf
<1>10. Continues(old, tx)
  BY <1>2, <1>5, <1>7, <1>8, <1>9 DEF Continues
<1>11. old.kind = "submit"
  BY <1>2, <1>9 DEF InPlace
<1>12. InPlace(tx)
  BY <1>2, <1>10, <1>11, ContinuesInPlace
<1> QED
  BY <1>2, <1>5, <1>12, OneTxWaits DEF WaitInv

\* Its results put, a submission goes on to the world record.
LEMMA PutResultsWaits ==
    ASSUME RecordInv, WaitInv, NEW s \in Session, PutResults(s)
    PROVE  WaitInv'
<1>1. PICK old : old = txs[s]
  OBVIOUS
<1>2. /\ DOMAIN txs = Session /\ DOMAIN old = Fields /\ InPlace(old) /\ old.step = "results"
      /\ old.want = <<>> /\ db' = db
  BY <1>1 DEF RecordInv, Shaped, WaitInv, PutResults, At
<1>3. PICK put, want : /\ want = ToWorldRecord(old.faster, old.level)
                       /\ txs' = [txs EXCEPT ![s].put = put, ![s].step = "recheck", ![s].want = want]
  BY <1>1 DEF PutResults
<1>4. PICK tx : tx = [old EXCEPT !.put = put, !.step = "recheck", !.want = want]
  OBVIOUS
<1>5. txs' = [txs EXCEPT ![s] = tx]
  BY <1>1, <1>2, <1>3, <1>4 DEF Fields
<1>6. /\ tx.step = "recheck" /\ tx.want = want /\ tx.hold = old.hold /\ tx.kind = old.kind
      /\ tx.user = old.user /\ tx.tours = old.tours
  BY <1>2, <1>4 DEF Fields
<1>7. /\ Top("results") = 2 /\ Top("recheck") = 3
      /\ KindOf("results") = "submit" /\ KindOf("recheck") = "submit"
  BY DEF Top, KindOf
<1>8. Climbs(want, 3, 3)
  BY <1>3, WorldRecordClimbs
<1>9. old.kind = "submit" /\ \A t \in tx.tours : t[1] \in Nat
  BY <1>2, <1>6, <1>7 DEF InPlace
<1>10. Continues(old, tx)
  BY <1>2, <1>6, <1>7, <1>8, <1>9 DEF Continues
<1>11. InPlace(tx)
  BY <1>2, <1>9, <1>10, ContinuesInPlace
<1> QED
  BY <1>2, <1>5, <1>11, OneTxWaits DEF WaitInv

\* The world record is compared once more.
LEMMA RecheckWaits ==
    ASSUME RecordInv, TourInv, WaitInv, NEW s \in Session, RecheckWorldRecord(s)
    PROVE  WaitInv'
<1>1. PICK tx : tx = txs[s]
  OBVIOUS
<1>2. Shaped /\ Referring /\ TxInv(tx) /\ tx.step = "recheck" /\ tx.want = <<>>
  BY <1>1 DEF RecordInv, RecheckWorldRecord, At
<1>3. CASE Finish(s, tx.put)
  BY <1>1, <1>3, EndsWaits
<1>4. CASE ~Finish(s, tx.put)
  <2>1. PICK order \in ById(Holders(s)) : Goes(s, "world", CountLocks(order) \o RowLocks(order))
    BY <1>1, <1>4 DEF RecheckWorldRecord
  <2>2. db' = db
    BY <1>1, <1>4 DEF RecheckWorldRecord
  <2>3. PICK holders : holders = Holders(s)
    OBVIOUS
  <2>4. holders \subseteq User /\ IsFiniteSet(holders)
    <3>1. PICK view : view = View(s)
      OBVIOUS
    <3>2. PICK other : other = view.record[view.world[tx.level]].user
      OBVIOUS
    <3>3. /\ view.world = Over(tx.put.world, db.world) /\ view.record = Over(tx.put.record, db.record)
          /\ IsTable(db.world)
      BY <1>1, <1>2, <3>1 DEF View, Shaped, Tables
    <3>4. /\ tx.put.world = <<>> /\ tx.id \in 1..lastId /\ tx.id \notin DOMAIN db.record
          /\ tx.put.record = Row(tx.id, RecordOf(tx)) /\ tx.user \in User
      BY <1>2 DEF TxInv, Writes, Guarded, Inserted, Submitting
    <3>5. view.world = db.world
      BY <3>3, <3>4, OverNothing
    <3>6. tx.level \in DOMAIN view.world => other \in User
      <4>1. ASSUME tx.level \in DOMAIN db.world PROVE other \in User
        <5>1. PICK r : r = db.world[tx.level]
          OBVIOUS
        <5>2. r \in DOMAIN db.record
          BY <1>2, <4>1, <5>1 DEF Referring
        <5>3. view.record[r] = db.record[r]
          BY <3>3, <3>4, <5>2 DEF Over, Row
        <5> QED
          BY <3>2, <3>5, <5>1, <5>2, <5>3 DEF WaitInv, Numbered
      <4> QED
        BY <3>5, <4>1
    <3>7. holders = {tx.user} \cup IF tx.level \in DOMAIN view.world THEN {other} ELSE {}
      BY <1>1, <2>3, <3>1, <3>2 DEF Holders
    <3>8. holders = {tx.user} \/ holders = {tx.user, other}
      BY <3>7
    <3>9. IsFiniteSet({tx.user}) /\ IsFiniteSet({tx.user, other})
      <4>1. IsFiniteSet({tx.user}) /\ IsFiniteSet({other})
        BY FS_Singleton
      <4>2. {tx.user, other} = {tx.user} \cup {other}
        OBVIOUS
      <4> QED
        BY <4>1, <4>2, FS_Union
    <3> QED
      BY <3>4, <3>6, <3>7, <3>8, <3>9
  <2>5. PICK want : want = CountLocks(order) \o RowLocks(order)
    OBVIOUS
  <2>6. Climbs(want, 4, 5)
    BY <2>3, <2>4, <2>5, UsersClimb
  <2> QED
    BY <1>1, <1>2, <2>1, <2>2, <2>5, <2>6, GoesWaits
<1> QED
  BY <1>3, <1>4

\* It is still the fastest, or it is not.
LEMMA WorldRecordWaits ==
    ASSUME RecordInv, TourInv, WaitInv, NEW s \in Session, PutWorldRecord(s)
    PROVE  WaitInv'
<1>1. PICK old : old = txs[s]
  OBVIOUS
<1>2. PICK world, wins : Finish(s, [Put(s, "world", world) EXCEPT !.wins = wins])
  BY DEF PutWorldRecord
<1>3. PICK put : put = [Put(s, "world", world) EXCEPT !.wins = wins]
  OBVIOUS
<1>4. DOMAIN old.put = Tables
  BY <1>1 DEF RecordInv, Shaped
<1>5. put.record = old.put.record /\ put.tour = old.put.tour
  BY <1>1, <1>3, <1>4 DEF Put, Tables
<1> QED
  BY <1>1, <1>2, <1>3, <1>5, EndsWaits

\* Scores and ranks lock a user's count before the user's row.
LEMMA ScoresWait ==
    ASSUME RecordInv, TourInv, WaitInv, NEW s \in Session,
           \/ CompareSnapshot(s) \/ PutScore(s) \/ UpdateRanks(s) \/ Ranked(s)
           \/ CheckActivity(s) \/ ResetScore(s)
    PROVE  WaitInv'
<1>1. PICK old : old = txs[s]
  OBVIOUS
<1>2. /\ DOMAIN old.put = Tables /\ old.want = <<>> /\ InPlace(old)
      /\ old.step \in {"compare", "score", "rank", "ranked", "check", "reset"}
  BY <1>1 DEF RecordInv, Shaped, WaitInv, CompareSnapshot, PutScore, UpdateRanks, Ranked,
              CheckActivity, ResetScore, At
<1>3. PICK count, row : count = Exclusive(WorldRecordCount(old.user)) /\ row = Exclusive(PointsRow(old.user))
  OBVIOUS
<1>4. /\ Place(count) = 4 /\ Within(count) = old.user /\ Place(row) = 5 /\ Within(row) = old.user
  BY <1>3, PlacesAre
<1>5. CASE Finish(s, old.put)
  BY <1>1, <1>5, EndsWaits
<1>6. CASE PutScore(s) \/ ResetScore(s)
  <2>1. PICK put : /\ Finish(s, put)
                   /\ \E wins, score : \/ put = [Put(s, "wins", wins) EXCEPT !.score = score]
                                       \/ put = Put(s, "score", score)
    BY <1>6 DEF PutScore, ResetScore
  <2>2. put.record = old.put.record /\ put.tour = old.put.tour
    BY <1>1, <1>2, <2>1 DEF Put, Tables
  <2> QED
    BY <1>1, <2>1, <2>2, EndsWaits
<1>7. CASE UpdateRanks(s)
  <2>1. PICK want : Goes(s, "ranked", want) /\ db' = db
    BY <1>7 DEF UpdateRanks
  <2>2. old.step = "rank"
    BY <1>1, <1>7 DEF UpdateRanks, At
  <2> QED
    BY <1>1, <1>2, <2>1, <2>2, GoesWaits
<1>8. CASE CompareSnapshot(s) /\ ~Finish(s, old.put)
  <2>1. PICK want : want = <<count, row>>
    OBVIOUS
  <2>2. Goes(s, "score", want) /\ db' = db /\ old.step = "compare"
    BY <1>1, <1>3, <1>8, <2>1 DEF CompareSnapshot, At
  <2>3. old.user \in User /\ old.user \in Nat
    <3>1. old.user \in User
      BY <1>2, <2>2 DEF InPlace, KindOf
    <3> QED
      BY <3>1, RecordAssumption
  <2>4. Climbs(want, 1, 5)
    <3>1. want \in Seq({count, row}) /\ DOMAIN want = {1, 2} /\ want[1] = count /\ want[2] = row
      BY <2>1
    <3>2. Before(count, row)
      BY <1>4 DEF Before
    <3> QED
      BY <1>4, <2>3, <3>1, <3>2 DEF Climbs, IsSeq
  <2> QED
    BY <1>1, <1>2, <2>2, <2>4, GoesWaits
<1>9. CASE CheckActivity(s) /\ ~Finish(s, old.put)
  <2>1. PICK want : want = <<row>>
    OBVIOUS
  <2>2. Goes(s, "reset", want) /\ db' = db /\ old.step = "check"
    BY <1>1, <1>3, <1>9, <2>1 DEF CheckActivity, At
  <2>3. old.user \in User /\ old.user \in Nat
    <3>1. old.user \in User
      BY <1>2, <2>2 DEF InPlace, KindOf
    <3> QED
      BY <3>1, RecordAssumption
  <2>4. Climbs(want, 1, 5)
    BY <1>4, <2>1, <2>3, FewClimb
  <2> QED
    BY <1>1, <1>2, <2>2, <2>4, GoesWaits
<1> QED
  BY <1>1, <1>5, <1>6, <1>7, <1>8, <1>9 DEF Ranked

\* A rotation awaits at most one level.
LEMMA RotationInPlace ==
    ASSUME NEW old, NEW tx, InPlace(old), Rotating(old), Rotating(tx), tx.kind = old.kind,
           tx.hold = old.hold, tx.tours = old.tours,
           tx.want = <<>> \/ \E l : tx.want = <<Exclusive(OfLevel(l))>>
    PROVE  InPlace(tx)
<1>1. KindOf(old.step) = "rotate" /\ KindOf(tx.step) = "rotate"
  BY DEF Rotating, KindOf
<1>2. tx.kind = "rotate" /\ \A lock \in tx.hold : Place(lock) \in 0..1
  BY <1>1 DEF InPlace
<1>3. /\ IsSeq(tx.want)
      /\ \A i \in DOMAIN tx.want : Place(tx.want[i]) = 1 /\ Within(tx.want[i]) = 0
  <2>1. CASE tx.want = <<>>
    <3>1. PICK none : none = <<>>
      OBVIOUS
    <3>2. DOMAIN none = {} /\ none \in Seq({})
      BY <3>1
    <3> QED
      BY <2>1, <3>1, <3>2 DEF IsSeq
  <2>2. ASSUME NEW l, tx.want = <<Exclusive(OfLevel(l))>>
        PROVE  /\ IsSeq(tx.want)
               /\ \A i \in DOMAIN tx.want : Place(tx.want[i]) = 1 /\ Within(tx.want[i]) = 0
    <3>1. PICK lock : lock = Exclusive(OfLevel(l))
      OBVIOUS
    <3>2. Place(lock) = 1 /\ Within(lock) = 0
      BY <3>1, PlacesAre
    <3>3. PICK want : want = <<lock>>
      OBVIOUS
    <3>4. IsSeq(want) /\ DOMAIN want = {1} /\ want[1] = lock
      BY <3>2, <3>3, FewClimb
    <3> QED
      BY <2>2, <3>1, <3>2, <3>3, <3>4
  <2> QED
    BY <2>1, <2>2
<1> QED
  BY <1>1, <1>2, <1>3 DEF InPlace

\* The steps of a rotation.
LEMMA RotationWaits ==
    ASSUME RecordInv, TourInv, WaitInv, NEW s \in Session,
           \/ NextUnfinished(s) \/ FinalizeTournament(s) \/ SelectLevel(s) \/ CreateTournament(s)
    PROVE  WaitInv'
<1>1. PICK old : old = txs[s]
  OBVIOUS
<1>2. PICK view : view = View(s)
  OBVIOUS
<1>3. Rotating(old) /\ InPlace(old) /\ old.want = <<>>
  BY <1>1 DEF NextUnfinished, FinalizeTournament, SelectLevel, CreateTournament, At, Rotating, WaitInv
<1>4. /\ DOMAIN old = Fields /\ DOMAIN old.put = Tables /\ DOMAIN txs = Session
      /\ Rotates(db, old) /\ \E own : old.tours = {own} /\ This(s) = own
  BY <1>1, <1>2, <1>3, RotationSees
<1>5. CASE NextUnfinished(s)
  <2>1. PICK t, l : /\ db' = db
                    /\ txs' = [txs EXCEPT ![s].step = "finalize", ![s].id = t,
                                          ![s].want = <<Exclusive(OfLevel(l))>>]
    BY <1>5 DEF NextUnfinished
  <2>2. PICK want : want = <<Exclusive(OfLevel(l))>>
    OBVIOUS
  <2>3. PICK tx : tx = [old EXCEPT !.step = "finalize", !.id = t, !.want = want]
    OBVIOUS
  <2>4. txs' = [txs EXCEPT ![s] = tx]
    BY <1>1, <1>4, <2>1, <2>2, <2>3 DEF Fields
  <2>5. /\ tx.step = "finalize" /\ tx.want = want /\ tx.hold = old.hold /\ tx.kind = old.kind
        /\ tx.tours = old.tours
    BY <1>4, <2>3 DEF Fields
  <2>6. Rotating(tx)
    BY <2>5 DEF Rotating
  <2>7. InPlace(tx)
    BY <1>3, <2>2, <2>5, <2>6, RotationInPlace
  <2> QED
    BY <2>1, <2>4, <2>7, OneTxWaits DEF WaitInv
<1>6. CASE FinalizeTournament(s)
  <2>1. PICK put : /\ db' = db
                   /\ txs' = [txs EXCEPT ![s].step = "unfinished", ![s].put = put]
    BY <1>6 DEF FinalizeTournament
  <2>2. PICK tx : tx = [old EXCEPT !.step = "unfinished", !.put = put]
    OBVIOUS
  <2>3. txs' = [txs EXCEPT ![s] = tx]
    BY <1>1, <1>4, <2>1, <2>2 DEF Fields
  <2>4. /\ tx.step = "unfinished" /\ tx.want = <<>> /\ tx.hold = old.hold /\ tx.kind = old.kind
        /\ tx.tours = old.tours
    BY <1>3, <1>4, <2>2 DEF Fields
  <2>5. Rotating(tx)
    BY <2>4 DEF Rotating
  <2>6. InPlace(tx)
    BY <1>3, <2>4, <2>5, RotationInPlace
  <2> QED
    BY <2>1, <2>3, <2>6, OneTxWaits DEF WaitInv
<1>7. CASE SelectLevel(s)
  <2>1. CASE Finish(s, txs[s].put)
    BY <2>1, EndsWaits
  <2>2. CASE ~Finish(s, txs[s].put)
    <3>1. PICK l : /\ db' = db
                   /\ txs' = [txs EXCEPT ![s].level = l, ![s].step = "create",
                                         ![s].want = <<Exclusive(OfLevel(l))>>]
      BY <1>7, <2>2 DEF SelectLevel
    <3>2. PICK want : want = <<Exclusive(OfLevel(l))>>
      OBVIOUS
    <3>3. PICK tx : tx = [old EXCEPT !.level = l, !.step = "create", !.want = want]
      OBVIOUS
    <3>4. txs' = [txs EXCEPT ![s] = tx]
      BY <1>1, <1>4, <3>1, <3>2, <3>3 DEF Fields
    <3>5. /\ tx.step = "create" /\ tx.want = want /\ tx.hold = old.hold /\ tx.kind = old.kind
          /\ tx.tours = old.tours
      BY <1>4, <3>3 DEF Fields
    <3>6. Rotating(tx)
      BY <3>5 DEF Rotating
    <3>7. InPlace(tx)
      BY <1>3, <3>2, <3>5, <3>6, RotationInPlace
    <3> QED
      BY <3>1, <3>4, <3>7, OneTxWaits DEF WaitInv
  <2> QED
    BY <2>1, <2>2
<1>8. CASE CreateTournament(s)
  <2>1. PICK row : row = Row(This(s), [level |-> old.level, final |-> FALSE])
    OBVIOUS
  <2>2. PICK put : put = Put(s, "tour", row)
    OBVIOUS
  <2>3. Finish(s, put)
    BY <1>1, <1>8, <2>1, <2>2 DEF CreateTournament
  <2>4. put.record = old.put.record /\ put.tour = Over(row, old.put.tour)
    BY <1>1, <1>4, <2>2 DEF Put, Tables
  <2>5. PICK own : old.tours = {own} /\ This(s) = own /\ own[1] \in Nat
    BY <1>3, <1>4 DEF InPlace
  <2>6. \A t \in DOMAIN put.tour : t = own \/ t \in DOMAIN db.tour
    BY <1>4, <2>1, <2>4, <2>5 DEF Over, Row, Rotates, Finalizes
  <2>7. \A t \in DOMAIN put.tour : t[1] \in Nat
    BY <2>5, <2>6 DEF WaitInv, Numbered
  <2> QED
    BY <1>1, <2>3, <2>4, <2>7, CommitWaits
<1> QED
  BY <1>5, <1>6, <1>7, <1>8

\* Every step.
LEMMA StepWaits ==
    ASSUME RecordInv, TourInv, WaitInv, [RecNext]_recVars
    PROVE  WaitInv'
<1>1. CASE UNCHANGED recVars \/ PeriodEnds
  <2>1. db' = db /\ txs' = txs
    BY <1>1 DEF recVars, PeriodEnds
  <2> QED
    BY <2>1 DEF WaitInv
<1>2. ASSUME NEW s \in Session, TxAbort(s) PROVE WaitInv'
  <2>1. db' = db /\ txs' = [txs EXCEPT ![s] = NoTx]
    BY <1>2 DEF TxAbort
  <2> QED
    BY <2>1, EndWaits DEF WaitInv
<1>3. CASE RecNext /\ ~PeriodEnds
  BY <1>2, <1>3, TakeLockWaits, StartWaits, InsertWaits, PutResultsWaits, RecheckWaits,
     WorldRecordWaits, ScoresWait, RotationWaits DEF RecNext
<1> QED
  BY <1>1, <1>3

\* Transactions take locks in one order.
THEOREM WaitInvariant == RecSpec => []WaitInv
<1>1. RecInit => WaitInv
  <2> SUFFICES ASSUME RecInit PROVE WaitInv
    OBVIOUS
  <2>1. db.record = <<>> /\ db.tour = <<>> /\ DOMAIN <<>> = {}
    BY DEF RecInit
  <2>2. PICK none : none = NoTx
    OBVIOUS
  <2>3. none.kind = "none" /\ none.step = "none" /\ none.want = <<>> /\ none.tours = {}
    BY <2>2 DEF NoTx
  <2>4. InPlace(none)
    BY <2>3 DEF InPlace, KindOf
  <2>5. \A s \in Session : txs[s] = none
    BY <2>2 DEF RecInit
  <2> QED
    BY <2>1, <2>4, <2>5 DEF WaitInv, Numbered
<1>2. RecordInv /\ TourInv /\ WaitInv /\ [RecNext]_recVars => WaitInv'
  BY StepWaits
<1> QED
  BY <1>1, <1>2, RecordInvariant, TournamentInvariant, PTL DEF RecSpec

-----------------------------------------------------------------------------
(* Nobody waits in a circle.                                               *)

\* Some number of a set is the least.
LEMMA LeastNat ==
    ASSUME NEW T, T \subseteq Nat, T # {}
    PROVE  \E n \in T : \A m \in T : n <= m
<1>1. PICK R : R = {ss \in Nat \X Nat : ss[1] < ss[2]}
  OBVIOUS
<1>2. IsWellFoundedOn(R, Nat)
  BY <1>1, NatLessThanWellFounded, Zenon DEF OpToRel
<1>3. \E n \in T : \A m \in T : ~(<<m, n>> \in R)
  BY <1>2, WFMin, Zenon
<1>4. \A m, n \in Nat : m < n => <<m, n>> \in R
  BY <1>1
<1>5. PICK n \in T : \A m \in T : ~(<<m, n>> \in R)
  BY <1>3
<1>6. ASSUME NEW m \in T PROVE n <= m
  <2>1. m \in Nat /\ n \in Nat
    OBVIOUS
  <2>2. ~(m < n)
    BY <1>4, <1>5, <2>1
  <2> QED
    BY <2>1, <2>2
<1> QED
  BY <1>6

\* The greatest of finitely many numbers.
Greatest(S, f, s) == s \in S /\ \A t \in S : f[t] <= f[s]

\* There is one: in a smallest set without, all the others have one.
LEMMA FiniteMax ==
    ASSUME NEW S, IsFiniteSet(S), S # {}, NEW f \in [S -> Nat]
    PROVE  \E s : Greatest(S, f, s)
<1> SUFFICES ASSUME ~ \E s : Greatest(S, f, s) PROVE FALSE
  OBVIOUS
<1>1. PICK without : without = {A \in SUBSET S : A # {} /\ ~ \E s : Greatest(A, f, s)}
  OBVIOUS
<1>2. \A A \in without : IsFiniteSet(A) /\ Cardinality(A) \in Nat
  BY <1>1, FS_Subset, FS_CardinalityType
<1>3. PICK T : T = {Cardinality(A) : A \in without}
  OBVIOUS
<1>4. T \subseteq Nat /\ T # {}
  <2>1. S \in without
    BY <1>1
  <2> QED
    BY <1>2, <1>3, <2>1
<1>5. PICK n \in T : \A m \in T : n <= m
  BY <1>4, LeastNat
<1>6. PICK A \in without : Cardinality(A) = n
  BY <1>3, <1>5
<1>7. A \subseteq S /\ A # {} /\ \A s : ~Greatest(A, f, s)
  BY <1>1, <1>6
<1>8. PICK a : a \in A
  BY <1>7
<1>9. PICK B : B = A \ {a}
  OBVIOUS
<1>10. Cardinality(B) = n - 1
  BY <1>2, <1>6, <1>8, <1>9, FS_RemoveElement
<1>11. B \notin without
  <2>1. n \in Nat
    BY <1>2, <1>6
  <2>2. ASSUME B \in without PROVE FALSE
    <3>1. n - 1 \in T
      BY <1>3, <1>10, <2>2
    <3>2. n <= n - 1
      BY <1>5, <3>1
    <3> QED
      BY <2>1, <3>2
  <2> QED
    BY <2>2
<1>12. CASE B = {}
  <2>1. A = {a} /\ f[a] \in Nat
    BY <1>7, <1>8, <1>9, <1>12
  <2>2. Greatest(A, f, a)
    BY <2>1 DEF Greatest
  <2> QED
    BY <1>7, <2>2
<1>13. CASE B # {}
  <2>1. PICK b : Greatest(B, f, b)
    BY <1>1, <1>7, <1>9, <1>11, <1>13
  <2>2. /\ b \in A /\ f[a] \in Nat /\ f[b] \in Nat
        /\ \A t \in A : f[t] \in Nat /\ (t = a \/ f[t] <= f[b])
    BY <1>7, <1>8, <1>9, <2>1 DEF Greatest
  <2>3. f[a] <= f[b] => Greatest(A, f, b)
    BY <2>2 DEF Greatest
  <2>4. f[b] <= f[a] => Greatest(A, f, a)
    BY <1>8, <2>2 DEF Greatest
  <2> QED
    BY <1>7, <2>2, <2>3, <2>4
<1> QED
  BY <1>12, <1>13

\* What a waiting transaction asks for comes after all it has.
LEMMA WantIs ==
    ASSUME WaitInv, NEW s \in Session, txs[s].want # <<>>, txs[s].kind # "rank",
           NEW want, want = Head(txs[s].want)
    PROVE  /\ Place(want) \in 1..5 /\ Within(want) \in Nat
           /\ txs[s].kind = "rotate" =>
                 Place(want) = 1 /\ \A lock \in txs[s].hold : Place(lock) \in 0..1
           /\ txs[s].kind # "rotate" => \A lock \in txs[s].hold : Before(lock, want)
<1>1. PICK tx : tx = txs[s]
  OBVIOUS
<1>2. InPlace(tx) /\ tx.want # <<>> /\ tx.kind # "rank"
  BY <1>1 DEF WaitInv
<1>3. tx.kind \in {"submit", "persist", "reset"} \/ tx.kind = "rotate"
  BY <1>2 DEF InPlace, KindOf
<1>4. CASE tx.kind = "rotate"
  <2>1. IsSeq(tx.want)
    BY <1>2, <1>4 DEF InPlace
  <2>2. 1 \in DOMAIN tx.want /\ want = tx.want[1]
    BY <1>1, <1>2, <2>1, TailClimbs
  <2>3. Place(want) = 1 /\ Within(want) = 0 /\ \A lock \in tx.hold : Place(lock) \in 0..1
    BY <1>2, <1>4, <2>2 DEF InPlace
  <2> QED
    BY <1>1, <1>4, <2>3
<1>5. CASE tx.kind \in {"submit", "persist", "reset"}
  <2>1. IsSeq(tx.want)
    BY <1>2, <1>5 DEF InPlace, Climbs
  <2>2. 1 \in DOMAIN tx.want /\ want = tx.want[1]
    BY <1>1, <1>2, <2>1, TailClimbs
  <2>3. Place(want) \in 1..Top(tx.step) /\ Within(want) \in Nat
    BY <1>2, <1>5, <2>2 DEF InPlace, Climbs
  <2>4. Top(tx.step) \in 0..5
    BY DEF Top
  <2>5. \A lock \in tx.hold : Before(lock, want)
    BY <1>2, <1>5, <2>2 DEF InPlace
  <2> QED
    BY <1>1, <1>5, <2>3, <2>4, <2>5
<1> QED
  BY <1>3, <1>4, <1>5

\* Of the transactions that wait in a circle, take one whose lock comes last.
LEMMA NoCircle ==
    ASSUME WaitInv, IsFiniteSet(Session), NEW set, set \subseteq Session, set # {},
           \A s \in set : \E t \in set : WaitsFor(s, t),
           \A s \in set : txs[s].kind # "rank",
           \A s, t \in set : txs[s].kind = "rotate" /\ txs[t].kind = "rotate" => s = t
    PROVE  FALSE
<1>1. PICK want : want = [s \in set |-> Head(txs[s].want)]
  OBVIOUS
<1>2. \A s \in set : txs[s].want # <<>> /\ want[s] = Head(txs[s].want)
  BY <1>1 DEF WaitsFor
<1>3. \A s \in set :
          /\ Place(want[s]) \in 1..5 /\ Within(want[s]) \in Nat
          /\ txs[s].kind = "rotate" =>
                Place(want[s]) = 1 /\ \A lock \in txs[s].hold : Place(lock) \in 0..1
          /\ txs[s].kind # "rotate" => \A lock \in txs[s].hold : Before(lock, want[s])
  <2> SUFFICES ASSUME NEW s \in set
               PROVE  /\ Place(want[s]) \in 1..5 /\ Within(want[s]) \in Nat
                      /\ txs[s].kind = "rotate" =>
                            Place(want[s]) = 1 /\ \A lock \in txs[s].hold : Place(lock) \in 0..1
                      /\ txs[s].kind # "rotate" => \A lock \in txs[s].hold : Before(lock, want[s])
    OBVIOUS
  <2>1. s \in Session /\ txs[s].want # <<>> /\ txs[s].kind # "rank" /\ want[s] = Head(txs[s].want)
    BY <1>2
  <2> QED
    BY <2>1, WantIs
<1>4. ASSUME NEW s \in set, NEW t \in set, WaitsFor(s, t)
      PROVE  \E lock \in txs[t].hold : Place(lock) = Place(want[s]) /\ Within(lock) = Within(want[s])
  <2>1. PICK lock \in txs[t].hold : lock[2] = want[s][2]
    BY <1>2, <1>4 DEF WaitsFor, Blocks
  <2> QED
    BY <2>1, SamePlace
<1>5. ASSUME NEW s \in set, NEW t \in set, WaitsFor(s, t), txs[t].kind # "rotate"
      PROVE  Before(want[s], want[t])
  BY <1>3, <1>4, <1>5 DEF Before
<1>6. PICK places : places = [s \in set |-> Place(want[s])]
  OBVIOUS
<1>7. IsFiniteSet(set) /\ places \in [set -> Nat]
  BY <1>3, <1>6, FS_Subset
<1>8. PICK top : Greatest(set, places, top)
  BY <1>7, FiniteMax
<1>9. PICK p : p = Place(want[top])
  OBVIOUS
<1>10. top \in set /\ p \in 1..5 /\ \A s \in set : Place(want[s]) <= p
  BY <1>3, <1>6, <1>8, <1>9 DEF Greatest
<1>11. PICK last : last = {s \in set : Place(want[s]) = p}
  OBVIOUS
<1>12. PICK within : within = [s \in last |-> Within(want[s])]
  OBVIOUS
<1>13. IsFiniteSet(last) /\ last # {} /\ within \in [last -> Nat]
  BY <1>3, <1>7, <1>9, <1>10, <1>11, <1>12, FS_Subset
<1>14. PICK s : Greatest(last, within, s)
  BY <1>13, FiniteMax
<1>15. /\ s \in set /\ Place(want[s]) = p
       /\ \A t \in set : Place(want[t]) = p => Within(want[t]) <= Within(want[s])
  BY <1>11, <1>12, <1>14 DEF Greatest
<1>16. PICK t \in set : WaitsFor(s, t)
  BY <1>15
<1>17. CASE txs[t].kind # "rotate"
  <2>1. Before(want[s], want[t])
    BY <1>5, <1>15, <1>16, <1>17
  <2> QED
    BY <1>3, <1>10, <1>15, <2>1 DEF Before
<1>18. CASE txs[t].kind = "rotate"
  <2>1. p = 1 /\ Place(want[t]) = 1
    BY <1>3, <1>4, <1>10, <1>15, <1>16, <1>18
  <2>2. PICK u \in set : WaitsFor(t, u)
    OBVIOUS
  <2>3. txs[u].kind # "rotate"
    BY <1>18, <2>2 DEF WaitsFor
  <2>4. Before(want[t], want[u])
    BY <1>5, <2>2, <2>3
  <2>5. Place(want[u]) = 1 /\ Within(want[t]) < Within(want[u])
    BY <1>3, <1>10, <2>1, <2>4 DEF Before
  <2>6. \A lock : Place(lock) = 1 => Within(lock) = 0
    BY DEF Place, Within
  <2> QED
    BY <2>1, <2>5, <2>6
<1> QED
  BY <1>17, <1>18

\* Transactions wait for one another in a circle only if a bulk update of ranks, or
\* the rotations of two types, are among them, for any number of sessions, users,
\* levels and types.
THEOREM NeverDeadlocked ==
    ASSUME IsFiniteSet(Session)
    PROVE  RecSpec => []NoDeadlock
<1>1. WaitInv => NoDeadlock
  BY NoCircle DEF NoDeadlock
<1> QED
  BY <1>1, WaitInvariant, PTL
=============================================================================
