-------------------------- MODULE RecordSubmission --------------------------
(***************************************************************************)
(* The transactions of packages/database that keep records, personal bests *)
(* and world records, the scores of users and the track tournaments:       *)
(* submitRecord, persistUserPointScore, updateUserRanks,                   *)
(* resetInactiveUserScores and rotateTrackTournament.                      *)
(*                                                                         *)
(* They run under READ COMMITTED and serialise themselves by advisory      *)
(* locks, each transaction by those it needs.  A transaction reads what is *)
(* committed and what it wrote itself; want lists the locks its next       *)
(* statement takes first, in order.  A step is one statement; or several,  *)
(* when between them nobody else can tell.                                 *)
(***************************************************************************)
EXTENDS Integers, Sequences, FiniteSets, SequencesExt

CONSTANTS
    Session,        \* database sessions
    User,           \* user ids
    Level,          \* levels
    Type,           \* tournament types
    Time,           \* times of records
    None,           \* no row
    MaxRecords,     \* bound: ids the sequence of record gives out
    MaxPeriod,      \* bound: tournament periods after the first
    Background      \* kinds of transactions, other than submissions, that run

Period == 0..MaxPeriod
Tour == Type \X Period
Kinds == {"submit", "persist", "rank", "reset", "rotate"}

ASSUME RecordAssumption ==
    /\ User \subseteq Nat /\ Type \subseteq Nat /\ Time \subseteq Nat
    /\ MaxRecords \in Nat /\ MaxPeriod \in Nat
    /\ Background \subseteq Kinds

VARIABLES
    db,         \* the committed rows
    txs,        \* session -> its transaction
    lastId,     \* the sequence of record.id, which no rollback takes back
    now         \* the tournament period the clock is in

recVars == <<db, txs, lastId, now>>

NoTx == [kind |-> "none", step |-> "none", user |-> None, level |-> None, time |-> None,
         at |-> None, id |-> None, faster |-> FALSE, tours |-> {},
         hold |-> {}, want |-> <<>>, put |-> [table \in DOMAIN db |-> <<>>]]

RecInit ==
    /\ db = [record |-> <<>>, best |-> <<>>, world |-> <<>>, wins |-> <<>>, score |-> <<>>,
             tour |-> <<>>, result |-> <<>>]
    /\ txs = [s \in Session |-> NoTx]
    /\ lastId = 0
    /\ now = 0

-----------------------------------------------------------------------------
(* Locks. *)

Exclusive(lock) == <<"exclusive", lock>>
Shared(lock) == <<"shared", lock>>

UserLevel(u, l) == <<"user-level", u, l>>
OfLevel(l) == <<"level", l>>
WorldRecord(l) == <<"world-record", l>>
WorldRecordCount(u) == <<"world-record-count", u>>
UserScore(u) == <<"user-score", u>>
TourType(type) == <<"tournament", type>>
TourResults(t) == <<"tournament-result", t>>
PointsRow(u) == <<"user_points", u>>

\* The users of a set in the order of their ids, in which everybody locks them.
ById(users) ==
    {order \in SetToSeqs(users) : \A i, j \in DOMAIN order : i < j => order[i] < order[j]}

CountLocks(order) == [i \in DOMAIN order |-> Exclusive(WorldRecordCount(order[i]))]
RowLocks(order) == [i \in DOMAIN order |-> Exclusive(PointsRow(order[i]))]

Blocks(t, want) ==
    \E held \in txs[t].hold : held[2] = want[2] /\ "exclusive" \in {held[1], want[1]}

WaitsFor(s, t) == s # t /\ txs[s].want # <<>> /\ Blocks(t, Head(txs[s].want))

-----------------------------------------------------------------------------
(* What a transaction reads and writes. *)

\* The rows of a table once some are written, and one row; TLC's @@ and :>,
\* which the prover does not know.
Over(rows, table) ==
    [k \in DOMAIN rows \cup DOMAIN table |-> IF k \in DOMAIN rows THEN rows[k] ELSE table[k]]

Row(k, row) == [x \in {k} |-> row]

View(s) == [table \in DOMAIN db |-> Over(txs[s].put[table], db[table])]

Put(s, table, rows) == [txs[s].put EXCEPT ![table] = Over(rows, @)]

\* The next statement of s is step, once it has the locks of want.
Goes(s, step, want) == txs' = [txs EXCEPT ![s].step = step, ![s].want = want]

At(s, step) == txs[s].step = step /\ txs[s].want = <<>>

TimeOf(view, r) == view.record[r].time

\* The row of table at key, if any, is of a record slower than time.
Beats(view, table, key, time) ==
    key \in DOMAIN view[table] => time < TimeOf(view, view[table][key])

\* recordWorldRecords.spec's count; every level has a level_item that is not
\* deleted.
Wins(view, u) ==
    Cardinality({l \in DOMAIN view.world : view.record[view.world[l]].user = u})

\* rerankTrackTournaments of one tournament.
Reranked(view, t) ==
    LET rows == {k \in DOMAIN view.result : k[1] = t}
        Faster(k) == {j \in rows : TimeOf(view, view.result[j].id) < TimeOf(view, view.result[k].id)}
    IN  [k \in rows |-> [view.result[k] EXCEPT !.rank = 1 + Cardinality(Faster(k))]]

-----------------------------------------------------------------------------
(* All transactions. *)

\* A transaction starts with its first lock; whoever waits for that one stands
\* in nobody's way.
Begin(s, lock, tx) ==
    /\ txs[s].kind = "none"
    /\ \A t \in Session : ~Blocks(t, lock)
    /\ txs' = [txs EXCEPT ![s] = [x \in DOMAIN @ |-> IF x = "hold" THEN {lock}
                                                     ELSE IF x \in DOMAIN tx THEN tx[x]
                                                     ELSE @[x]]]
    /\ UNCHANGED <<db, lastId, now>>

TakeLock(s) ==
    /\ txs[s].want # <<>>
    /\ \A t \in Session : ~WaitsFor(s, t)
    /\ txs' = [txs EXCEPT ![s].hold = @ \cup {Head(txs[s].want)}, ![s].want = Tail(@)]
    /\ UNCHANGED <<db, lastId, now>>

\* The last statement, and the commit.
Finish(s, put) ==
    /\ db' = [table \in DOMAIN db |-> Over(put[table], db[table])]
    /\ txs' = [txs EXCEPT ![s] = NoTx]
    /\ UNCHANGED <<lastId, now>>

\* The connection is lost, a statement times out, or the database picks this
\* transaction to break a deadlock.
TxAbort(s) ==
    /\ txs[s].kind # "none"
    /\ txs' = [txs EXCEPT ![s] = NoTx]
    /\ UNCHANGED <<db, lastId, now>>

-----------------------------------------------------------------------------
(* submitRecord. *)

\* The first lock, and clock_timestamp() beside it.
Submit(s, u, l, time) ==
    /\ lastId < MaxRecords
    /\ Begin(s, Exclusive(UserLevel(u, l)),
             [kind |-> "submit", user |-> u, level |-> l, time |-> time, at |-> now,
              step |-> "insert", want |-> <<Shared(OfLevel(l))>>])

\* The record of s is faster than the user's result in tournament t, if any.
Improves(s, t) ==
    LET view == View(s)
        k == <<t, txs[s].user>>
    IN  k \in DOMAIN view.result => txs[s].time < TimeOf(view, view.result[k].id)

\* The open tournaments whose result the record improves.
Improvable(s) ==
    LET view == View(s)
        tx == txs[s]
    IN  {t \in DOMAIN view.tour : /\ view.tour[t].level = tx.level
                                  /\ ~view.tour[t].final /\ t[2] = tx.at /\ Improves(s, t)}

\* The tournaments in one order for everybody, that of their types.
InOrder(tours) ==
    {open \in SetToSeqs(tours) : \A i, j \in DOMAIN open : i < j => open[i][1] < open[j][1]}

\* The world record lock, when the precheck saw no world record as fast.
ToWorldRecord(faster, l) == IF faster THEN <<Exclusive(WorldRecord(l))>> ELSE <<>>

\* Mutant: results are put without a lock.
ResultLocksNone(open) == <<>>

ResultLocks(open) == [i \in DOMAIN open |-> Exclusive(TourResults(open[i]))]

\* The record with its statistics and the personal best, which belong to the
\* holder of the first lock; then the precheck and the tournaments.
InsertRecord(s) ==
    /\ At(s, "insert")
    /\ lastId < MaxRecords
    /\ lastId' = lastId + 1
    /\ LET tx == txs[s]
           key == <<tx.user, tx.level>>
           put == Put(s, "record", Row(lastId', [user |-> tx.user, level |-> tx.level,
                                                 time |-> tx.time, at |-> tx.at]))
           faster == Beats(View(s), "world", tx.level, tx.time)
       IN  \E open \in InOrder(Improvable(s)) :
              txs' = [txs EXCEPT ![s].id = lastId',
                        ![s].put = IF Beats(View(s), "best", key, tx.time)
                                   THEN [put EXCEPT !.best = Row(key, lastId')] ELSE put,
                        ![s].faster = faster,
                        ![s].tours = Improvable(s),
                        ![s].step = IF open = <<>> THEN "recheck" ELSE "results",
                        ![s].want = IF open = <<>> THEN ToWorldRecord(faster, tx.level)
                                    ELSE ResultLocks(open)]
    /\ UNCHANGED <<db, now>>

\* The upsert of recordTrackTournamentResults, which only ever improves a
\* result, and the ranks.
PutResults(s) ==
    /\ At(s, "results")
    /\ LET tx == txs[s]
           changed == {t \in tx.tours : Improves(s, t)}
           rows == [k \in changed \X {tx.user} |-> [id |-> tx.id, rank |-> 1]]
           next == [View(s) EXCEPT !.result = Over(rows, @)]
           ranked == [k \in {j \in DOMAIN next.result : j[1] \in changed} |->
                         Reranked(next, k[1])[k]]
       IN  txs' = [txs EXCEPT ![s].put = Put(s, "result", ranked), ![s].step = "recheck",
                              ![s].want = ToWorldRecord(tx.faster, tx.level)]
    /\ UNCHANGED <<db, lastId, now>>

\* Mutant: the number of the user who loses the world record stays.
HoldersNew(s) == {txs[s].user}

\* Whose numbers of world records a new one changes.
Holders(s) ==
    LET view == View(s)
        l == txs[s].level
    IN  {txs[s].user}
          \cup IF l \in DOMAIN view.world THEN {view.record[view.world[l]].user} ELSE {}

\* Mutant: the world record is not compared under the lock.
RecheckNever(s) ==
    /\ At(s, "recheck")
    /\ IF txs[s].faster
       THEN /\ \E order \in ById(Holders(s)) :
                   Goes(s, "world", CountLocks(order) \o RowLocks(order))
            /\ UNCHANGED <<db, lastId, now>>
       ELSE Finish(s, txs[s].put)

\* Under the world record lock, if the precheck asked for it, the world record
\* is compared once more.
RecheckWorldRecord(s) ==
    /\ At(s, "recheck")
    /\ IF txs[s].faster /\ Beats(View(s), "world", txs[s].level, txs[s].time)
       THEN /\ \E order \in ById(Holders(s)) :
                   Goes(s, "world", CountLocks(order) \o RowLocks(order))
            /\ UNCHANGED <<db, lastId, now>>
       ELSE Finish(s, txs[s].put)

\* The world record and refreshUserWorldRecordCounts.
PutWorldRecord(s) ==
    /\ At(s, "world")
    /\ LET row == Row(txs[s].level, txs[s].id)
           next == [View(s) EXCEPT !.world = Over(row, @)]
           put == Put(s, "world", row)
       IN  Finish(s, [put EXCEPT !.wins = [u \in Holders(s) |-> Wins(next, u)]])

(* persistUserPointScore. *)

Persist(s, u) ==
    Begin(s, Exclusive(UserScore(u)), [kind |-> "persist", user |-> u, step |-> "compare"])

\* Mutant: the row is locked before the count.
CompareRowFirst(s) ==
    /\ At(s, "compare")
    /\ Goes(s, "score", <<Exclusive(PointsRow(txs[s].user)),
                          Exclusive(WorldRecordCount(txs[s].user))>>)
    /\ UNCHANGED <<db, lastId, now>>

\* The contributions the score was computed from are still those of the user,
\* or the transaction changes nothing.
CompareSnapshot(s) ==
    /\ At(s, "compare")
    /\ \/ Finish(s, txs[s].put)
       \/ /\ Goes(s, "score", <<Exclusive(WorldRecordCount(txs[s].user)),
                                Exclusive(PointsRow(txs[s].user))>>)
          /\ UNCHANGED <<db, lastId, now>>

PutScore(s) ==
    /\ At(s, "score")
    /\ LET u == txs[s].user
           put == Put(s, "wins", Row(u, Wins(View(s), u)))
       IN  Finish(s, [put EXCEPT !.score = Row(u, "scored")])

(* updateUserRanks and rankActiveUsersByPoints. *)

Rank(s) ==
    \E order \in ById(User) :
        LET locks == [i \in DOMAIN order |-> Exclusive(UserScore(order[i]))]
        IN  Begin(s, Head(locks), [kind |-> "rank", step |-> "rank", want |-> Tail(locks)])

\* One UPDATE of the users whose rank changes; it meets their rows in the order
\* of its plan.
UpdateRanks(s) ==
    /\ At(s, "rank")
    /\ \E changed \in SUBSET DOMAIN db.wins : \E order \in SetToSeqs(changed) :
          Goes(s, "ranked", RowLocks(order))
    /\ UNCHANGED <<db, lastId, now>>

Ranked(s) == At(s, "ranked") /\ Finish(s, txs[s].put)

(* resetInactiveUserScores, of one user. *)

Reset(s, u) ==
    Begin(s, Exclusive(UserScore(u)), [kind |-> "reset", user |-> u, step |-> "check"])

RecordsOf(view, u) == {r \in DOMAIN view.record : view.record[r].user = u}

\* Activity is rechecked under the lock; there may be no score to reset.
CheckActivity(s) ==
    LET u == txs[s].user
    IN  /\ At(s, "check")
        /\ IF RecordsOf(View(s), u) = {} /\ u \in DOMAIN View(s).score
           THEN /\ Goes(s, "reset", <<Exclusive(PointsRow(u))>>)
                /\ UNCHANGED <<db, lastId, now>>
           ELSE Finish(s, txs[s].put)

ResetScore(s) == At(s, "reset") /\ Finish(s, Put(s, "score", Row(txs[s].user, "reset")))

(* rotateTrackTournament, at a boundary. *)

Rotate(s, type) ==
    Begin(s, Exclusive(TourType(type)),
          [kind |-> "rotate", at |-> now, tours |-> {<<type, now>>}, step |-> "unfinished"])

This(s) == CHOOSE t \in txs[s].tours : TRUE

OfType(view, s) == {t \in DOMAIN view.tour : t[1] = This(s)[1]}

\* Mutant: submissions to the level go on meanwhile.
NextUnlocked(s) ==
    /\ At(s, "unfinished")
    /\ \E t \in OfType(View(s), s) :
          /\ t[2] < txs[s].at /\ ~View(s).tour[t].final
          /\ txs' = [txs EXCEPT ![s].step = "finalize", ![s].id = t]
    /\ UNCHANGED <<db, lastId, now>>

\* The next of the tournaments that have ended.
NextUnfinished(s) ==
    /\ At(s, "unfinished")
    /\ \E t \in OfType(View(s), s) :
          /\ t[2] < txs[s].at /\ ~View(s).tour[t].final
          /\ txs' = [txs EXCEPT ![s].step = "finalize", ![s].id = t,
                                ![s].want = <<Exclusive(OfLevel(View(s).tour[t].level))>>]
    /\ UNCHANGED <<db, lastId, now>>

FinalizeTournament(s) ==
    /\ At(s, "finalize")
    /\ LET t == txs[s].id
           put == Put(s, "result", Reranked(View(s), t))
           row == Row(t, [View(s).tour[t] EXCEPT !.final = TRUE])
       IN  txs' = [txs EXCEPT ![s].step = "unfinished",
                              ![s].put = [put EXCEPT !.tour = Over(row, @)]]
    /\ UNCHANGED <<db, lastId, now>>

\* selectTrackTournamentLevel picks a level no tournament of the type has had,
\* if the pool has one and this period no tournament.
SelectLevel(s) ==
    LET view == View(s)
        old == OfType(view, s)
    IN  /\ At(s, "unfinished")
        /\ \A t \in old : t[2] >= txs[s].at \/ view.tour[t].final
        /\ \/ Finish(s, txs[s].put)
           \/ /\ This(s) \notin old
              /\ \E l \in Level \ {view.tour[t].level : t \in old} :
                    txs' = [txs EXCEPT ![s].level = l, ![s].step = "create",
                                       ![s].want = <<Exclusive(OfLevel(l))>>]
              /\ UNCHANGED <<db, lastId, now>>

CreateTournament(s) ==
    /\ At(s, "create")
    /\ Finish(s, Put(s, "tour", Row(This(s), [level |-> txs[s].level, final |-> FALSE])))

PeriodEnds ==
    /\ now < MaxPeriod
    /\ now' = now + 1
    /\ UNCHANGED <<db, txs, lastId>>

-----------------------------------------------------------------------------

RecNext ==
    \/ \E s \in Session :
          \/ TakeLock(s)
          \/ TxAbort(s)
          \/ \E u \in User, l \in Level, time \in Time : Submit(s, u, l, time)
          \/ InsertRecord(s)
          \/ PutResults(s)
          \/ RecheckWorldRecord(s)
          \/ PutWorldRecord(s)
          \/ "persist" \in Background /\ \E u \in User : Persist(s, u)
          \/ CompareSnapshot(s)
          \/ PutScore(s)
          \/ "rank" \in Background /\ Rank(s)
          \/ UpdateRanks(s)
          \/ Ranked(s)
          \/ "reset" \in Background /\ \E u \in User : Reset(s, u)
          \/ CheckActivity(s)
          \/ ResetScore(s)
          \/ "rotate" \in Background /\ \E type \in Type : Rotate(s, type)
          \/ NextUnfinished(s)
          \/ FinalizeTournament(s)
          \/ SelectLevel(s)
          \/ CreateTournament(s)
    \/ PeriodEnds

RecSpec == RecInit /\ [][RecNext]_recVars

-----------------------------------------------------------------------------

RecTypeOK ==
    /\ DOMAIN db.record \subseteq 1..lastId
    /\ \A r \in DOMAIN db.record :
          db.record[r] \in [user : User, level : Level, time : Time, at : Period]
    /\ db.best \in [DOMAIN db.best -> DOMAIN db.record]
    /\ db.world \in [DOMAIN db.world -> DOMAIN db.record]
    /\ DOMAIN db.wins \subseteq User /\ DOMAIN db.score \subseteq DOMAIN db.wins
    /\ DOMAIN db.tour \subseteq Tour
    /\ DOMAIN db.result \subseteq (DOMAIN db.tour) \X User
    /\ \A s \in Session : txs[s].kind \in Kinds \cup {"none"}
    /\ lastId \in 0..MaxRecords
    /\ now \in Period

\* A level's world record is the fastest of its committed records, and a user's
\* personal best the fastest of theirs, however submissions overlap.
FastestOf(r, set) == r \in set /\ \A q \in set : TimeOf(db, r) <= TimeOf(db, q)

RecordsAreFastest ==
    \A r \in DOMAIN db.record :
        LET u == db.record[r].user
            l == db.record[r].level
        IN  /\ l \in DOMAIN db.world
            /\ FastestOf(db.world[l], {q \in DOMAIN db.record : db.record[q].level = l})
            /\ <<u, l>> \in DOMAIN db.best
            /\ FastestOf(db.best[<<u, l>>],
                         {q \in RecordsOf(db, u) : db.record[q].level = l})

\* user_points.world_records is the number of world records the user holds,
\* whichever of the transactions that write it come between one another.
WinsAccurate == \A u \in DOMAIN db.wins : db.wins[u] = Wins(db, u)

\* The ranks of a tournament are those of its times, ties sharing a rank, and a
\* result is of a record that was accepted in the tournament's period on its
\* level.
ResultsRanked ==
    \A k \in DOMAIN db.result :
        /\ db.result[k] = Reranked(db, k[1])[k]
        /\ LET r == db.record[db.result[k].id]
           IN  r.user = k[2] /\ r.at = k[1][2] /\ r.level = db.tour[k[1]].level

\* Once a tournament is finalized nothing about it changes, also not by a
\* submission that was accepted before its end and commits after it.
FinalStays ==
    [][\A t \in DOMAIN db.tour : db.tour[t].final =>
          /\ db'.tour[t] = db.tour[t]
          /\ \A u \in User : LET k == <<t, u>>
                             IN  /\ (k \in DOMAIN db'.result) = (k \in DOMAIN db.result)
                                 /\ k \in DOMAIN db.result => db'.result[k] = db.result[k]
      ]_recVars

\* Transactions that wait for one another in a circle: only a bulk update of
\* ranks, whose rows come in no order, or the rotations of two types, each on
\* its way to the other's level, can be among them.
NoDeadlock ==
    \A set \in (SUBSET Session) \ {{}} :
        (\A s \in set : \E t \in set : WaitsFor(s, t)) =>
            \/ \E s \in set : txs[s].kind = "rank"
            \/ \E s, t \in set : s # t /\ txs[s].kind = "rotate" /\ txs[t].kind = "rotate"

\* A user who has submitted a record is not reset as inactive.
ResetSparesActive ==
    [][\A u \in DOMAIN db'.score :
          db'.score[u] = "reset" /\ db.score[u] # "reset" => RecordsOf(db, u) = {}]_recVars
=============================================================================
