--------------------------- MODULE JobQueue_proofs ---------------------------
(* Theorems about JobQueue, for every value of its constants.              *)
EXTENDS JobQueue, TLAPS

-----------------------------------------------------------------------------
(* What the row updates do to a row.                                       *)

\* The delay of a retry is a number of ticks.
LEMMA RetryDelayNat ==
    ASSUME NEW a \in Nat \ {0}
    PROVE  RetryDelay(a) \in Nat
BY BoundAssumption DEF RetryDelay, Lesser

\* A row enqueue inserts is a row.
LEMMA NewRowType ==
    ASSUME NEW k \in Kind, NEW delay \in Nat, Len(log) + 1 \in Request
    PROVE  NewRow(k, delay) \in Row
<1>. DEFINE key == KeyOf[k]
            group == GroupOf[k]
            max == MaxAttempts[k]
            req == Len(log) + 1
<1>1. key \in {KeyOf[x] : x \in Kind} /\ group \in {GroupOf[x] : x \in Kind}
  OBVIOUS
<1>2. max \in Nat \ {0} /\ req \in Request /\ 0 \in 0..MaxSteps
  BY IdentityAssumption, BoundAssumption
<1>3. NewRow(k, delay) =
        [key |-> key, group |-> group, req |-> req, step |-> 0, max |-> max,
         attempts |-> 0, generation |-> 0, running |-> FALSE, lease |-> 0,
         vt |-> delay]
  BY DEF NewRow
<1>. HIDE DEF key, group, max, req
<1> QED BY <1>1, <1>2, <1>3 DEF Row

\* Coalescing replaces a row's payload and keeps its identity, attempts and lease.
LEMMA RenewedType ==
    ASSUME NEW r \in Row, NEW k \in Kind, Len(log) + 1 \in Request
    PROVE  /\ Renewed(r, k) \in Row
           /\ Renewed(r, k).running = r.running
           /\ Renewed(r, k).attempts = r.attempts
           /\ Renewed(r, k).key = r.key
           /\ Renewed(r, k).group = r.group
           /\ Renewed(r, k).lease = r.lease
           /\ Renewed(r, k).vt = r.vt
           /\ Renewed(r, k).generation = r.generation
           /\ Renewed(r, k).req = Len(log) + 1
<1>1. MaxAttempts[k] \in Nat \ {0} /\ 0 \in 0..MaxSteps
  BY IdentityAssumption, BoundAssumption
<1> QED BY <1>1 DEF Renewed, Row

\* A claim counts an attempt and a generation and leases the row.
LEMMA LeasedType ==
    ASSUME NEW r \in Row, NEW lag \in Lag
    PROVE  /\ Leased(r, lag) \in Row
           /\ Leased(r, lag).running = TRUE
           /\ Leased(r, lag).attempts = r.attempts + 1
           /\ Leased(r, lag).generation = r.generation + 1
           /\ Leased(r, lag).key = r.key
           /\ Leased(r, lag).group = r.group
           /\ Leased(r, lag).req = r.req
           /\ Leased(r, lag).vt = VT
           /\ Leased(r, lag).lease = VT + lag
<1>. DEFINE attempts == r.attempts + 1
            generation == r.generation + 1
            lease == VT + lag
<1>1. VT \in Nat /\ lag \in Nat
  BY BoundAssumption
<1>2. attempts \in Nat /\ generation \in Nat /\ lease \in Nat
  BY <1>1 DEF Row
<1>3. Leased(r, lag) = [r EXCEPT !.running = TRUE, !.attempts = attempts,
                                 !.generation = generation, !.vt = VT,
                                 !.lease = lease]
  BY DEF Leased
<1>. HIDE DEF attempts, generation, lease
<1>4. Leased(r, lag) \in Row
  BY <1>1, <1>2, <1>3 DEF Row
<1> QED BY <1>4 DEF Leased, Row

\* A heartbeat moves the lease and the visibility, and nothing else.
LEMMA ExtendedType ==
    ASSUME NEW r \in Row, NEW lag \in Lag
    PROVE  /\ Extended(r, lag) \in Row
           /\ Extended(r, lag).running = r.running
           /\ Extended(r, lag).attempts = r.attempts
           /\ Extended(r, lag).generation = r.generation
           /\ Extended(r, lag).key = r.key
           /\ Extended(r, lag).group = r.group
           /\ Extended(r, lag).req = r.req
           /\ Extended(r, lag).vt = VT + lag
           /\ Extended(r, lag).lease = VT
<1>. DEFINE vt == VT + lag
<1>1. VT \in Nat /\ vt \in Nat
  BY BoundAssumption
<1>2. Extended(r, lag) = [r EXCEPT !.lease = VT, !.vt = vt]
  BY DEF Extended
<1>. HIDE DEF vt
<1>3. Extended(r, lag) \in Row
  BY <1>1, <1>2 DEF Row
<1> QED BY <1>3 DEF Extended, Row

\* A checkpoint replaces the payload of a row and nothing else.
LEMMA ProgressedType ==
    ASSUME NEW r \in Row, NEW req \in Request, r.step < MaxSteps
    PROVE  /\ Progressed(r, req) \in Row
           /\ Progressed(r, req).running = r.running
           /\ Progressed(r, req).attempts = r.attempts
           /\ Progressed(r, req).generation = r.generation
           /\ Progressed(r, req).key = r.key
           /\ Progressed(r, req).group = r.group
           /\ Progressed(r, req).lease = r.lease
           /\ Progressed(r, req).vt = r.vt
           /\ Progressed(r, req).req = req
<1>. DEFINE step == r.step + 1
<1>1. step \in 0..MaxSteps
  BY BoundAssumption DEF Row
<1>2. Progressed(r, req) = [r EXCEPT !.req = req, !.step = step]
  BY DEF Progressed
<1>. HIDE DEF step
<1>3. Progressed(r, req) \in Row
  BY <1>1, <1>2 DEF Row
<1> QED BY <1>3 DEF Progressed, Row

\* A failed or deferred row is pending again, with its identity.
LEMMA ReturnedType ==
    ASSUME NEW r \in Row, NEW attempts \in Nat, NEW delay \in Nat
    PROVE  /\ Returned(r, attempts, delay) \in Row
           /\ Returned(r, attempts, delay).running = FALSE
           /\ Returned(r, attempts, delay).generation = r.generation
           /\ Returned(r, attempts, delay).key = r.key
           /\ Returned(r, attempts, delay).group = r.group
           /\ Returned(r, attempts, delay).req = r.req
           /\ Returned(r, attempts, delay).lease = 0
BY DEF Returned, Row

\* The passing of time only shortens the lease and the delay of a row.
LEMMA AgedType ==
    ASSUME NEW r \in Row
    PROVE  /\ Aged(r) \in Row
           /\ Aged(r).running = r.running
           /\ Aged(r).attempts = r.attempts
           /\ Aged(r).generation = r.generation
           /\ Aged(r).key = r.key
           /\ Aged(r).group = r.group
           /\ Aged(r).req = r.req
           /\ Aged(r).lease = Less(r.lease)
           /\ Aged(r).vt = Less(r.vt)
<1>. DEFINE lease == Less(r.lease)
            vt == Less(r.vt)
<1>1. lease \in Nat /\ vt \in Nat
  BY DEF Less, Row
<1>2. Aged(r) = [r EXCEPT !.lease = lease, !.vt = vt]
  BY DEF Aged
<1>. HIDE DEF lease, vt
<1>3. Aged(r) \in Row
  BY <1>1, <1>2 DEF Row
<1>4. Aged(r).lease = lease /\ Aged(r).vt = vt
  BY <1>1, <1>2 DEF Row
<1> QED BY <1>3, <1>4 DEF Aged, Row, lease, vt
-----------------------------------------------------------------------------
(* Type correctness.                                                       *)

\* Rows have ids below the next one.
LEMMA Ids ==
    ASSUME TypeOK
    PROVE  /\ Len(log) \in Nat
           /\ nextId \in Nat \ {0}
           /\ \A i \in DOMAIN job : i \in JobId /\ i < nextId
<1>1. Len(log) \in Nat /\ Len(log) <= MaxRequests
  BY DEF TypeOK, HistoryOK
<1>2. nextId \in 1..(Len(log) + 1) /\ DOMAIN job \subseteq 1..(nextId - 1)
  BY DEF TypeOK, RowsOK
<1>3. nextId \in Nat \ {0}
  BY <1>1, <1>2
<1>4. MaxRequests \in Nat
  BY BoundAssumption
<1>5. ASSUME NEW i \in DOMAIN job PROVE i \in JobId /\ i < nextId
  <2>1. i \in 1..(nextId - 1)
    BY <1>2
  <2> QED BY <1>1, <1>2, <1>4, <2>1 DEF JobId
<1> QED BY <1>1, <1>3, <1>5

\* One row replaced: Coalesce, Heartbeat, Checkpoint, FailRetry, DeferRetry.
LEMMA OneRowType ==
    ASSUME TypeOK, NEW i \in DOMAIN job, NEW r \in Row,
           r.running => r.attempts > 0,
           job' = [job EXCEPT ![i] = r], nextId' = nextId,
           Len(log') >= Len(log), Len(log') \in Nat
    PROVE  RowsOK'
<1>1. DOMAIN job' = DOMAIN job /\ job' \in [DOMAIN job -> Row]
  BY DEF TypeOK, RowsOK
<1>2. \A j \in DOMAIN job' : job'[j].running => job'[j].attempts > 0
  BY DEF TypeOK, RowsOK
<1>3. nextId' \in 1..(Len(log') + 1)
  BY Ids DEF TypeOK, RowsOK
<1> QED BY <1>1, <1>2, <1>3 DEF TypeOK, RowsOK

\* Rows deleted: FinishCompleted, FailExhausted, FailSuperseded, DeferSuperseded.
LEMMA WithoutType ==
    ASSUME TypeOK, NEW ids, job' = Without(ids), nextId' = nextId, log' = log
    PROVE  RowsOK'
<1>1. /\ DOMAIN job' = DOMAIN job \ ids
      /\ \A j \in DOMAIN job' : job'[j] = job[j]
  BY DEF Without
<1>2. job' \in [DOMAIN job' -> Row]
  BY <1>1 DEF TypeOK, RowsOK, Without
<1> QED BY <1>1, <1>2 DEF TypeOK, RowsOK

\* The empty queue has the types.
LEMMA InitType == Init => TypeOK
<1> SUFFICES ASSUME Init PROVE TypeOK
  OBVIOUS
<1>1. Len(log) = 0 /\ log \in Seq(Kind)
  BY DEF Init
<1>2. RowsOK
  BY <1>1 DEF Init, RowsOK
<1>3. HistoryOK
  BY <1>1, BoundAssumption DEF Init, HistoryOK
<1> QED BY <1>2, <1>3 DEF TypeOK

\* A request is appended to the log within its bound.
LEMMA LogGrows ==
    ASSUME TypeOK, NEW k \in Kind, Len(log) < MaxRequests, log' = Append(log, k)
    PROVE  /\ log' \in Seq(Kind)
           /\ Len(log') = Len(log) + 1
           /\ Len(log') <= MaxRequests
           /\ Len(log) + 1 \in Request
<1>1. log \in Seq(Kind) /\ Len(log) \in Nat
  BY Ids DEF TypeOK, HistoryOK
<1>2. log' \in Seq(Kind) /\ Len(log') = Len(log) + 1
  BY <1>1
<1>3. MaxRequests \in Nat
  BY BoundAssumption
<1> QED BY <1>1, <1>2, <1>3 DEF Request

\* enqueue preserves the types, coalescing or inserting.
LEMMA EnqueueType ==
    ASSUME TypeOK, NEW k \in Kind, NEW delay \in RunAt, Enqueue(k, delay)
    PROVE  TypeOK'
<1>1. /\ log' \in Seq(Kind)
      /\ Len(log') = Len(log) + 1
      /\ Len(log') <= MaxRequests
      /\ Len(log) + 1 \in Request
  BY LogGrows DEF Enqueue
<1>2. HistoryOK'
  BY <1>1 DEF Enqueue, TypeOK, HistoryOK
<1>3. CASE Coalesce(k)
  <2>1. PICK i \in DOMAIN job : job' = [job EXCEPT ![i] = Renewed(job[i], k)]
    BY <1>3 DEF Coalesce, Pending
  <2>2. job[i] \in Row /\ (job[i].running => job[i].attempts > 0)
    BY DEF TypeOK, RowsOK
  <2>3. /\ Renewed(job[i], k) \in Row
        /\ Renewed(job[i], k).running => Renewed(job[i], k).attempts > 0
    BY <1>1, <2>2, RenewedType
  <2>4. nextId' = nextId
    BY <1>3 DEF Coalesce
  <2>5. Len(log') >= Len(log) /\ Len(log') \in Nat
    BY <1>1, Ids
  <2>6. RowsOK'
    BY <2>1, <2>3, <2>4, <2>5, OneRowType
  <2> QED BY <1>2, <2>6 DEF TypeOK
<1>4. CASE Insert(k, delay)
  <2>1. NewRow(k, delay) \in Row /\ NewRow(k, delay).running = FALSE
    <3>1. delay \in Nat
      BY BoundAssumption
    <3>2. NewRow(k, delay) \in Row
      BY <1>1, <3>1, NewRowType
    <3> QED BY <3>2 DEF NewRow
  <2>2. DOMAIN job' = DOMAIN job \cup {nextId} /\ nextId' = nextId + 1
    BY <1>4 DEF Insert
  <2>3. \A j \in DOMAIN job' :
           job'[j] = IF j = nextId THEN NewRow(k, delay) ELSE job[j]
    BY <1>4 DEF Insert
  <2>4. job' \in [DOMAIN job' -> Row]
    <3>1. \A j \in DOMAIN job' : job'[j] \in Row
      BY <2>1, <2>2, <2>3 DEF TypeOK, RowsOK
    <3>2. job' = [j \in DOMAIN job' |-> job'[j]]
      BY <1>4 DEF Insert
    <3> QED BY <3>1, <3>2
  <2>5. \A j \in DOMAIN job' : job'[j].running => job'[j].attempts > 0
    BY <2>1, <2>2, <2>3 DEF TypeOK, RowsOK
  <2>6. nextId' \in 1..(Len(log') + 1)
    BY <1>1, <2>2, Ids DEF TypeOK, RowsOK
  <2>7. DOMAIN job' \subseteq 1..(nextId' - 1)
    BY <2>2, Ids DEF JobId
  <2> QED BY <1>2, <2>4, <2>5, <2>6, <2>7 DEF TypeOK, RowsOK
<1> QED BY <1>3, <1>4 DEF Enqueue

\* claim preserves the types, of the rows it grants and of those it archives.
LEMMA ClaimType ==
    ASSUME TypeOK, NEW count \in 1..Concurrency, Claim(count)
    PROVE  TypeOK'
<1>1. PICK granted \in SUBSET Selected(count), lag \in Lag :
        /\ IsGrant(granted, count)
        /\ job' = [i \in DOMAIN job \ Exhausted(granted, count) |->
                     IF i \in granted THEN Leased(job[i], lag) ELSE job[i]]
        /\ receipts' = receipts \cup
             {[id |-> i, generation |-> job[i].generation + 1,
               req |-> job[i].req] : i \in granted}
        /\ archive' = archive \cup {job[i].req : i \in Exhausted(granted, count)}
        /\ UNCHANGED <<nextId, log, done, defers>>
  BY DEF Claim
<1>2. granted \subseteq DOMAIN job /\ Exhausted(granted, count) \subseteq DOMAIN job
  BY DEF Exhausted, Selected, Firsts, Candidates
<1>3. \A i \in DOMAIN job : job[i] \in Row
  BY DEF TypeOK, RowsOK
<1>. DEFINE kept == DOMAIN job \ Exhausted(granted, count)
<1>4. /\ DOMAIN job' = kept
      /\ \A i \in kept :
            job'[i] = IF i \in granted THEN Leased(job[i], lag) ELSE job[i]
  BY <1>1
<1>5. \A i \in kept : job'[i] \in Row /\ (job'[i].running => job'[i].attempts > 0)
  <2>. SUFFICES ASSUME NEW i \in kept
                PROVE  job'[i] \in Row /\ (job'[i].running => job'[i].attempts > 0)
    OBVIOUS
  <2>1. job[i] \in Row /\ (job[i].running => job[i].attempts > 0)
    BY DEF TypeOK, RowsOK
  <2>2. job[i].attempts \in Nat
    BY <2>1 DEF Row
  <2>3. CASE i \in granted
    <3>1. job'[i] = Leased(job[i], lag)
      BY <1>4, <2>3
    <3>2. /\ Leased(job[i], lag) \in Row
          /\ Leased(job[i], lag).attempts = job[i].attempts + 1
      BY <2>1, LeasedType
    <3> QED BY <2>2, <3>1, <3>2
  <2>4. CASE i \notin granted
    BY <1>4, <2>1, <2>4
  <2> QED BY <2>3, <2>4
<1>6. job' \in [DOMAIN job' -> Row]
  <2>1. job' = [i \in DOMAIN job' |-> job'[i]]
    BY <1>1
  <2> QED BY <1>4, <1>5, <2>1
<1>7. RowsOK'
  BY <1>1, <1>4, <1>5, <1>6 DEF TypeOK, RowsOK
<1>8. receipts' \subseteq Receipt
  <2>1. \A i \in granted :
           [id |-> i, generation |-> job[i].generation + 1, req |-> job[i].req]
             \in Receipt
    <3>. SUFFICES ASSUME NEW i \in granted
                  PROVE  [id |-> i, generation |-> job[i].generation + 1,
                          req |-> job[i].req] \in Receipt
      OBVIOUS
    <3>1. i \in JobId
      BY <1>2, Ids
    <3>2. job[i].generation + 1 \in Nat /\ job[i].req \in Request
      BY <1>2, <1>3 DEF Row
    <3> QED BY <3>1, <3>2 DEF Receipt
  <2> QED BY <1>1, <2>1 DEF TypeOK, HistoryOK
<1>9. archive' \subseteq Request
  <2>1. \A i \in DOMAIN job : job[i].req \in Request
    BY <1>3 DEF Row
  <2> QED BY <1>1, <1>2, <2>1 DEF TypeOK, HistoryOK
<1> QED BY <1>1, <1>7, <1>8, <1>9 DEF TypeOK, HistoryOK

\* A receipt the queue honours names a running row of its generation.
LEMMA LiveRow ==
    ASSUME TypeOK, NEW c \in receipts, Live(c)
    PROVE  /\ c \in Receipt
           /\ c.id \in DOMAIN job
           /\ job[c.id] \in Row
           /\ job[c.id].running
           /\ job[c.id].attempts \in Nat \ {0}
           /\ job[c.id].req \in Request
<1>1. c.id \in DOMAIN job /\ job[c.id].running
  BY DEF Live, Active
<1>2. job[c.id] \in Row /\ job[c.id].attempts > 0
  BY <1>1 DEF TypeOK, RowsOK
<1>3. c \in Receipt
  BY DEF TypeOK, HistoryOK
<1> QED BY <1>1, <1>2, <1>3 DEF Row

\* heartbeat preserves the types.
LEMMA HeartbeatType ==
    ASSUME TypeOK, NEW c \in receipts, Heartbeat(c)
    PROVE  TypeOK'
<1>1. PICK lag \in Lag : job' = [job EXCEPT ![c.id] = Extended(job[c.id], lag)]
  BY DEF Heartbeat
<1>2. /\ c.id \in DOMAIN job
      /\ job[c.id] \in Row
      /\ job[c.id].attempts > 0
  BY LiveRow DEF Heartbeat
<1>3. Extended(job[c.id], lag) \in Row /\ Extended(job[c.id], lag).attempts > 0
  BY <1>2, ExtendedType
<1>4. UNCHANGED <<nextId, receipts, archive, log, done, defers>>
  BY DEF Heartbeat
<1>5. Len(log') >= Len(log) /\ Len(log') \in Nat
  BY <1>4, Ids
<1>6. RowsOK'
  BY <1>1, <1>2, <1>3, <1>4, <1>5, OneRowType
<1> QED BY <1>4, <1>6 DEF TypeOK, HistoryOK

\* checkpoint preserves the types.
LEMMA CheckpointType ==
    ASSUME TypeOK, NEW c \in receipts, Checkpoint(c)
    PROVE  TypeOK'
<1>1. job' = [job EXCEPT ![c.id] = Progressed(job[c.id], c.req)]
  BY DEF Checkpoint
<1>2. /\ c.id \in DOMAIN job
      /\ job[c.id] \in Row
      /\ job[c.id].attempts > 0
      /\ c.req \in Request
      /\ job[c.id].step < MaxSteps
  BY LiveRow DEF Checkpoint, Receipt
<1>3. /\ Progressed(job[c.id], c.req) \in Row
      /\ Progressed(job[c.id], c.req).attempts > 0
  BY <1>2, ProgressedType
<1>4. UNCHANGED <<nextId, receipts, archive, log, done, defers>>
  BY DEF Checkpoint
<1>5. Len(log') >= Len(log) /\ Len(log') \in Nat
  BY <1>4, Ids
<1>6. RowsOK'
  BY <1>1, <1>2, <1>3, <1>4, <1>5, OneRowType
<1> QED BY <1>4, <1>6 DEF TypeOK, HistoryOK

\* finish of a completed job preserves the types.
LEMMA FinishCompletedType ==
    ASSUME TypeOK, NEW c \in receipts, FinishCompleted(c)
    PROVE  TypeOK'
<1>1. c.req \in Request
  BY DEF TypeOK, HistoryOK, Receipt
<1>2. RowsOK'
  BY WithoutType DEF FinishCompleted
<1> QED BY <1>1, <1>2 DEF FinishCompleted, TypeOK, HistoryOK

\* Returning a row to pending keeps the rows' types.
LEMMA ReturnedRows ==
    ASSUME TypeOK, NEW c \in receipts, Live(c),
           NEW attempts \in Nat, NEW delay \in Nat,
           job' = [job EXCEPT ![c.id] = Returned(job[c.id], attempts, delay)],
           nextId' = nextId, log' = log
    PROVE  RowsOK'
<1>1. c.id \in DOMAIN job /\ job[c.id] \in Row
  BY LiveRow
<1>2. /\ Returned(job[c.id], attempts, delay) \in Row
      /\ Returned(job[c.id], attempts, delay).running = FALSE
  BY <1>1, ReturnedType
<1>3. Len(log') >= Len(log) /\ Len(log') \in Nat
  BY Ids
<1> QED BY <1>1, <1>2, <1>3, OneRowType

\* finish of a failed job preserves the types in each of its branches.
LEMMA FinishFailedType ==
    ASSUME TypeOK, NEW c \in receipts, FinishFailed(c)
    PROVE  TypeOK'
<1>1. Live(c) /\ nextId' = nextId /\ log' = log
  BY DEF FinishFailed
<1>2. job[c.id].req \in Request /\ job[c.id].attempts \in Nat \ {0}
  BY <1>1, LiveRow
<1>3. RowsOK' /\ archive' \subseteq Request
  <2>1. CASE FailExhausted(c)
    <3>1. RowsOK'
      BY <1>1, <2>1, WithoutType DEF FailExhausted
    <3> QED BY <1>2, <2>1, <3>1 DEF FailExhausted, TypeOK, HistoryOK
  <2>2. CASE FailSuperseded(c)
    <3>1. RowsOK'
      BY <1>1, <2>2, WithoutType DEF FailSuperseded
    <3> QED BY <2>2, <3>1 DEF FailSuperseded, TypeOK, HistoryOK
  <2>3. CASE FailRetry(c)
    <3>1. RetryDelay(job[c.id].attempts) \in Nat
      BY <1>2, RetryDelayNat
    <3>2. job' = [job EXCEPT ![c.id] =
                    Returned(job[c.id], job[c.id].attempts,
                             RetryDelay(job[c.id].attempts))]
      BY <2>3 DEF FailRetry
    <3>3. RowsOK'
      BY <1>1, <1>2, <3>1, <3>2, ReturnedRows
    <3> QED BY <2>3, <3>3 DEF FailRetry, TypeOK, HistoryOK
  <2> QED BY <2>1, <2>2, <2>3 DEF FinishFailed
<1> QED BY <1>3 DEF FinishFailed, TypeOK, HistoryOK

\* defer preserves the types in both of its branches.
LEMMA DeferType ==
    ASSUME TypeOK, NEW c \in receipts, Defer(c)
    PROVE  TypeOK'
<1>1. Live(c) /\ nextId' = nextId /\ log' = log
  BY DEF Defer
<1>2. RowsOK'
  <2>1. CASE DeferSuperseded(c)
    BY <1>1, <2>1, WithoutType DEF DeferSuperseded
  <2>2. CASE DeferRetry(c)
    <3>1. PICK delay \in DeferDelay :
            job' = [job EXCEPT ![c.id] =
                      Returned(job[c.id], Less(job[c.id].attempts), delay)]
      BY <2>2 DEF DeferRetry
    <3>2. delay \in Nat
      BY BoundAssumption
    <3>3. Less(job[c.id].attempts) \in Nat
      BY <1>1, LiveRow DEF Less
    <3> QED BY <1>1, <3>1, <3>2, <3>3, ReturnedRows
  <2> QED BY <2>1, <2>2 DEF Defer
<1>3. defers' \in 0..MaxDefers
  BY BoundAssumption DEF Defer, TypeOK, HistoryOK
<1> QED BY <1>2, <1>3 DEF Defer, TypeOK, HistoryOK

\* The passing of time preserves the types.
LEMMA TickType ==
    ASSUME TypeOK, Tick
    PROVE  TypeOK'
<1>1. /\ DOMAIN job' = DOMAIN job
      /\ \A i \in DOMAIN job : job'[i] = Aged(job[i])
  BY DEF Tick
<1>2. \A i \in DOMAIN job :
         job'[i] \in Row /\ (job'[i].running => job'[i].attempts > 0)
  BY <1>1, AgedType DEF TypeOK, RowsOK
<1>3. job' \in [DOMAIN job' -> Row]
  <2>1. job' = [i \in DOMAIN job' |-> job'[i]]
    BY DEF Tick
  <2> QED BY <1>1, <1>2, <2>1
<1>4. RowsOK'
  BY <1>1, <1>2, <1>3 DEF Tick, TypeOK, RowsOK
<1> QED BY <1>4 DEF Tick, TypeOK, HistoryOK

\* Forgetting receipts preserves the types.
LEMMA AbandonType ==
    ASSUME TypeOK, NEW cs, Abandon(cs)
    PROVE  TypeOK'
BY DEF Abandon, TypeOK, RowsOK, HistoryOK

\* Every step preserves the types.
LEMMA NextType ==
    ASSUME TypeOK, [Next]_vars
    PROVE  TypeOK'
<1>1. CASE \E k \in Kind, delay \in RunAt : Enqueue(k, delay)
  BY <1>1, EnqueueType
<1>2. CASE \E count \in 1..Concurrency : Claim(count)
  BY <1>2, ClaimType
<1>3. ASSUME NEW c \in receipts, Heartbeat(c) \/ Checkpoint(c) \/ Settle(c)
      PROVE  TypeOK'
  <2>1. CASE Abandon({c})
    BY <2>1, AbandonType
  <2> QED BY <1>3, <2>1, HeartbeatType, CheckpointType, FinishCompletedType,
             FinishFailedType, DeferType DEF Settle
<1>4. CASE \E cs \in SUBSET receipts : Abandon(cs)
  BY <1>4, AbandonType
<1>5. CASE Tick
  BY <1>5, TickType
<1>6. CASE UNCHANGED vars
  BY <1>6 DEF vars, TypeOK, RowsOK, HistoryOK
<1> QED BY <1>1, <1>2, <1>3, <1>4, <1>5, <1>6 DEF Next

\* Every reachable state of the queue is well typed.
THEOREM TypeCorrect == Spec => []TypeOK
<1>1. Init => TypeOK
  BY InitType
<1>2. TypeOK /\ [Next]_vars => TypeOK'
  BY NextType
<1> QED BY <1>1, <1>2, PTL DEF Spec

-----------------------------------------------------------------------------
(* What each step leaves of the rows.                                      *)

\* r and s are one row: a step changes neither its key, its group nor its run.
SameRun(r, s) ==
    /\ r.key = s.key
    /\ r.group = s.group
    /\ r.generation = s.generation

\* Coalescing changes one pending row of the key, and its payload only.
LEMMA CoalesceRows ==
    ASSUME TypeOK, NEW k \in Kind, Len(log) + 1 \in Request, Coalesce(k)
    PROVE  \E i \in Pending(KeyOf[k]) :
             /\ DOMAIN job' = DOMAIN job
             /\ job'[i].req = Len(log) + 1
             /\ \A j \in DOMAIN job : j # i => job'[j] = job[j]
             /\ \A j \in DOMAIN job :
                   /\ SameRun(job'[j], job[j])
                   /\ job'[j].running = job[j].running
                   /\ job'[j].lease = job[j].lease
                   /\ job'[j].vt = job[j].vt
<1>1. PICK i \in Pending(KeyOf[k]) : job' = [job EXCEPT ![i] = Renewed(job[i], k)]
  BY DEF Coalesce
<1>2. i \in DOMAIN job /\ job[i] \in Row
  BY DEF Pending, TypeOK, RowsOK
<1>3. /\ DOMAIN job' = DOMAIN job
      /\ job'[i] = Renewed(job[i], k)
      /\ \A j \in DOMAIN job : j # i => job'[j] = job[j]
  BY <1>1, <1>2
<1>4. /\ SameRun(job'[i], job[i])
      /\ job'[i].running = job[i].running
      /\ job'[i].lease = job[i].lease
      /\ job'[i].vt = job[i].vt
      /\ job'[i].req = Len(log) + 1
  <2>1. /\ Renewed(job[i], k).running = job[i].running
        /\ Renewed(job[i], k).key = job[i].key
        /\ Renewed(job[i], k).group = job[i].group
        /\ Renewed(job[i], k).lease = job[i].lease
        /\ Renewed(job[i], k).vt = job[i].vt
        /\ Renewed(job[i], k).generation = job[i].generation
        /\ Renewed(job[i], k).req = Len(log) + 1
    BY <1>2, RenewedType
  <2> QED BY <1>3, <2>1 DEF SameRun
<1> QED BY <1>3, <1>4 DEF SameRun

\* Inserting adds one row of a key that has no pending row.
LEMMA InsertRows ==
    ASSUME TypeOK, NEW k \in Kind, NEW delay \in RunAt, Insert(k, delay)
    PROVE  /\ Pending(KeyOf[k]) = {}
           /\ nextId' = nextId + 1
           /\ nextId \notin DOMAIN job
           /\ DOMAIN job' = DOMAIN job \cup {nextId}
           /\ \A j \in DOMAIN job : job'[j] = job[j]
           /\ job'[nextId] = NewRow(k, delay)
           /\ job'[nextId].key = KeyOf[k]
           /\ job'[nextId].group = GroupOf[k]
           /\ job'[nextId].req = Len(log) + 1
           /\ job'[nextId].running = FALSE
<1>1. nextId \notin DOMAIN job
  BY Ids
<1>2. job'[nextId] = NewRow(k, delay)
  BY DEF Insert
<1> QED BY <1>1, <1>2 DEF Insert, NewRow

\* The rows after a call that deletes the rows ids.
LEMMA WithoutRows ==
    ASSUME NEW ids, job' = Without(ids)
    PROVE  DOMAIN job' = DOMAIN job \ ids /\ \A j \in DOMAIN job' : job'[j] = job[j]
BY DEF Without

\* heartbeat changes the lease of one active row.
LEMMA HeartbeatRows ==
    ASSUME TypeOK, NEW c \in receipts, Heartbeat(c)
    PROVE  /\ c.id \in Active
           /\ DOMAIN job' = DOMAIN job
           /\ \A j \in DOMAIN job : j # c.id => job'[j] = job[j]
           /\ \A j \in DOMAIN job :
                 /\ SameRun(job'[j], job[j])
                 /\ job'[j].running = job[j].running
                 /\ job'[j].req = job[j].req
<1>1. PICK lag \in Lag : job' = [job EXCEPT ![c.id] = Extended(job[c.id], lag)]
  BY DEF Heartbeat
<1>2. c.id \in Active /\ c.id \in DOMAIN job /\ job[c.id] \in Row
  BY LiveRow DEF Heartbeat, Live
<1>3. /\ DOMAIN job' = DOMAIN job
      /\ job'[c.id] = Extended(job[c.id], lag)
      /\ \A j \in DOMAIN job : j # c.id => job'[j] = job[j]
  BY <1>1, <1>2
<1>4. /\ SameRun(job'[c.id], job[c.id])
      /\ job'[c.id].running = job[c.id].running
      /\ job'[c.id].req = job[c.id].req
  BY <1>2, <1>3, ExtendedType DEF SameRun
<1> QED BY <1>2, <1>3, <1>4 DEF SameRun

\* checkpoint changes the payload of one row.
LEMMA CheckpointRows ==
    ASSUME TypeOK, NEW c \in receipts, Checkpoint(c)
    PROVE  /\ DOMAIN job' = DOMAIN job
           /\ job'[c.id].req = c.req
           /\ \A j \in DOMAIN job : j # c.id => job'[j] = job[j]
           /\ \A j \in DOMAIN job :
                 /\ SameRun(job'[j], job[j])
                 /\ job'[j].running = job[j].running
                 /\ job'[j].lease = job[j].lease
                 /\ job'[j].vt = job[j].vt
<1>1. /\ c.id \in DOMAIN job
      /\ job[c.id] \in Row
      /\ c.req \in Request
      /\ job[c.id].step < MaxSteps
  BY LiveRow DEF Checkpoint, Receipt
<1>2. /\ DOMAIN job' = DOMAIN job
      /\ job'[c.id] = Progressed(job[c.id], c.req)
      /\ \A j \in DOMAIN job : j # c.id => job'[j] = job[j]
  BY <1>1 DEF Checkpoint
<1>3. /\ SameRun(job'[c.id], job[c.id])
      /\ job'[c.id].running = job[c.id].running
      /\ job'[c.id].lease = job[c.id].lease
      /\ job'[c.id].vt = job[c.id].vt
      /\ job'[c.id].req = c.req
  BY <1>1, <1>2, ProgressedType DEF SameRun
<1> QED BY <1>2, <1>3 DEF SameRun

\* Returning changes one running row, which becomes pending.
LEMMA ReturnedRow ==
    ASSUME TypeOK, NEW c \in receipts, Live(c),
           NEW attempts \in Nat, NEW delay \in Nat,
           job' = [job EXCEPT ![c.id] = Returned(job[c.id], attempts, delay)]
    PROVE  /\ c.id \in DOMAIN job
           /\ job[c.id].running
           /\ DOMAIN job' = DOMAIN job
           /\ \A j \in DOMAIN job : j # c.id => job'[j] = job[j]
           /\ SameRun(job'[c.id], job[c.id])
           /\ job'[c.id].req = job[c.id].req
           /\ job'[c.id].running = FALSE
<1>1. c.id \in DOMAIN job /\ job[c.id] \in Row /\ job[c.id].running
  BY LiveRow
<1>2. /\ DOMAIN job' = DOMAIN job
      /\ job'[c.id] = Returned(job[c.id], attempts, delay)
      /\ \A j \in DOMAIN job : j # c.id => job'[j] = job[j]
  BY <1>1
<1>3. /\ Returned(job[c.id], attempts, delay).running = FALSE
      /\ Returned(job[c.id], attempts, delay).generation = job[c.id].generation
      /\ Returned(job[c.id], attempts, delay).key = job[c.id].key
      /\ Returned(job[c.id], attempts, delay).group = job[c.id].group
      /\ Returned(job[c.id], attempts, delay).req = job[c.id].req
  BY <1>1, ReturnedType
<1> QED BY <1>1, <1>2, <1>3 DEF SameRun

\* A failed run either loses its row or gives it back to the pending ones.
LEMMA FailedRows ==
    ASSUME TypeOK, NEW c \in receipts, FinishFailed(c) \/ Defer(c)
    PROVE  /\ c.id \in DOMAIN job
           /\ job[c.id].running
           /\ UNCHANGED <<nextId, log, done>>
           /\ receipts' = receipts \ {c}
           /\ \/ /\ job' = Without({c.id})
                 /\ \/ archive' = archive \cup {job[c.id].req}
                    \/ UNCHANGED archive /\ Pending(job[c.id].key) # {}
              \/ /\ UNCHANGED archive
                 /\ Pending(job[c.id].key) = {}
                 /\ DOMAIN job' = DOMAIN job
                 /\ \A j \in DOMAIN job : j # c.id => job'[j] = job[j]
                 /\ SameRun(job'[c.id], job[c.id])
                 /\ job'[c.id].req = job[c.id].req
                 /\ job'[c.id].running = FALSE
<1>1. Live(c)
  BY DEF FinishFailed, Defer
<1>2. c.id \in DOMAIN job /\ job[c.id].running /\ job[c.id].attempts \in Nat \ {0}
  BY <1>1, LiveRow
<1>3. CASE FinishFailed(c)
  <2>1. CASE FailExhausted(c)
    BY <1>2, <1>3, <2>1 DEF FinishFailed, FailExhausted
  <2>2. CASE FailSuperseded(c)
    BY <1>2, <1>3, <2>2 DEF FinishFailed, FailSuperseded
  <2>3. CASE FailRetry(c)
    <3>. DEFINE delay == RetryDelay(job[c.id].attempts)
    <3>1. delay \in Nat /\ job[c.id].attempts \in Nat
      BY <1>2, RetryDelayNat
    <3>2. job' = [job EXCEPT ![c.id] =
                    Returned(job[c.id], job[c.id].attempts, delay)]
      BY <2>3 DEF FailRetry
    <3>. HIDE DEF delay
    <3>3. /\ DOMAIN job' = DOMAIN job
          /\ \A j \in DOMAIN job : j # c.id => job'[j] = job[j]
          /\ SameRun(job'[c.id], job[c.id])
          /\ job'[c.id].req = job[c.id].req
          /\ job'[c.id].running = FALSE
      BY <1>1, <3>1, <3>2, ReturnedRow
    <3> QED BY <1>2, <1>3, <2>3, <3>3 DEF FinishFailed, FailRetry
  <2> QED BY <1>3, <2>1, <2>2, <2>3 DEF FinishFailed
<1>4. CASE Defer(c)
  <2>1. CASE DeferSuperseded(c)
    BY <1>2, <1>4, <2>1 DEF Defer, DeferSuperseded
  <2>2. CASE DeferRetry(c)
    <3>1. PICK delay \in DeferDelay :
            job' = [job EXCEPT ![c.id] =
                      Returned(job[c.id], Less(job[c.id].attempts), delay)]
      BY <2>2 DEF DeferRetry
    <3>2. delay \in Nat /\ Less(job[c.id].attempts) \in Nat
      BY <1>2, BoundAssumption DEF Less
    <3>3. /\ DOMAIN job' = DOMAIN job
          /\ \A j \in DOMAIN job : j # c.id => job'[j] = job[j]
          /\ SameRun(job'[c.id], job[c.id])
          /\ job'[c.id].req = job[c.id].req
          /\ job'[c.id].running = FALSE
      BY <1>1, <3>1, <3>2, ReturnedRow
    <3> QED BY <1>2, <1>4, <2>2, <3>3 DEF Defer, DeferRetry
  <2> QED BY <1>4, <2>1, <2>2 DEF Defer
<1> QED BY <1>3, <1>4

\* The passing of time starts and ends no row, and revives no lease.
LEMMA TickRows ==
    ASSUME TypeOK, Tick
    PROVE  /\ DOMAIN job' = DOMAIN job
           /\ \A j \in DOMAIN job :
                 /\ SameRun(job'[j], job[j])
                 /\ job'[j].running = job[j].running
                 /\ job'[j].req = job[j].req
                 /\ job'[j].lease = Less(job[j].lease)
                 /\ job'[j].vt = Less(job[j].vt)
                 /\ job'[j].lease > 0 => job[j].lease > 0
<1>1. /\ DOMAIN job' = DOMAIN job
      /\ \A i \in DOMAIN job : job'[i] = Aged(job[i])
  BY DEF Tick
<1>2. \A i \in DOMAIN job : job[i] \in Row
  BY DEF TypeOK, RowsOK
<1>3. \A i \in DOMAIN job :
         /\ SameRun(job'[i], job[i])
         /\ job'[i].running = job[i].running
         /\ job'[i].req = job[i].req
         /\ job'[i].lease = Less(job[i].lease)
         /\ job'[i].vt = Less(job[i].vt)
  BY <1>1, <1>2, AgedType DEF SameRun
<1>4. \A i \in DOMAIN job : job'[i].lease > 0 => job[i].lease > 0
  BY <1>2, <1>3 DEF Less, Row
<1> QED BY <1>1, <1>3, <1>4

\* What claim does when it grants the rows granted.
ClaimEffect(granted, count) ==
    /\ IsGrant(granted, count)
    /\ granted \subseteq DOMAIN job
    /\ DOMAIN job' = DOMAIN job \ Exhausted(granted, count)
    /\ archive' = archive \cup {job[i].req : i \in Exhausted(granted, count)}
    /\ receipts' = receipts \cup
         {[id |-> i, generation |-> job[i].generation + 1,
           req |-> job[i].req] : i \in granted}
    /\ nextId' = nextId
    /\ log' = log
    /\ done' = done
    /\ \A i \in DOMAIN job' \ granted : job'[i] = job[i]
    /\ \A i \in granted :
          /\ i \in DOMAIN job'
          /\ job'[i].running = TRUE
          /\ job'[i].generation = job[i].generation + 1
          /\ job'[i].key = job[i].key
          /\ job'[i].group = job[i].group
          /\ job'[i].req = job[i].req
          /\ job'[i].vt = VT
          /\ \E lag \in Lag : job'[i].lease = VT + lag

\* What a claim does to the rows: granted ones run, exhausted ones go.
LEMMA ClaimRows ==
    ASSUME TypeOK, NEW count \in 1..Concurrency, Claim(count)
    PROVE  \E granted \in SUBSET Selected(count) : ClaimEffect(granted, count)
<1>1. PICK granted \in SUBSET Selected(count), lag \in Lag :
        /\ IsGrant(granted, count)
        /\ job' = [i \in DOMAIN job \ Exhausted(granted, count) |->
                     IF i \in granted THEN Leased(job[i], lag) ELSE job[i]]
        /\ receipts' = receipts \cup
             {[id |-> i, generation |-> job[i].generation + 1,
               req |-> job[i].req] : i \in granted}
        /\ archive' = archive \cup {job[i].req : i \in Exhausted(granted, count)}
        /\ UNCHANGED <<nextId, log, done, defers>>
  BY DEF Claim
<1>2. granted \subseteq DOMAIN job
  BY DEF Selected, Firsts, Candidates
<1>3. granted \cap Exhausted(granted, count) = {}
  BY <1>1 DEF IsGrant, Exhausted
<1>4. /\ DOMAIN job' = DOMAIN job \ Exhausted(granted, count)
      /\ \A i \in DOMAIN job' :
            job'[i] = IF i \in granted THEN Leased(job[i], lag) ELSE job[i]
  BY <1>1
<1>5. \A i \in granted :
         /\ i \in DOMAIN job'
         /\ job'[i].running = TRUE
         /\ job'[i].generation = job[i].generation + 1
         /\ job'[i].key = job[i].key
         /\ job'[i].group = job[i].group
         /\ job'[i].req = job[i].req
         /\ job'[i].vt = VT
         /\ job'[i].lease = VT + lag
  <2>. SUFFICES ASSUME NEW i \in granted
                PROVE  /\ i \in DOMAIN job'
                       /\ job'[i].running = TRUE
                       /\ job'[i].generation = job[i].generation + 1
                       /\ job'[i].key = job[i].key
                       /\ job'[i].group = job[i].group
                       /\ job'[i].req = job[i].req
                       /\ job'[i].vt = VT
                       /\ job'[i].lease = VT + lag
    OBVIOUS
  <2>1. job[i] \in Row
    BY <1>2 DEF TypeOK, RowsOK
  <2>2. i \in DOMAIN job' /\ job'[i] = Leased(job[i], lag)
    BY <1>2, <1>3, <1>4
  <2>3. /\ Leased(job[i], lag).running = TRUE
        /\ Leased(job[i], lag).generation = job[i].generation + 1
        /\ Leased(job[i], lag).key = job[i].key
        /\ Leased(job[i], lag).group = job[i].group
        /\ Leased(job[i], lag).req = job[i].req
        /\ Leased(job[i], lag).vt = VT
        /\ Leased(job[i], lag).lease = VT + lag
    BY <2>1, LeasedType
  <2> QED BY <2>2, <2>3
<1> QED BY <1>1, <1>2, <1>4, <1>5 DEF ClaimEffect

-----------------------------------------------------------------------------
(* One pending row per key, one valid lease per key and per group.          *)

\* Only inserting and returning make a row pending, and both look first.
LEMMA PendingUniqueStep ==
    ASSUME TypeOK, PendingUnique, [Next]_vars
    PROVE  PendingUnique'
<1>1. ASSUME DOMAIN job' \subseteq DOMAIN job,
             \A i \in DOMAIN job' : /\ job'[i].key = job[i].key
                                    /\ job[i].running => job'[i].running
      PROVE  PendingUnique'
  BY <1>1 DEF PendingUnique, SameKey
<1>2. ASSUME NEW k \in Kind, NEW delay \in RunAt, Enqueue(k, delay)
      PROVE  PendingUnique'
  <2>1. CASE Coalesce(k)
    <3>1. Len(log) + 1 \in Request
      BY <1>2, LogGrows DEF Enqueue
    <3> QED BY <1>1, <2>1, <3>1, CoalesceRows DEF SameRun
  <2>2. CASE Insert(k, delay)
    <3>1. /\ Pending(KeyOf[k]) = {}
          /\ DOMAIN job' = DOMAIN job \cup {nextId}
          /\ \A j \in DOMAIN job : job'[j] = job[j]
          /\ job'[nextId].key = KeyOf[k]
      BY <2>2, InsertRows
    <3> QED BY <3>1 DEF PendingUnique, Pending, SameKey
  <2> QED BY <1>2, <2>1, <2>2 DEF Enqueue
<1>3. ASSUME NEW count \in 1..Concurrency, Claim(count)
      PROVE  PendingUnique'
  BY <1>1, <1>3, ClaimRows DEF ClaimEffect
<1>4. ASSUME NEW c \in receipts, Heartbeat(c) \/ Checkpoint(c) \/ Settle(c)
      PROVE  PendingUnique'
  <2>1. CASE Heartbeat(c)
    BY <1>1, <2>1, HeartbeatRows DEF SameRun
  <2>2. CASE Checkpoint(c)
    BY <1>1, <2>2, CheckpointRows DEF SameRun
  <2>3. CASE FinishCompleted(c)
    BY <1>1, <2>3, WithoutRows DEF FinishCompleted
  <2>4. CASE FinishFailed(c) \/ Defer(c)
    <3>1. CASE job' = Without({c.id})
      BY <1>1, <3>1, WithoutRows
    <3>2. CASE /\ c.id \in DOMAIN job
               /\ Pending(job[c.id].key) = {}
               /\ DOMAIN job' = DOMAIN job
               /\ \A j \in DOMAIN job : j # c.id => job'[j] = job[j]
               /\ SameRun(job'[c.id], job[c.id])
      BY <3>2 DEF PendingUnique, Pending, SameKey, SameRun
    <3> QED BY <2>4, <3>1, <3>2, FailedRows
  <2>5. CASE Abandon({c})
    BY <1>1, <2>5 DEF Abandon
  <2> QED BY <1>4, <2>1, <2>2, <2>3, <2>4, <2>5 DEF Settle
<1>5. CASE Tick
  BY <1>1, <1>5, TickRows DEF SameRun
<1>6. ASSUME NEW cs \in SUBSET receipts, Abandon(cs)
      PROVE  PendingUnique'
  BY <1>1, <1>6 DEF Abandon
<1>7. CASE UNCHANGED vars
  BY <1>1, <1>7 DEF vars
<1> QED BY <1>2, <1>3, <1>4, <1>5, <1>6, <1>7 DEF Next

\* A request always finds at most one row to coalesce into.
THEOREM OnePendingRow == Spec => []PendingUnique
<1>1. Init => PendingUnique
  BY DEF Init, PendingUnique
<1>2. TypeOK /\ PendingUnique /\ [Next]_vars => PendingUnique'
  BY PendingUniqueStep
<1> QED BY <1>1, <1>2, TypeCorrect, PTL DEF Spec

\* Only a claim makes a row active, and its fence and choice exclude conflicts.
LEMMA ActiveExclusiveStep ==
    ASSUME TypeOK, ActiveExclusive, [Next]_vars
    PROVE  ActiveExclusive'
<1>1. ASSUME \A i \in Active' : /\ i \in Active
                                /\ job'[i].key = job[i].key
                                /\ job'[i].group = job[i].group
      PROVE  ActiveExclusive'
  BY <1>1 DEF ActiveExclusive, Conflict, SameKey, SameGroup
<1>2. ASSUME NEW k \in Kind, NEW delay \in RunAt, Enqueue(k, delay)
      PROVE  ActiveExclusive'
  <2>1. CASE Coalesce(k)
    <3>1. Len(log) + 1 \in Request
      BY <1>2, LogGrows DEF Enqueue
    <3> QED BY <1>1, <2>1, <3>1, CoalesceRows DEF SameRun, Active
  <2>2. CASE Insert(k, delay)
    BY <1>1, <2>2, InsertRows DEF Active
  <2> QED BY <1>2, <2>1, <2>2 DEF Enqueue
<1>3. ASSUME NEW count \in 1..Concurrency, Claim(count)
      PROVE  ActiveExclusive'
  <2>1. PICK granted \in SUBSET Selected(count) :
          /\ IsGrant(granted, count)
          /\ granted \subseteq DOMAIN job
          /\ DOMAIN job' \subseteq DOMAIN job
          /\ \A i \in DOMAIN job' \ granted : job'[i] = job[i]
          /\ \A i \in granted : /\ job'[i].key = job[i].key
                                /\ job'[i].group = job[i].group
    BY <1>3, ClaimRows DEF ClaimEffect
  <2>2. \A i, j \in DOMAIN job' : Conflict(i, j)' <=> Conflict(i, j)
    BY <2>1 DEF Conflict, SameKey, SameGroup
  <2>3. \A i \in Active' : i \in granted \/ i \in Active
    BY <2>1 DEF Active
  <2>4. \A i \in granted, a \in Active : ~Conflict(i, a) /\ ~Conflict(a, i)
    <3>1. \A i \in granted, a \in Active : ~Conflict(i, a)
      BY DEF Selected, Firsts, Candidates
    <3> QED BY <3>1 DEF Conflict, SameKey, SameGroup
  <2>5. \A i, j \in granted : ~Conflict(i, j)
    <3>1. \A i, j \in granted : j < i => ~Conflict(i, j)
      BY <2>1 DEF IsGrant, Fenced
    <3>2. \A i, j \in granted : Conflict(i, j) <=> Conflict(j, i)
      BY DEF Conflict, SameKey, SameGroup
    <3>3. \A i \in granted : i \in Int
      BY <2>1, Ids DEF JobId
    <3>4. \A i, j \in granted : i < j \/ j < i \/ i = j
      BY <3>3
    <3>5. \A i \in granted : ~Conflict(i, i)
      BY DEF Conflict
    <3> QED BY <3>1, <3>2, <3>4, <3>5
  <2>6. \A i, j \in Active' : ~Conflict(i, j)
    BY <2>3, <2>4, <2>5 DEF ActiveExclusive
  <2>7. Active' \subseteq DOMAIN job'
    BY DEF Active
  <2> QED BY <2>2, <2>6, <2>7 DEF ActiveExclusive
<1>4. ASSUME NEW c \in receipts, Heartbeat(c) \/ Checkpoint(c) \/ Settle(c)
      PROVE  ActiveExclusive'
  <2>1. CASE Heartbeat(c)
    BY <1>1, <2>1, HeartbeatRows DEF SameRun, Active
  <2>2. CASE Checkpoint(c)
    BY <1>1, <2>2, CheckpointRows DEF SameRun, Active
  <2>3. CASE FinishCompleted(c)
    BY <1>1, <2>3, WithoutRows DEF FinishCompleted, Active
  <2>4. CASE FinishFailed(c) \/ Defer(c)
    <3>1. CASE job' = Without({c.id})
      BY <1>1, <3>1, WithoutRows DEF Active
    <3>2. CASE /\ c.id \in DOMAIN job
               /\ DOMAIN job' = DOMAIN job
               /\ \A j \in DOMAIN job : j # c.id => job'[j] = job[j]
               /\ job'[c.id].running = FALSE
      BY <1>1, <3>2 DEF Active
    <3> QED BY <2>4, <3>1, <3>2, FailedRows
  <2>5. CASE Abandon({c})
    BY <1>1, <2>5 DEF Abandon, Active
  <2> QED BY <1>4, <2>1, <2>2, <2>3, <2>4, <2>5 DEF Settle
<1>5. CASE Tick
  BY <1>1, <1>5, TickRows DEF SameRun, Active
<1>6. ASSUME NEW cs \in SUBSET receipts, Abandon(cs)
      PROVE  ActiveExclusive'
  BY <1>1, <1>6 DEF Abandon, Active
<1>7. CASE UNCHANGED vars
  BY <1>1, <1>7 DEF vars, Active
<1> QED BY <1>2, <1>3, <1>4, <1>5, <1>6, <1>7 DEF Next

\* At any moment a key and a group have at most one row under a valid lease.
THEOREM OneLease == Spec => []ActiveExclusive
<1>1. Init => ActiveExclusive
  BY DEF Init, ActiveExclusive, Active
<1>2. TypeOK /\ ActiveExclusive /\ [Next]_vars => ActiveExclusive'
  BY ActiveExclusiveStep
<1> QED BY <1>1, <1>2, TypeCorrect, PTL DEF Spec

-----------------------------------------------------------------------------
(* Receipts: at most one of those that are held is still honoured per row,  *)
(* key and group.                                                          *)

\* A receipt's generation is one its row has reached, and receipts differ.
LEMMA ReceiptsIssuedStep ==
    ASSUME TypeOK, ReceiptsIssued, [Next]_vars
    PROVE  ReceiptsIssued'
<1>1. ASSUME receipts' \subseteq receipts, nextId' = nextId,
             DOMAIN job' \subseteq DOMAIN job,
             \A i \in DOMAIN job' : job'[i].generation = job[i].generation
      PROVE  ReceiptsIssued'
  BY <1>1 DEF ReceiptsIssued
<1>2. ASSUME NEW k \in Kind, NEW delay \in RunAt, Enqueue(k, delay)
      PROVE  ReceiptsIssued'
  <2>1. receipts' = receipts
    BY <1>2 DEF Enqueue
  <2>2. CASE Coalesce(k)
    <3>1. Len(log) + 1 \in Request
      BY <1>2, LogGrows DEF Enqueue
    <3>2. nextId' = nextId
      BY <2>2 DEF Coalesce
    <3> QED BY <1>1, <2>1, <2>2, <3>1, <3>2, CoalesceRows DEF SameRun
  <2>3. CASE Insert(k, delay)
    <3>1. /\ nextId' = nextId + 1
          /\ DOMAIN job' = DOMAIN job \cup {nextId}
          /\ \A j \in DOMAIN job : job'[j] = job[j]
      BY <2>3, InsertRows
    <3>2. \A c \in receipts : c.id \in Nat /\ c.id < nextId
      BY DEF ReceiptsIssued, TypeOK, HistoryOK, Receipt, JobId
    <3>3. nextId \in Nat
      BY Ids
    <3>4. \A c \in receipts : c.id < nextId' /\ c.id # nextId
      BY <3>1, <3>2, <3>3
    <3> QED BY <2>1, <3>1, <3>4 DEF ReceiptsIssued
  <2> QED BY <1>2, <2>2, <2>3 DEF Enqueue
<1>3. ASSUME NEW count \in 1..Concurrency, Claim(count)
      PROVE  ReceiptsIssued'
  <2>0. PICK granted \in SUBSET Selected(count) : ClaimEffect(granted, count)
    BY <1>3, ClaimRows
  <2>1. /\ granted \subseteq DOMAIN job
        /\ DOMAIN job' \subseteq DOMAIN job
        /\ nextId' = nextId
        /\ receipts' = receipts \cup
             {[id |-> i, generation |-> job[i].generation + 1,
               req |-> job[i].req] : i \in granted}
        /\ \A i \in DOMAIN job' \ granted : job'[i] = job[i]
        /\ \A i \in granted : job'[i].generation = job[i].generation + 1
    BY <2>0 DEF ClaimEffect
  <2>2. \A i \in DOMAIN job : job[i].generation \in Nat /\ i < nextId
    BY Ids DEF TypeOK, RowsOK, Row
  <2>3. \A c \in receipts : c.generation \in Nat
    BY DEF TypeOK, HistoryOK, Receipt
  <2>4. \A c \in receipts' :
           \/ c \in receipts
           \/ /\ c.id \in granted
              /\ c = [id |-> c.id, generation |-> job[c.id].generation + 1,
                      req |-> job[c.id].req]
    BY <2>1
  <2>5. \A c \in receipts' :
           /\ c.id < nextId'
           /\ c.id \in DOMAIN job' => c.generation <= job'[c.id].generation
    <3>. SUFFICES ASSUME NEW c \in receipts'
                  PROVE  /\ c.id < nextId'
                         /\ c.id \in DOMAIN job' =>
                              c.generation <= job'[c.id].generation
      OBVIOUS
    <3>1. CASE c \in receipts
      <4>1. /\ c.id < nextId
            /\ c.id \in DOMAIN job => c.generation <= job[c.id].generation
        BY <3>1 DEF ReceiptsIssued
      <4> QED BY <2>1, <2>2, <2>3, <3>1, <4>1
    <3>2. CASE /\ c.id \in granted
               /\ c = [id |-> c.id, generation |-> job[c.id].generation + 1,
                       req |-> job[c.id].req]
      <4>1. c.generation = job[c.id].generation + 1
        BY <3>2
      <4> QED BY <2>1, <2>2, <3>2, <4>1
    <3> QED BY <2>4, <3>1, <3>2
  <2>6. ASSUME NEW c \in receipts', NEW d \in receipts',
               c.id = d.id, c.generation = d.generation
        PROVE  c = d
    <3>1. ASSUME NEW x \in receipts, NEW y \in receipts', y.id \in granted,
                 y.generation = job[y.id].generation + 1
          PROVE  ~(x.id = y.id /\ x.generation = y.generation)
      <4>1. x.id \in DOMAIN job => x.generation <= job[x.id].generation
        BY DEF ReceiptsIssued
      <4> QED BY <2>1, <2>2, <2>3, <3>1, <4>1
    <3>2. CASE c \in receipts /\ d \in receipts
      BY <2>6, <3>2 DEF ReceiptsIssued
    <3>3. CASE c \in receipts /\ d \notin receipts
      BY <2>4, <2>6, <3>1, <3>3
    <3>4. CASE c \notin receipts /\ d \in receipts
      BY <2>4, <2>6, <3>1, <3>4
    <3>5. CASE c \notin receipts /\ d \notin receipts
      BY <2>4, <2>6, <3>5
    <3> QED BY <3>2, <3>3, <3>4, <3>5
  <2> QED BY <2>5, <2>6 DEF ReceiptsIssued
<1>4. ASSUME NEW c \in receipts, Heartbeat(c) \/ Checkpoint(c) \/ Settle(c)
      PROVE  ReceiptsIssued'
  <2>1. CASE Heartbeat(c)
    BY <1>1, <2>1, HeartbeatRows DEF SameRun, Heartbeat
  <2>2. CASE Checkpoint(c)
    BY <1>1, <2>2, CheckpointRows DEF SameRun, Checkpoint
  <2>3. CASE FinishCompleted(c)
    BY <1>1, <2>3, WithoutRows DEF FinishCompleted
  <2>4. CASE FinishFailed(c) \/ Defer(c)
    <3>1. receipts' \subseteq receipts /\ nextId' = nextId
      BY <2>4, FailedRows
    <3>2. CASE job' = Without({c.id})
      BY <1>1, <3>1, <3>2, WithoutRows
    <3>3. CASE /\ c.id \in DOMAIN job
               /\ DOMAIN job' = DOMAIN job
               /\ \A j \in DOMAIN job : j # c.id => job'[j] = job[j]
               /\ SameRun(job'[c.id], job[c.id])
      BY <1>1, <3>1, <3>3 DEF SameRun
    <3> QED BY <2>4, <3>2, <3>3, FailedRows
  <2>5. CASE Abandon({c})
    BY <1>1, <2>5 DEF Abandon
  <2> QED BY <1>4, <2>1, <2>2, <2>3, <2>4, <2>5 DEF Settle
<1>5. CASE Tick
  BY <1>1, <1>5, TickRows DEF SameRun, Tick
<1>6. ASSUME NEW cs \in SUBSET receipts, Abandon(cs)
      PROVE  ReceiptsIssued'
  BY <1>1, <1>6 DEF Abandon
<1>7. CASE UNCHANGED vars
  BY <1>1, <1>7 DEF vars
<1> QED BY <1>2, <1>3, <1>4, <1>5, <1>6, <1>7 DEF Next

\* Receipts are issued by claims, in every reachable state.
LEMMA ReceiptInvariant == Spec => []ReceiptsIssued
<1>1. Init => ReceiptsIssued
  BY DEF Init, ReceiptsIssued
<1>2. TypeOK /\ ReceiptsIssued /\ [Next]_vars => ReceiptsIssued'
  BY ReceiptsIssuedStep
<1> QED BY <1>1, <1>2, TypeCorrect, PTL DEF Spec

\* However many workers still act on an old claim, at most one of them can have
\* its answer for a row, a key or a group accepted.
THEOREM OneHonouredReceipt == Spec => []LiveReceiptsExclusive
<1>1. ReceiptsIssued /\ ActiveExclusive => LiveReceiptsExclusive
  BY DEF ReceiptsIssued, ActiveExclusive, LiveReceiptsExclusive, Live
<1> QED BY <1>1, ReceiptInvariant, OneLease, PTL

-----------------------------------------------------------------------------
(* No request is lost when the clock readings of a call agree and a key     *)
(* decides its group.                                                      *)

\* A new request comes after all the others.
LEMMA LogFacts ==
    ASSUME TypeOK, NEW k \in Kind, NEW delay \in RunAt, Enqueue(k, delay)
    PROVE  /\ Len(log) \in Nat
           /\ Len(log) + 1 \in Request
           /\ DOMAIN log = 1..Len(log)
           /\ DOMAIN log' = DOMAIN log \cup {Len(log) + 1}
           /\ log'[Len(log) + 1] = k
           /\ \A n \in DOMAIN log : log'[n] = log[n]
<1>1. log \in Seq(Kind) /\ Len(log) \in Nat /\ log' = Append(log, k)
  BY Ids DEF TypeOK, HistoryOK, Enqueue
<1>2. DOMAIN log = 1..Len(log)
  BY <1>1
<1>3. DOMAIN log' = 1..(Len(log) + 1)
  BY <1>1
<1>4. log'[Len(log) + 1] = k /\ \A n \in DOMAIN log : log'[n] = log[n]
  BY <1>1, <1>2
<1>5. Len(log) + 1 \in Request
  BY LogGrows DEF Enqueue
<1>6. DOMAIN log' = DOMAIN log \cup {Len(log) + 1}
  BY <1>1, <1>2, <1>3
<1> QED BY <1>1, <1>2, <1>4, <1>5, <1>6

\* A row carries a request of its own key and group.
LEMMA PayloadsLoggedStep ==
    ASSUME TypeOK, ReceiptPayloads, PayloadsLogged, KeyDecidesGroup, [Next]_vars
    PROVE  PayloadsLogged'
<1>1. ASSUME log' = log, DOMAIN job' \subseteq DOMAIN job,
             \A i \in DOMAIN job' : /\ job'[i].req = job[i].req
                                    /\ job'[i].key = job[i].key
                                    /\ job'[i].group = job[i].group
      PROVE  PayloadsLogged'
  BY <1>1 DEF PayloadsLogged
<1>2. ASSUME NEW k \in Kind, NEW delay \in RunAt, Enqueue(k, delay)
      PROVE  PayloadsLogged'
  <2>1. /\ Len(log) + 1 \in Request
        /\ DOMAIN log' = DOMAIN log \cup {Len(log) + 1}
        /\ log'[Len(log) + 1] = k
        /\ \A n \in DOMAIN log : log'[n] = log[n]
    BY <1>2, LogFacts
  <2>2. CASE Coalesce(k)
    <3>1. PICK i \in Pending(KeyOf[k]) :
            /\ DOMAIN job' = DOMAIN job
            /\ job'[i].req = Len(log) + 1
            /\ \A j \in DOMAIN job : j # i => job'[j] = job[j]
            /\ \A j \in DOMAIN job : SameRun(job'[j], job[j])
      BY <2>1, <2>2, CoalesceRows
    <3>2. /\ i \in DOMAIN job
          /\ job[i].key = KeyOf[k]
          /\ KeyOf[k] # NoKey
      BY DEF Pending
    <3>3. job[i].group = GroupOf[k]
      <4>1. /\ job[i].key = KeyOf[log[job[i].req]]
            /\ job[i].group = GroupOf[log[job[i].req]]
            /\ log[job[i].req] \in Kind
        BY <3>2 DEF PayloadsLogged, TypeOK, HistoryOK
      <4> QED BY <3>2, <4>1 DEF KeyDecidesGroup
    <3>4. job'[i].key = KeyOf[k] /\ job'[i].group = GroupOf[k]
      BY <3>1, <3>2, <3>3 DEF SameRun
    <3> QED BY <2>1, <3>1, <3>4 DEF PayloadsLogged
  <2>3. CASE Insert(k, delay)
    <3>1. /\ DOMAIN job' = DOMAIN job \cup {nextId}
          /\ \A j \in DOMAIN job : job'[j] = job[j]
          /\ job'[nextId].key = KeyOf[k]
          /\ job'[nextId].group = GroupOf[k]
          /\ job'[nextId].req = Len(log) + 1
      BY <2>3, InsertRows
    <3> QED BY <2>1, <3>1 DEF PayloadsLogged
  <2> QED BY <1>2, <2>2, <2>3 DEF Enqueue
<1>3. ASSUME NEW count \in 1..Concurrency, Claim(count)
      PROVE  PayloadsLogged'
  <2>1. PICK granted \in SUBSET Selected(count) : ClaimEffect(granted, count)
    BY <1>3, ClaimRows
  <2> QED BY <1>1, <2>1 DEF ClaimEffect
<1>4. ASSUME NEW c \in receipts, Heartbeat(c) \/ Checkpoint(c) \/ Settle(c)
      PROVE  PayloadsLogged'
  <2>1. CASE Heartbeat(c)
    BY <1>1, <2>1, HeartbeatRows DEF SameRun, Heartbeat
  <2>2. CASE Checkpoint(c)
    <3>1. job[c.id].req = c.req
      BY <2>2, LiveRow DEF Checkpoint, ReceiptPayloads, Live, Active
    <3>2. c.id \in DOMAIN job
      BY <2>2, LiveRow DEF Checkpoint
    <3>3. \A j \in DOMAIN job : job'[j].req = job[j].req
      BY <2>2, <3>1, <3>2, CheckpointRows
    <3> QED BY <1>1, <2>2, <3>3, CheckpointRows DEF SameRun, Checkpoint
  <2>3. CASE FinishCompleted(c)
    BY <1>1, <2>3, WithoutRows DEF FinishCompleted
  <2>4. CASE FinishFailed(c) \/ Defer(c)
    <3>1. log' = log
      BY <2>4, FailedRows
    <3>2. CASE job' = Without({c.id})
      BY <1>1, <3>1, <3>2, WithoutRows
    <3>3. CASE /\ c.id \in DOMAIN job
               /\ DOMAIN job' = DOMAIN job
               /\ \A j \in DOMAIN job : j # c.id => job'[j] = job[j]
               /\ SameRun(job'[c.id], job[c.id])
               /\ job'[c.id].req = job[c.id].req
      BY <1>1, <3>1, <3>3 DEF SameRun
    <3> QED BY <2>4, <3>2, <3>3, FailedRows
  <2>5. CASE Abandon({c})
    BY <1>1, <2>5 DEF Abandon
  <2> QED BY <1>4, <2>1, <2>2, <2>3, <2>4, <2>5 DEF Settle
<1>5. CASE Tick
  BY <1>1, <1>5, TickRows DEF SameRun, Tick
<1>6. ASSUME NEW cs \in SUBSET receipts, Abandon(cs)
      PROVE  PayloadsLogged'
  BY <1>1, <1>6 DEF Abandon
<1>7. CASE UNCHANGED vars
  BY <1>1, <1>7 DEF vars
<1> QED BY <1>2, <1>3, <1>4, <1>5, <1>6, <1>7 DEF Next

\* A receipt that is honoured carries its row's payload.
LEMMA ReceiptPayloadsStep ==
    ASSUME TypeOK, ReceiptsIssued, ReceiptPayloads, [Next]_vars
    PROVE  ReceiptPayloads'
<1>1. ASSUME receipts' \subseteq receipts, DOMAIN job' \subseteq DOMAIN job,
             \A i \in DOMAIN job' :
                /\ job'[i].generation = job[i].generation
                /\ job'[i].running => job[i].running /\ job'[i].req = job[i].req
      PROVE  ReceiptPayloads'
  BY <1>1 DEF ReceiptPayloads
<1>2. ASSUME NEW k \in Kind, NEW delay \in RunAt, Enqueue(k, delay)
      PROVE  ReceiptPayloads'
  <2>1. receipts' = receipts
    BY <1>2 DEF Enqueue
  <2>2. CASE Coalesce(k)
    <3>1. Len(log) + 1 \in Request
      BY <1>2, LogFacts
    <3>2. PICK i \in Pending(KeyOf[k]) :
            /\ DOMAIN job' = DOMAIN job
            /\ \A j \in DOMAIN job : j # i => job'[j] = job[j]
            /\ \A j \in DOMAIN job : /\ SameRun(job'[j], job[j])
                                     /\ job'[j].running = job[j].running
      BY <2>2, <3>1, CoalesceRows
    <3>3. ~job[i].running
      BY DEF Pending
    <3> QED BY <1>1, <2>1, <3>2, <3>3 DEF SameRun
  <2>3. CASE Insert(k, delay)
    BY <2>1, <2>3, InsertRows DEF ReceiptPayloads
  <2> QED BY <1>2, <2>2, <2>3 DEF Enqueue
<1>3. ASSUME NEW count \in 1..Concurrency, Claim(count)
      PROVE  ReceiptPayloads'
  <2>0. PICK granted \in SUBSET Selected(count) : ClaimEffect(granted, count)
    BY <1>3, ClaimRows
  <2>1. /\ granted \subseteq DOMAIN job
        /\ DOMAIN job' \subseteq DOMAIN job
        /\ receipts' = receipts \cup
             {[id |-> i, generation |-> job[i].generation + 1,
               req |-> job[i].req] : i \in granted}
        /\ \A i \in DOMAIN job' \ granted : job'[i] = job[i]
        /\ \A i \in granted : /\ job'[i].generation = job[i].generation + 1
                              /\ job'[i].req = job[i].req
    BY <2>0 DEF ClaimEffect
  <2>2. \A i \in DOMAIN job : job[i].generation \in Nat
    BY DEF TypeOK, RowsOK, Row
  <2>. SUFFICES ASSUME NEW c \in receipts', c.id \in DOMAIN job',
                       job'[c.id].running, job'[c.id].generation = c.generation
                PROVE  job'[c.id].req = c.req
    BY DEF ReceiptPayloads
  <2>3. CASE c \in receipts
    <3>1. c.generation \in Nat /\ c.generation <= job[c.id].generation
      BY <2>1, <2>3 DEF ReceiptsIssued, TypeOK, HistoryOK, Receipt
    <3>2. c.id \notin granted
      BY <2>1, <2>2, <3>1
    <3> QED BY <2>1, <2>3, <3>2 DEF ReceiptPayloads
  <2>4. CASE c \notin receipts
    BY <2>1, <2>4
  <2> QED BY <2>3, <2>4
<1>4. ASSUME NEW c \in receipts, Heartbeat(c) \/ Checkpoint(c) \/ Settle(c)
      PROVE  ReceiptPayloads'
  <2>1. CASE Heartbeat(c)
    BY <1>1, <2>1, HeartbeatRows DEF SameRun, Heartbeat
  <2>2. CASE Checkpoint(c)
    <3>1. c.id \in DOMAIN job /\ job[c.id].req = c.req
      BY <2>2, LiveRow DEF Checkpoint, ReceiptPayloads, Live, Active
    <3>2. \A j \in DOMAIN job : job'[j].req = job[j].req
      BY <2>2, <3>1, CheckpointRows
    <3> QED BY <1>1, <2>2, <3>2, CheckpointRows DEF SameRun, Checkpoint
  <2>3. CASE FinishCompleted(c)
    BY <1>1, <2>3, WithoutRows DEF FinishCompleted
  <2>4. CASE FinishFailed(c) \/ Defer(c)
    <3>1. receipts' \subseteq receipts
      BY <2>4, FailedRows
    <3>2. CASE job' = Without({c.id})
      BY <1>1, <3>1, <3>2, WithoutRows
    <3>3. CASE /\ c.id \in DOMAIN job
               /\ DOMAIN job' = DOMAIN job
               /\ \A j \in DOMAIN job : j # c.id => job'[j] = job[j]
               /\ SameRun(job'[c.id], job[c.id])
               /\ job'[c.id].running = FALSE
      BY <1>1, <3>1, <3>3 DEF SameRun
    <3> QED BY <2>4, <3>2, <3>3, FailedRows
  <2>5. CASE Abandon({c})
    BY <1>1, <2>5 DEF Abandon
  <2> QED BY <1>4, <2>1, <2>2, <2>3, <2>4, <2>5 DEF Settle
<1>5. CASE Tick
  BY <1>1, <1>5, TickRows DEF SameRun, Tick
<1>6. ASSUME NEW cs \in SUBSET receipts, Abandon(cs)
      PROVE  ReceiptPayloads'
  BY <1>1, <1>6 DEF Abandon
<1>7. CASE UNCHANGED vars
  BY <1>1, <1>7 DEF vars
<1> QED BY <1>2, <1>3, <1>4, <1>5, <1>6, <1>7 DEF Next

\* With agreeing clock readings the lease and the visibility end together.
LEMMA LeaseAlignedStep ==
    ASSUME TypeOK, LeaseAligned, ExactClock, [Next]_vars
    PROVE  LeaseAligned'
<1>0. VT \in Nat /\ \A lag \in Lag : VT + lag = VT
  BY BoundAssumption DEF ExactClock
<1>1. ASSUME DOMAIN job' \subseteq DOMAIN job,
             \A i \in DOMAIN job' : job'[i].running =>
                job[i].running /\ job'[i].lease = job[i].lease
                               /\ job'[i].vt = job[i].vt
      PROVE  LeaseAligned'
  BY <1>1 DEF LeaseAligned
<1>2. ASSUME NEW k \in Kind, NEW delay \in RunAt, Enqueue(k, delay)
      PROVE  LeaseAligned'
  <2>1. CASE Coalesce(k)
    <3>1. Len(log) + 1 \in Request
      BY <1>2, LogFacts
    <3> QED BY <1>1, <2>1, <3>1, CoalesceRows
  <2>2. CASE Insert(k, delay)
    BY <2>2, InsertRows DEF LeaseAligned
  <2> QED BY <1>2, <2>1, <2>2 DEF Enqueue
<1>3. ASSUME NEW count \in 1..Concurrency, Claim(count)
      PROVE  LeaseAligned'
  <2>0. PICK granted \in SUBSET Selected(count) : ClaimEffect(granted, count)
    BY <1>3, ClaimRows
  <2>1. /\ DOMAIN job' \subseteq DOMAIN job
        /\ \A i \in DOMAIN job' \ granted : job'[i] = job[i]
        /\ \A i \in granted : job'[i].vt = VT /\ job'[i].lease = VT
    BY <1>0, <2>0 DEF ClaimEffect
  <2> QED BY <2>1 DEF LeaseAligned
<1>4. ASSUME NEW c \in receipts, Heartbeat(c) \/ Checkpoint(c) \/ Settle(c)
      PROVE  LeaseAligned'
  <2>1. CASE Heartbeat(c)
    <3>1. PICK lag \in Lag : job' = [job EXCEPT ![c.id] = Extended(job[c.id], lag)]
      BY <2>1 DEF Heartbeat
    <3>2. c.id \in DOMAIN job /\ job[c.id] \in Row
      BY <2>1, LiveRow DEF Heartbeat
    <3>3. job'[c.id].lease = VT /\ job'[c.id].vt = VT
      <4>1. /\ Extended(job[c.id], lag).lease = VT
            /\ Extended(job[c.id], lag).vt = VT
        BY <1>0, <3>2, ExtendedType
      <4> QED BY <3>1, <3>2, <4>1
    <3>4. /\ DOMAIN job' = DOMAIN job
          /\ \A j \in DOMAIN job : j # c.id => job'[j] = job[j]
      BY <2>1, HeartbeatRows
    <3> QED BY <3>3, <3>4 DEF LeaseAligned
  <2>2. CASE Checkpoint(c)
    BY <1>1, <2>2, CheckpointRows
  <2>3. CASE FinishCompleted(c)
    BY <1>1, <2>3, WithoutRows DEF FinishCompleted
  <2>4. CASE FinishFailed(c) \/ Defer(c)
    <3>1. CASE job' = Without({c.id})
      BY <1>1, <3>1, WithoutRows
    <3>2. CASE /\ c.id \in DOMAIN job
               /\ DOMAIN job' = DOMAIN job
               /\ \A j \in DOMAIN job : j # c.id => job'[j] = job[j]
               /\ job'[c.id].running = FALSE
      BY <1>1, <3>2
    <3> QED BY <2>4, <3>1, <3>2, FailedRows
  <2>5. CASE Abandon({c})
    BY <1>1, <2>5 DEF Abandon
  <2> QED BY <1>4, <2>1, <2>2, <2>3, <2>4, <2>5 DEF Settle
<1>5. CASE Tick
  BY <1>5, TickRows DEF LeaseAligned
<1>6. ASSUME NEW cs \in SUBSET receipts, Abandon(cs)
      PROVE  LeaseAligned'
  BY <1>1, <1>6 DEF Abandon
<1>7. CASE UNCHANGED vars
  BY <1>1, <1>7 DEF vars
<1> QED BY <1>2, <1>3, <1>4, <1>5, <1>6, <1>7 DEF Next

\* Claim grants no row while an older row has its key: the older one is
\* running, its lease ended with its invisibility, and it comes first.
LEMMA GrantedIsOldest ==
    ASSUME TypeOK, PayloadsLogged, LeaseAligned, KeyOrder, KeyDecidesGroup,
           NEW count \in 1..Concurrency,
           NEW x \in Selected(count), NEW i \in DOMAIN job, i < x
    PROVE  ~SameKey(job[i], job[x])
<1>. SUFFICES ASSUME SameKey(job[i], job[x]) PROVE FALSE
  OBVIOUS
<1>1. /\ x \in DOMAIN job
      /\ x \in Firsts
      /\ x \in Candidates
      /\ \A a \in Active : ~Conflict(x, a)
  BY DEF Selected, Firsts, Candidates
<1>2. i \in Int /\ x \in Int /\ i # x
  BY <1>1, Ids DEF JobId
<1>3. job[i].running /\ ~job[x].running
  BY <1>1 DEF KeyOrder
<1>4. job[i].group = job[x].group
  <2>1. \A j \in DOMAIN job :
           /\ log[job[j].req] \in Kind
           /\ job[j].key = KeyOf[log[job[j].req]]
           /\ job[j].group = GroupOf[log[job[j].req]]
    BY DEF PayloadsLogged, TypeOK, HistoryOK
  <2> QED BY <1>1, <2>1 DEF SameKey, KeyDecidesGroup
<1>5. i \notin Active
  BY <1>1, <1>2 DEF Conflict, SameKey
<1>6. job[i].vt = 0
  <2>1. job[i].lease \in Nat /\ job[i].lease = job[i].vt
    BY <1>3 DEF LeaseAligned, TypeOK, RowsOK, Row
  <2> QED BY <1>3, <1>5, <2>1 DEF Active
<1>7. \A a \in Active : ~Conflict(i, a)
  BY <1>1, <1>3, <1>4 DEF Active, Conflict, SameKey, SameGroup
<1>8. i \in Candidates
  BY <1>6, <1>7 DEF Candidates
<1>9. ConflictIdentity(i) = ConflictIdentity(x)
  BY <1>4 DEF ConflictIdentity, SameKey
<1> QED BY <1>1, <1>2, <1>8, <1>9 DEF Firsts

\* Only the oldest row of a key can start, so the older runs the older request.
LEMMA KeyOrderStep ==
    ASSUME TypeOK, PayloadsLogged, ReceiptPayloads, LeaseAligned, KeyOrder,
           KeyDecidesGroup, [Next]_vars
    PROVE  KeyOrder'
<1>1. ASSUME DOMAIN job' \subseteq DOMAIN job,
             \A i \in DOMAIN job' : /\ job'[i].key = job[i].key
                                    /\ job'[i].req = job[i].req
                                    /\ job'[i].running = job[i].running
      PROVE  KeyOrder'
  BY <1>1 DEF KeyOrder, SameKey
<1>2. ASSUME NEW k \in Kind, NEW delay \in RunAt, Enqueue(k, delay)
      PROVE  KeyOrder'
  <2>1. /\ Len(log) \in Nat
        /\ Len(log) + 1 \in Request
        /\ DOMAIN log = 1..Len(log)
    BY <1>2, LogFacts
  <2>2. \A i \in DOMAIN job : job[i].req < Len(log) + 1
    BY <2>1 DEF PayloadsLogged
  <2>3. CASE Coalesce(k)
    <3>1. PICK i \in Pending(KeyOf[k]) :
            /\ DOMAIN job' = DOMAIN job
            /\ job'[i].req = Len(log) + 1
            /\ \A j \in DOMAIN job : j # i => job'[j] = job[j]
            /\ \A j \in DOMAIN job : /\ SameRun(job'[j], job[j])
                                     /\ job'[j].running = job[j].running
      BY <2>1, <2>3, CoalesceRows
    <3>2. i \in DOMAIN job /\ ~job[i].running
      BY DEF Pending
    <3>3. ASSUME NEW g \in DOMAIN job, NEW h \in DOMAIN job, g < h,
                 SameKey(job[g], job[h])
          PROVE  job'[g].running /\ ~job'[h].running /\ job'[g].req < job'[h].req
      <4>1. job[g].running /\ ~job[h].running /\ job[g].req < job[h].req
        BY <3>3 DEF KeyOrder
      <4>2. g # i
        BY <3>2, <4>1
      <4> QED BY <2>2, <3>1, <4>1, <4>2
    <3> QED BY <3>1, <3>3 DEF KeyOrder, SameKey, SameRun
  <2>4. CASE Insert(k, delay)
    <3>1. /\ Pending(KeyOf[k]) = {}
          /\ DOMAIN job' = DOMAIN job \cup {nextId}
          /\ \A j \in DOMAIN job : job'[j] = job[j]
          /\ job'[nextId].key = KeyOf[k]
          /\ job'[nextId].req = Len(log) + 1
          /\ job'[nextId].running = FALSE
      BY <2>4, InsertRows
    <3>2. \A i \in DOMAIN job : i \in Int /\ i < nextId
      BY Ids DEF JobId
    <3>3. nextId \in Int
      BY Ids
    <3>4. ASSUME NEW g \in DOMAIN job', NEW h \in DOMAIN job', g < h,
                 SameKey(job'[g], job'[h])
          PROVE  job'[g].running /\ ~job'[h].running /\ job'[g].req < job'[h].req
      <4>1. g \in DOMAIN job
        BY <3>1, <3>2, <3>3, <3>4
      <4>2. CASE h = nextId
        BY <2>2, <3>1, <3>4, <4>1, <4>2 DEF Pending, SameKey
      <4>3. CASE h \in DOMAIN job
        BY <3>1, <3>4, <4>1, <4>3 DEF KeyOrder
      <4> QED BY <3>1, <4>2, <4>3
    <3> QED BY <3>4 DEF KeyOrder
  <2> QED BY <1>2, <2>3, <2>4 DEF Enqueue
<1>3. ASSUME NEW count \in 1..Concurrency, Claim(count)
      PROVE  KeyOrder'
  <2>0. PICK granted \in SUBSET Selected(count) : ClaimEffect(granted, count)
    BY <1>3, ClaimRows
  <2>1. /\ DOMAIN job' \subseteq DOMAIN job
        /\ \A i \in DOMAIN job' \ granted : job'[i] = job[i]
        /\ \A i \in granted : /\ job'[i].running = TRUE
                              /\ job'[i].key = job[i].key
                              /\ job'[i].req = job[i].req
    BY <2>0 DEF ClaimEffect
  <2>2. \A g \in DOMAIN job, x \in granted : g < x => ~SameKey(job[g], job[x])
    BY GrantedIsOldest
  <2>3. \A i \in DOMAIN job' : job'[i].key = job[i].key /\ job'[i].req = job[i].req
    BY <2>1
  <2>4. ASSUME NEW g \in DOMAIN job', NEW h \in DOMAIN job', g < h,
               SameKey(job'[g], job'[h])
        PROVE  job'[g].running /\ ~job'[h].running /\ job'[g].req < job'[h].req
    <3>1. g \in DOMAIN job /\ h \in DOMAIN job /\ SameKey(job[g], job[h])
      BY <2>1, <2>3, <2>4 DEF SameKey
    <3>2. job[g].running /\ ~job[h].running /\ job[g].req < job[h].req
      BY <2>4, <3>1 DEF KeyOrder
    <3>3. h \notin granted
      BY <2>2, <2>4, <3>1
    <3> QED BY <2>1, <2>3, <3>2, <3>3
  <2> QED BY <2>4 DEF KeyOrder
<1>4. ASSUME NEW c \in receipts, Heartbeat(c) \/ Checkpoint(c) \/ Settle(c)
      PROVE  KeyOrder'
  <2>1. CASE Heartbeat(c)
    BY <1>1, <2>1, HeartbeatRows DEF SameRun
  <2>2. CASE Checkpoint(c)
    <3>1. c.id \in DOMAIN job /\ job[c.id].req = c.req
      BY <2>2, LiveRow DEF Checkpoint, ReceiptPayloads, Live, Active
    <3>2. \A j \in DOMAIN job : job'[j].req = job[j].req
      BY <2>2, <3>1, CheckpointRows
    <3> QED BY <1>1, <2>2, <3>2, CheckpointRows DEF SameRun
  <2>3. CASE FinishCompleted(c)
    BY <1>1, <2>3, WithoutRows DEF FinishCompleted
  <2>4. CASE FinishFailed(c) \/ Defer(c)
    <3>1. CASE job' = Without({c.id})
      BY <1>1, <3>1, WithoutRows
    <3>2. CASE /\ c.id \in DOMAIN job
               /\ job[c.id].running
               /\ Pending(job[c.id].key) = {}
               /\ DOMAIN job' = DOMAIN job
               /\ \A j \in DOMAIN job : j # c.id => job'[j] = job[j]
               /\ SameRun(job'[c.id], job[c.id])
      <4>1. \A j \in DOMAIN job :
               j # c.id /\ SameKey(job[c.id], job[j]) => job[j].running
        BY <3>2 DEF Pending, SameKey
      <4>2. ASSUME NEW g \in DOMAIN job, NEW h \in DOMAIN job, g < h,
                   SameKey(job[g], job[h])
            PROVE  g # c.id /\ h # c.id
        <5>1. job[g].running /\ ~job[h].running
          BY <4>2 DEF KeyOrder
        <5>2. g # h
          BY <4>2, Ids DEF JobId
        <5> QED BY <3>2, <4>1, <4>2, <5>1, <5>2
      <4>3. \A j \in DOMAIN job : job'[j].key = job[j].key
        BY <3>2 DEF SameRun
      <4> QED BY <3>2, <4>2, <4>3 DEF KeyOrder, SameKey
    <3> QED BY <2>4, <3>1, <3>2, FailedRows
  <2>5. CASE Abandon({c})
    BY <1>1, <2>5 DEF Abandon
  <2> QED BY <1>4, <2>1, <2>2, <2>3, <2>4, <2>5 DEF Settle
<1>5. CASE Tick
  BY <1>1, <1>5, TickRows DEF SameRun
<1>6. ASSUME NEW cs \in SUBSET receipts, Abandon(cs)
      PROVE  KeyOrder'
  BY <1>1, <1>6 DEF Abandon
<1>7. CASE UNCHANGED vars
  BY <1>1, <1>7 DEF vars
<1> QED BY <1>2, <1>3, <1>4, <1>5, <1>6, <1>7 DEF Next

\* The pending row for whose sake a failed or deferred row is dropped is younger
\* and carries a newer request.
LEMMA PendingIsNewer ==
    ASSUME TypeOK, PayloadsLogged, KeyOrder,
           NEW i \in DOMAIN job, job[i].running, Pending(job[i].key) # {}
    PROVE  \E p \in DOMAIN job :
             /\ p # i
             /\ SameKey(job[p], job[i])
             /\ job[p].req > job[i].req
             /\ Superseded(job[i].req)
<1>1. PICK p \in Pending(job[i].key) : TRUE
  OBVIOUS
<1>2. /\ p \in DOMAIN job
      /\ ~job[p].running
      /\ SameKey(job[p], job[i])
      /\ SameKey(job[i], job[p])
      /\ job[i].key # NoKey
  BY DEF Pending, SameKey
<1>3. i < p
  <2>1. i \in Int /\ p \in Int /\ i # p
    BY <1>2, Ids DEF JobId
  <2>2. ~(p < i)
    BY <1>2 DEF KeyOrder
  <2> QED BY <2>1, <2>2
<1>4. job[i].req < job[p].req /\ job[i].req \in Nat /\ job[p].req \in Nat
  BY <1>2, <1>3 DEF KeyOrder, TypeOK, RowsOK, Row, Request
<1>5. Superseded(job[i].req)
  <2>1. /\ job[p].req \in DOMAIN log
        /\ KeyOf[log[job[p].req]] = KeyOf[log[job[i].req]]
        /\ KeyOf[log[job[i].req]] # NoKey
    BY <1>2 DEF PayloadsLogged, SameKey
  <2> QED BY <1>4, <2>1 DEF Superseded
<1> QED BY <1>2, <1>4, <1>5

\* A request leaves the rows by completion, archive or a newer request.
LEMMA NoRequestLostStep ==
    ASSUME TypeOK, PayloadsLogged, ReceiptPayloads, KeyOrder, NoRequestLost,
           [Next]_vars
    PROVE  NoRequestLost'
<1>1. ASSUME log' = log, done \subseteq done', archive \subseteq archive',
             \A i \in DOMAIN job :
                \/ i \in DOMAIN job' /\ job'[i].req = job[i].req
                \/ job[i].req \in done'
                \/ job[i].req \in archive'
                \/ Superseded(job[i].req)
      PROVE  NoRequestLost'
  <2>1. \A n : Superseded(n) => Superseded(n)'
    BY <1>1 DEF Superseded
  <2> QED BY <1>1, <2>1 DEF NoRequestLost, Settled
<1>2. ASSUME NEW k \in Kind, NEW delay \in RunAt, Enqueue(k, delay)
      PROVE  NoRequestLost'
  <2>1. /\ Len(log) \in Nat
        /\ DOMAIN log = 1..Len(log)
        /\ DOMAIN log' = DOMAIN log \cup {Len(log) + 1}
        /\ log'[Len(log) + 1] = k
        /\ \A n \in DOMAIN log : log'[n] = log[n]
        /\ Len(log) + 1 \in Request
    BY <1>2, LogFacts
  <2>2. done' = done /\ archive' = archive
    BY <1>2 DEF Enqueue
  <2>3. \A n \in DOMAIN log : Superseded(n) => Superseded(n)'
    BY <2>1 DEF Superseded
  <2>4. \A n \in DOMAIN log : Settled(n) => Settled(n)'
    BY <2>2, <2>3 DEF Settled
  <2>5. CASE Coalesce(k)
    <3>1. PICK i \in Pending(KeyOf[k]) :
            /\ DOMAIN job' = DOMAIN job
            /\ job'[i].req = Len(log) + 1
            /\ \A j \in DOMAIN job : j # i => job'[j] = job[j]
      BY <2>1, <2>5, CoalesceRows
    <3>2. i \in DOMAIN job /\ job[i].key = KeyOf[k] /\ KeyOf[k] # NoKey
      BY DEF Pending
    <3>3. ASSUME NEW q, q = job[i].req PROVE Superseded(q)'
      <4>1. /\ job[i].req \in DOMAIN log
            /\ KeyOf[log[job[i].req]] = KeyOf[k]
        BY <3>2 DEF PayloadsLogged
      <4>2. Len(log) + 1 > job[i].req
        BY <2>1, <4>1
      <4>3. Len(log) + 1 \in DOMAIN log' /\ log'[q] = log[q]
        BY <2>1, <3>3, <4>1
      <4> QED BY <2>1, <3>2, <3>3, <4>1, <4>2, <4>3 DEF Superseded
    <3>4. ASSUME NEW n \in DOMAIN log
          PROVE  Settled(n)' \/ \E j \in DOMAIN job' : job'[j].req = n
      <4>1. CASE \E j \in DOMAIN job : j # i /\ job[j].req = n
        BY <3>1, <4>1
      <4>2. CASE n = job[i].req
        BY <3>3, <4>2 DEF Settled
      <4>3. CASE Settled(n)
        BY <2>4, <4>3
      <4> QED BY <4>1, <4>2, <4>3 DEF NoRequestLost
    <3>5. i \in DOMAIN job' /\ job'[i].req = Len(log) + 1
      BY <3>1, <3>2
    <3> QED BY <2>1, <3>4, <3>5 DEF NoRequestLost
  <2>6. CASE Insert(k, delay)
    <3>1. /\ DOMAIN job' = DOMAIN job \cup {nextId}
          /\ \A j \in DOMAIN job : job'[j] = job[j]
          /\ job'[nextId].req = Len(log) + 1
      BY <2>6, InsertRows
    <3> QED BY <2>1, <2>4, <3>1 DEF NoRequestLost
  <2> QED BY <1>2, <2>5, <2>6 DEF Enqueue
<1>3. ASSUME NEW count \in 1..Concurrency, Claim(count)
      PROVE  NoRequestLost'
  <2>1. PICK granted \in SUBSET Selected(count) : ClaimEffect(granted, count)
    BY <1>3, ClaimRows
  <2> QED BY <1>1, <2>1 DEF ClaimEffect
<1>4. ASSUME NEW c \in receipts, Heartbeat(c) \/ Checkpoint(c) \/ Settle(c)
      PROVE  NoRequestLost'
  <2>1. CASE Heartbeat(c)
    BY <1>1, <2>1, HeartbeatRows DEF Heartbeat
  <2>2. CASE Checkpoint(c)
    <3>1. c.id \in DOMAIN job /\ job[c.id].req = c.req
      BY <2>2, LiveRow DEF Checkpoint, ReceiptPayloads, Live, Active
    <3>2. \A j \in DOMAIN job : j \in DOMAIN job' /\ job'[j].req = job[j].req
      BY <2>2, <3>1, CheckpointRows
    <3> QED BY <1>1, <2>2, <3>2 DEF Checkpoint
  <2>3. CASE FinishCompleted(c)
    <3>1. \A j \in DOMAIN job : j # c.id => j \in DOMAIN job' /\ job'[j] = job[j]
      BY <2>3 DEF FinishCompleted, Without
    <3>2. job[c.id].req = c.req
      BY <2>3, LiveRow DEF FinishCompleted, ReceiptPayloads, Live, Active
    <3> QED BY <1>1, <2>3, <3>1, <3>2 DEF FinishCompleted
  <2>4. CASE FinishFailed(c) \/ Defer(c)
    <3>1. /\ c.id \in DOMAIN job
          /\ job[c.id].running
          /\ log' = log
          /\ done' = done
      BY <2>4, FailedRows
    <3>0. ASSUME job' = Without({c.id})
          PROVE  \A j \in DOMAIN job :
                   j # c.id => j \in DOMAIN job' /\ job'[j] = job[j]
      BY <3>0 DEF Without
    <3>2. CASE /\ job' = Without({c.id})
               /\ archive' = archive \cup {job[c.id].req}
      BY <1>1, <3>0, <3>1, <3>2
    <3>3. CASE /\ job' = Without({c.id})
               /\ UNCHANGED archive
               /\ Pending(job[c.id].key) # {}
      <4>1. Superseded(job[c.id].req)
        BY <3>1, <3>3, PendingIsNewer
      <4> QED BY <1>1, <3>0, <3>1, <3>3, <4>1
    <3>4. CASE /\ UNCHANGED archive
               /\ DOMAIN job' = DOMAIN job
               /\ \A j \in DOMAIN job : j # c.id => job'[j] = job[j]
               /\ job'[c.id].req = job[c.id].req
      BY <1>1, <3>1, <3>4
    <3> QED BY <2>4, <3>2, <3>3, <3>4, FailedRows
  <2>5. CASE Abandon({c})
    BY <1>1, <2>5 DEF Abandon
  <2> QED BY <1>4, <2>1, <2>2, <2>3, <2>4, <2>5 DEF Settle
<1>5. CASE Tick
  BY <1>1, <1>5, TickRows DEF Tick
<1>6. ASSUME NEW cs \in SUBSET receipts, Abandon(cs)
      PROVE  NoRequestLost'
  BY <1>1, <1>6 DEF Abandon
<1>7. CASE UNCHANGED vars
  BY <1>1, <1>7 DEF vars
<1> QED BY <1>2, <1>3, <1>4, <1>5, <1>6, <1>7 DEF Next

\* The part of the invariant that speaks of the order of the requests.
OrderInv ==
    /\ TypeOK
    /\ ReceiptsIssued
    /\ ReceiptPayloads
    /\ PayloadsLogged
    /\ LeaseAligned
    /\ KeyOrder

\* The invariant that orders the requests of a key holds throughout.
LEMMA OrderInvariant ==
    ASSUME ExactClock, KeyDecidesGroup
    PROVE  Spec => []OrderInv
<1>1. Init => OrderInv
  BY InitType DEF Init, OrderInv, ReceiptsIssued, ReceiptPayloads,
     PayloadsLogged, LeaseAligned, KeyOrder
<1>2. OrderInv /\ [Next]_vars => OrderInv'
  BY NextType, ReceiptsIssuedStep, ReceiptPayloadsStep, PayloadsLoggedStep,
     LeaseAlignedStep, KeyOrderStep DEF OrderInv
<1> QED BY <1>1, <1>2, PTL DEF Spec

\* Of two rows with one key the older one runs the older request.
THEOREM KeysRunInOrder ==
    ASSUME ExactClock, KeyDecidesGroup
    PROVE  Spec => []KeyOrder
<1>1. OrderInv => KeyOrder
  BY DEF OrderInv
<1> QED BY <1>1, OrderInvariant, PTL

\* Every request is carried by a row until it is done, archived or replaced.
THEOREM NothingLost ==
    ASSUME ExactClock, KeyDecidesGroup
    PROVE  Spec => []NoRequestLost
<1>1. Init => NoRequestLost
  BY DEF Init, NoRequestLost
<1>2. OrderInv /\ NoRequestLost /\ [Next]_vars => NoRequestLost'
  BY NoRequestLostStep DEF OrderInv
<1> QED BY <1>1, <1>2, OrderInvariant, PTL DEF Spec

\* A row is dropped as superseded only in favour of a newer request.
THEOREM DroppedForNewer ==
    ASSUME ExactClock, KeyDecidesGroup
    PROVE  Spec => SupersededByLatest
<1>. DEFINE Newer(c) ==
         FinishFailed(c) /\ c.id \notin DOMAIN job' /\ Claimable(c.id) =>
            \E i \in DOMAIN job' :
                SameKey(job'[i], job[c.id]) /\ job'[i].req > job[c.id].req
<1>1. ASSUME OrderInv, NEW c \in receipts PROVE Newer(c)
  <2>. SUFFICES ASSUME FinishFailed(c), c.id \notin DOMAIN job', Claimable(c.id)
                PROVE  \E i \in DOMAIN job' :
                          SameKey(job'[i], job[c.id]) /\ job'[i].req > job[c.id].req
    OBVIOUS
  <2>1. c.id \in DOMAIN job /\ job[c.id].running
    BY <1>1, FailedRows DEF OrderInv
  <2>2. job' = Without({c.id}) /\ Pending(job[c.id].key) # {}
    BY <2>1 DEF FinishFailed, FailExhausted, FailSuperseded, FailRetry
  <2>3. PICK p \in DOMAIN job :
          p # c.id /\ SameKey(job[p], job[c.id]) /\ job[p].req > job[c.id].req
    BY <1>1, <2>1, <2>2, PendingIsNewer DEF OrderInv
  <2>4. p \in DOMAIN job' /\ job'[p] = job[p]
    BY <2>2, <2>3 DEF Without
  <2> QED BY <2>3, <2>4
<1>2. OrderInv /\ [Next]_vars => [\A c \in receipts : Newer(c)]_vars
  BY <1>1
<1> QED BY <1>2, OrderInvariant, PTL DEF Spec, SupersededByLatest

-----------------------------------------------------------------------------
(* What the holder of a receipt can rely on, whatever the others do.       *)

\* The receipt is honoured, and its row is neither free nor visible for n ticks.
LeasedFor(c, n) == Live(c) /\ job[c.id].lease >= n /\ job[c.id].vt >= n

\* A call of somebody else for one receipt.
OtherCall(c) == Heartbeat(c) \/ Settle(c)

\* The row of an honoured receipt is the one the receipt was issued for.
LEMMA LiveIsRow ==
    ASSUME TypeOK, NEW c \in receipts, Live(c)
    PROVE  /\ c.id \in DOMAIN job
           /\ job[c.id].running
           /\ job[c.id].lease \in Nat \ {0}
           /\ job[c.id].vt \in Nat
           /\ job[c.id].generation = c.generation
BY DEF Live, Active, TypeOK, RowsOK, Row

\* A row that keeps its run and its lease keeps its receipt honoured.
LEMMA SameLease ==
    ASSUME TypeOK, NEW c \in receipts, NEW n \in Nat, LeasedFor(c, n),
           c.id \in DOMAIN job', job'[c.id].running = job[c.id].running,
           job'[c.id].generation = job[c.id].generation,
           job'[c.id].lease = job[c.id].lease, job'[c.id].vt = job[c.id].vt
    PROVE  LeasedFor(c, n)'
BY DEF LeasedFor, Live, Active

\* Two honoured receipts that differ are for different rows.
LEMMA LiveApart ==
    ASSUME ReceiptsIssued, NEW c \in receipts, NEW d \in receipts, c # d, Live(c), Live(d)
    PROVE  c.id # d.id
BY DEF ReceiptsIssued, Live

\* A new request changes no row that runs.
LEMMA EnqueueKeepsLease ==
    ASSUME TypeOK, NEW c \in receipts, NEW n \in Nat, LeasedFor(c, n),
           NEW k \in Kind, NEW delay \in RunAt, Enqueue(k, delay)
    PROVE  LeasedFor(c, n)'
<1>1. c.id \in DOMAIN job
  BY LiveIsRow DEF LeasedFor
<1>2. CASE Coalesce(k)
  <2>1. Len(log) + 1 \in Request
    BY LogFacts
  <2>2. /\ DOMAIN job' = DOMAIN job
        /\ SameRun(job'[c.id], job[c.id])
        /\ job'[c.id].running = job[c.id].running
        /\ job'[c.id].lease = job[c.id].lease
        /\ job'[c.id].vt = job[c.id].vt
    BY <1>1, <1>2, <2>1, CoalesceRows
  <2> QED BY <1>1, <2>2, SameLease DEF SameRun
<1>3. CASE Insert(k, delay)
  BY <1>1, <1>3, InsertRows, SameLease
<1> QED BY <1>2, <1>3 DEF Enqueue

\* A claim grants only rows that are visible, so none that is leased for a while.
LEMMA ClaimKeepsLease ==
    ASSUME TypeOK, NEW c \in receipts, NEW n \in Nat \ {0}, LeasedFor(c, n),
           NEW count \in 1..Concurrency, Claim(count)
    PROVE  LeasedFor(c, n)'
<1>1. c.id \in DOMAIN job /\ job[c.id].vt \in Nat /\ job[c.id].vt >= n
  BY LiveIsRow DEF LeasedFor
<1>2. c.id \notin Selected(count)
  BY <1>1 DEF Selected, Firsts, Candidates
<1>3. PICK granted \in SUBSET Selected(count) : ClaimEffect(granted, count)
  BY ClaimRows
<1>4. c.id \notin granted /\ c.id \notin Exhausted(granted, count)
  BY <1>2, <1>3 DEF Exhausted
<1>5. c.id \in DOMAIN job' /\ job'[c.id] = job[c.id]
  BY <1>1, <1>3, <1>4 DEF ClaimEffect
<1> QED BY <1>5, SameLease

\* What is done with another receipt is done to another row.
LEMMA OtherKeepsLease ==
    ASSUME TypeOK, ReceiptsIssued, NEW c \in receipts, NEW n \in Nat, LeasedFor(c, n),
           NEW d \in receipts, d # c, OtherCall(d)
    PROVE  LeasedFor(c, n)'
<1>1. c.id \in DOMAIN job /\ Live(c)
  BY LiveIsRow DEF LeasedFor
<1>2. ASSUME Live(d) PROVE d.id # c.id
  BY <1>1, <1>2, LiveApart
<1>3. CASE Heartbeat(d)
  <2>1. d.id # c.id
    BY <1>2, <1>3 DEF Heartbeat
  <2>2. c.id \in DOMAIN job' /\ job'[c.id] = job[c.id]
    BY <1>1, <1>3, <2>1, HeartbeatRows
  <2> QED BY <2>2, SameLease
<1>4. CASE FinishCompleted(d)
  <2>1. d.id # c.id
    BY <1>2, <1>4 DEF FinishCompleted
  <2>2. c.id \in DOMAIN job' /\ job'[c.id] = job[c.id]
    BY <1>1, <1>4, <2>1 DEF FinishCompleted, Without
  <2> QED BY <2>2, SameLease
<1>5. CASE FinishFailed(d) \/ Defer(d)
  <2>1. d.id # c.id
    BY <1>2, <1>5 DEF FinishFailed, Defer
  <2>2. c.id \in DOMAIN job' /\ job'[c.id] = job[c.id]
    <3>1. CASE job' = Without({d.id})
      BY <1>1, <2>1, <3>1 DEF Without
    <3>2. CASE /\ DOMAIN job' = DOMAIN job
               /\ \A j \in DOMAIN job : j # d.id => job'[j] = job[j]
      BY <1>1, <2>1, <3>2
    <3> QED BY <1>5, <3>1, <3>2, FailedRows
  <2> QED BY <2>2, SameLease
<1>6. CASE Abandon({d})
  BY <1>1, <1>6, SameLease DEF Abandon
<1> QED BY <1>3, <1>4, <1>5, <1>6 DEF OtherCall, Settle

\* A checkpoint changes the payload of a row and nothing of its lease.
LEMMA CheckpointKeepsLease ==
    ASSUME TypeOK, NEW c \in receipts, NEW n \in Nat, LeasedFor(c, n),
           NEW d \in receipts, Checkpoint(d)
    PROVE  LeasedFor(c, n)'
<1>1. c.id \in DOMAIN job
  BY LiveIsRow DEF LeasedFor
<1>2. /\ DOMAIN job' = DOMAIN job
      /\ SameRun(job'[c.id], job[c.id])
      /\ job'[c.id].running = job[c.id].running
      /\ job'[c.id].lease = job[c.id].lease
      /\ job'[c.id].vt = job[c.id].vt
  BY <1>1, CheckpointRows
<1> QED BY <1>1, <1>2, SameLease DEF SameRun

\* A tick takes one from the lease, which is still valid if it had two.
LEMMA TickLease ==
    ASSUME TypeOK, NEW c \in receipts, NEW n \in Nat \ {0}, LeasedFor(c, n + 1), Tick
    PROVE  LeasedFor(c, n)'
<1>1. /\ c.id \in DOMAIN job
      /\ job[c.id].running
      /\ job[c.id].generation = c.generation
      /\ job[c.id].lease \in Nat /\ job[c.id].vt \in Nat
      /\ job[c.id].lease >= n + 1 /\ job[c.id].vt >= n + 1
  BY LiveIsRow DEF LeasedFor
<1>2. /\ DOMAIN job' = DOMAIN job
      /\ SameRun(job'[c.id], job[c.id])
      /\ job'[c.id].running = job[c.id].running
      /\ job'[c.id].lease = Less(job[c.id].lease)
      /\ job'[c.id].vt = Less(job[c.id].vt)
  BY <1>1, TickRows
<1>3. job'[c.id].lease >= n /\ job'[c.id].vt >= n /\ job'[c.id].lease > 0
  BY <1>1, <1>2 DEF Less
<1> QED BY <1>1, <1>2, <1>3 DEF LeasedFor, Live, Active, SameRun

\* An accepted heartbeat leases the row for VT from now.
LEMMA HeartbeatLease ==
    ASSUME TypeOK, NEW c \in receipts, Heartbeat(c)
    PROVE  LeasedFor(c, VT)'
<1>1. PICK lag \in Lag : job' = [job EXCEPT ![c.id] = Extended(job[c.id], lag)]
  BY DEF Heartbeat
<1>2. c.id \in DOMAIN job /\ job[c.id] \in Row /\ Live(c)
  BY LiveRow DEF Heartbeat
<1>3. /\ job'[c.id].lease = VT
      /\ job'[c.id].vt = VT + lag
  <2>1. /\ Extended(job[c.id], lag).lease = VT
        /\ Extended(job[c.id], lag).vt = VT + lag
    BY <1>2, ExtendedType
  <2> QED BY <1>1, <1>2, <2>1
<1>4. /\ c.id \in DOMAIN job'
      /\ SameRun(job'[c.id], job[c.id])
      /\ job'[c.id].running = job[c.id].running
  BY <1>2, HeartbeatRows
<1>5. VT \in Nat \ {0} /\ lag \in Nat
  BY BoundAssumption
<1> QED BY <1>2, <1>3, <1>4, <1>5 DEF LeasedFor, Live, Active, SameRun

\* A claim issues new receipts, each honoured and leased for VT from now.
LEMMA ClaimLease ==
    ASSUME TypeOK, ReceiptsIssued, NEW count \in 1..Concurrency, Claim(count)
    PROVE  /\ \A c \in receipts' \ receipts : LeasedFor(c, VT)'
           /\ \A i \in Active' :
                 \/ i \in Active /\ job'[i].generation = job[i].generation
                 \/ \E c \in receipts' \ receipts : c.id = i /\ Live(c)'
<1>1. PICK granted \in SUBSET Selected(count) : ClaimEffect(granted, count)
  BY ClaimRows
<1>2. VT \in Nat \ {0} /\ \A lag \in Lag : lag \in Nat
  BY BoundAssumption
<1>3. \A i \in granted :
         /\ i \in DOMAIN job /\ i \in DOMAIN job'
         /\ job'[i].running = TRUE
         /\ job'[i].generation = job[i].generation + 1
         /\ job'[i].vt = VT
         /\ job'[i].lease >= VT
         /\ job'[i].lease > 0
  BY <1>1, <1>2 DEF ClaimEffect
<1> DEFINE Issued(i) == [id |-> i, generation |-> job[i].generation + 1, req |-> job[i].req]
<1>4. receipts' = receipts \cup {Issued(i) : i \in granted}
  BY <1>1 DEF ClaimEffect
<1>5. \A i \in granted : Issued(i).id = i /\ Issued(i).generation = job'[i].generation
  BY <1>3
<1>6. \A i \in granted : Issued(i) \notin receipts
  <2> SUFFICES ASSUME NEW i \in granted, Issued(i) \in receipts PROVE FALSE
    OBVIOUS
  <2>1. job[i].generation \in Nat
    BY <1>3 DEF TypeOK, RowsOK, Row
  <2>2. Issued(i).generation <= job[i].generation
    BY <1>3 DEF ReceiptsIssued
  <2> QED BY <2>1, <2>2
<1>7. \A c \in receipts' \ receipts :
         c.id \in granted /\ c.generation = job'[c.id].generation
  <2> SUFFICES ASSUME NEW c \in receipts' \ receipts
               PROVE  c.id \in granted /\ c.generation = job'[c.id].generation
    OBVIOUS
  <2>1. PICK i \in granted : c = Issued(i)
    BY <1>4
  <2> QED BY <1>5, <2>1
<1>8. ASSUME NEW c \in receipts' \ receipts
      PROVE  LeasedFor(c, VT)'
  <2>1. c.id \in granted /\ c.generation = job'[c.id].generation
    BY <1>7, <1>8
  <2>2. /\ c.id \in DOMAIN job' /\ job'[c.id].running
        /\ job'[c.id].lease >= VT /\ job'[c.id].vt >= VT
        /\ job'[c.id].lease > 0
    BY <1>2, <1>3, <2>1
  <2> QED BY <2>1, <2>2 DEF LeasedFor, Live, Active
<1>9. ASSUME NEW i \in Active', i \notin granted
      PROVE  i \in Active /\ job'[i].generation = job[i].generation
  BY <1>1, <1>9 DEF ClaimEffect, Active
<1>10. ASSUME NEW i \in granted
       PROVE  \E c \in receipts' \ receipts : c.id = i /\ Live(c)'
  <2>1. PICK c \in receipts' \ receipts : c = Issued(i)
    BY <1>4, <1>6
  <2>2. c.id = i /\ LeasedFor(c, VT)'
    BY <1>5, <1>8, <2>1
  <2> QED BY <2>2 DEF LeasedFor
<1> QED BY <1>8, <1>9, <1>10

\* Nothing but a claim makes a row active or gives it another generation.
LEMMA ActiveStays ==
    ASSUME TypeOK,
           \/ \E k \in Kind, delay \in RunAt : Enqueue(k, delay)
           \/ \E c \in receipts : Heartbeat(c) \/ Checkpoint(c) \/ Settle(c)
           \/ \E cs \in SUBSET receipts : Abandon(cs)
           \/ Tick
           \/ UNCHANGED vars
    PROVE  \A i \in Active' : i \in Active /\ job'[i].generation = job[i].generation
<1> DEFINE Stays == \A i \in Active' : i \in Active /\ job'[i].generation = job[i].generation
<1>1. ASSUME DOMAIN job' \subseteq DOMAIN job,
             \A i \in DOMAIN job' :
                /\ job'[i].running => job[i].running
                /\ job'[i].running /\ job'[i].lease > 0 => job[i].lease > 0
                /\ job'[i].generation = job[i].generation
      PROVE  Stays
  BY <1>1 DEF Active
<1>2. ASSUME NEW k \in Kind, NEW delay \in RunAt, Enqueue(k, delay)
      PROVE  Stays
  <2>1. CASE Coalesce(k)
    <3>1. Len(log) + 1 \in Request
      BY <1>2, LogFacts
    <3> QED BY <1>1, <2>1, <3>1, CoalesceRows DEF SameRun
  <2>2. CASE Insert(k, delay)
    BY <2>2, InsertRows DEF Active
  <2> QED BY <1>2, <2>1, <2>2 DEF Enqueue
<1>3. ASSUME NEW c \in receipts, Heartbeat(c) \/ Checkpoint(c) \/ Settle(c)
      PROVE  Stays
  <2>1. CASE Heartbeat(c)
    BY <1>1, <2>1, HeartbeatRows DEF SameRun, Active
  <2>2. CASE Checkpoint(c)
    BY <1>1, <2>2, CheckpointRows DEF SameRun
  <2>3. CASE FinishCompleted(c)
    BY <1>1, <2>3 DEF FinishCompleted, Without
  <2>4. CASE FinishFailed(c) \/ Defer(c)
    <3>1. CASE job' = Without({c.id})
      BY <1>1, <3>1 DEF Without
    <3>2. CASE /\ c.id \in DOMAIN job
               /\ DOMAIN job' = DOMAIN job
               /\ \A j \in DOMAIN job : j # c.id => job'[j] = job[j]
               /\ SameRun(job'[c.id], job[c.id])
               /\ job'[c.id].running = FALSE
      BY <1>1, <3>2 DEF SameRun
    <3> QED BY <2>4, <3>1, <3>2, FailedRows
  <2>5. CASE Abandon({c})
    BY <2>5 DEF Abandon, Active
  <2> QED BY <1>3, <2>1, <2>2, <2>3, <2>4, <2>5 DEF Settle
<1>4. ASSUME NEW cs \in SUBSET receipts, Abandon(cs)
      PROVE  Stays
  BY <1>4 DEF Abandon, Active
<1>5. CASE Tick
  BY <1>1, <1>5, TickRows DEF SameRun
<1>6. CASE UNCHANGED vars
  BY <1>6 DEF vars, Active
<1> QED BY <1>2, <1>3, <1>4, <1>5, <1>6

\* An answer the queue takes ends the run of its row.
LEMMA AnsweredInactive ==
    ASSUME TypeOK, NEW c \in receipts,
           FinishCompleted(c) \/ FinishFailed(c) \/ Defer(c)
    PROVE  c.id \notin Active'
<1>1. CASE FinishCompleted(c)
  BY <1>1 DEF FinishCompleted, Without, Active
<1>2. CASE FinishFailed(c) \/ Defer(c)
  <2>1. CASE job' = Without({c.id})
    BY <2>1 DEF Without, Active
  <2>2. CASE job'[c.id].running = FALSE
    BY <2>2 DEF Active
  <2> QED BY <1>2, <2>1, <2>2, FailedRows
<1> QED BY <1>1, <1>2

\* The payload of a row is that of a request with its key and group, and the
\* payload of an honoured receipt is its row's.
PayloadInv == TypeOK /\ ReceiptsIssued /\ ReceiptPayloads /\ PayloadsLogged

\* Payloads, keys and groups stay together, whatever the clocks read.
LEMMA PayloadInvariant ==
    ASSUME KeyDecidesGroup
    PROVE  Spec => []PayloadInv
<1>1. Init => PayloadInv
  BY InitType DEF Init, PayloadInv, ReceiptsIssued, ReceiptPayloads, PayloadsLogged
<1>2. PayloadInv /\ [Next]_vars => PayloadInv'
  BY NextType, ReceiptsIssuedStep, ReceiptPayloadsStep, PayloadsLoggedStep DEF PayloadInv
<1> QED BY <1>1, <1>2, PTL DEF Spec
=============================================================================
