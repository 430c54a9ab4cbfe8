------------------------------ MODULE JobQueue ------------------------------
(***************************************************************************)
(* One lane of the PostgreSQL job queue (schema zc_jobs on top of pgmq).   *)
(*                                                                         *)
(* Every mutation takes the lane's advisory lock for its whole             *)
(* transaction (checkpoint is a single UPDATE), so each SQL function is    *)
(* one action.  Handlers run outside any transaction: between two actions  *)
(* every other caller may act, time may pass, a lease may expire and a     *)
(* worker may vanish.  A caller holds a receipt (the ClaimedJob that claim *)
(* returned) and may present it at any time, however old: this module lets *)
(* it, and JobRuntime restricts it to what the worker process does.        *)
(***************************************************************************)
EXTENDS Integers, Sequences, FiniteSets

CONSTANTS
    Kind,           \* the distinct (task, key, group) identities requests have
    NoKey, NoGroup, \* SQL NULL in job_key and in lock_group
    KeyOf,          \* queue_identity: the job_key of a kind
    GroupOf,        \* queue_identity: the lock_group of a kind
    MaxAttempts,    \* TaskIdentifier::max_attempts of a kind
    VT,             \* VISIBILITY_SECONDS, in ticks
    Lag,            \* ticks that may separate two clock readings of one call
    RunAt,          \* delays, in ticks, a request may be enqueued with
    DeferDelay,     \* delays, in ticks, defer_delay may choose
    RetryTicks,     \* LEAST(300, 5 * 2^n) seconds in ticks, for n in 0..10
    Concurrency,    \* the most free handler slots a claim is made for
    MaxRequests,    \* bound: enqueue calls
    MaxDefers,      \* bound: deferrals (attempts given back)
    MaxSteps        \* bound: checkpoints written on one payload

ASSUME IdentityAssumption ==
    /\ DOMAIN KeyOf = Kind
    /\ DOMAIN GroupOf = Kind
    /\ MaxAttempts \in [Kind -> Nat \ {0}]

ASSUME BoundAssumption ==
    /\ VT \in Nat \ {0}
    /\ Lag \subseteq Nat
    /\ RunAt \subseteq Nat
    /\ DeferDelay \subseteq Nat
    /\ RetryTicks \in [0..10 -> Nat]
    /\ Concurrency \in Nat
    /\ MaxRequests \in Nat
    /\ MaxDefers \in Nat
    /\ MaxSteps \in Nat

VARIABLES
    job,        \* the zc_jobs.job table joined with its pgmq message: id -> row
    nextId,     \* the next pgmq message id
    receipts,   \* ClaimedJob values handed out and not yet given up
    archive,    \* requests whose message pgmq.archive keeps
    log,        \* history: the kind of every request, in enqueue order
    done,       \* history: requests whose handler's success was recorded
    defers      \* history: deferrals so far

vars == <<job, nextId, receipts, archive, log, done, defers>>

JobId == 1..MaxRequests
Request == 1..MaxRequests

\* payload is abstracted to the number of the request that wrote it and the
\* number of checkpoints written since; vt and lease_until are kept as the
\* number of ticks that are left.
Row == [key : {KeyOf[k] : k \in Kind}, group : {GroupOf[k] : k \in Kind},
        req : Request, step : 0..MaxSteps, max : Nat \ {0},
        attempts : Nat, generation : Nat, running : BOOLEAN,
        lease : Nat, vt : Nat]

Receipt == [id : JobId, generation : Nat, req : Request]

-----------------------------------------------------------------------------

\* Mutant: ticks that are not stopped at zero.
LessUnclamped(n) == n - 1

Less(n) == IF n > 0 THEN n - 1 ELSE 0
Lesser(a, b) == IF a < b THEN a ELSE b

RetryDelay(attempts) == RetryTicks[Lesser(attempts - 1, 10)]

Active == {i \in DOMAIN job : job[i].running /\ job[i].lease > 0}

SameKey(r, s) == r.key # NoKey /\ r.key = s.key
SameGroup(r, s) == r.group # NoGroup /\ r.group = s.group

Conflict(i, j) ==
    i # j /\ (SameKey(job[i], job[j]) \/ SameGroup(job[i], job[j]))

\* The key of DISTINCT ON in claim; the first component is its prefix.
ConflictIdentity(i) ==
    IF job[i].group # NoGroup THEN <<"g", job[i].group>>
    ELSE IF job[i].key # NoKey THEN <<"k", job[i].key>>
    ELSE <<"i", i>>

\* Mutant: the search for a pending row does not exclude running ones.
PendingOrRunning(key) == {i \in DOMAIN job : job[i].key = key /\ key # NoKey}

\* The row that enqueue coalesces a keyed request into.
Pending(key) ==
    {i \in DOMAIN job : job[i].key = key /\ key # NoKey /\ ~job[i].running}

\* Mutant: the lease is checked without its generation.
LiveAnyGeneration(c) == c.id \in Active

\* A receipt the queue still honours.
Live(c) ==
    /\ c.id \in Active
    /\ job[c.id].generation = c.generation

Without(ids) == [i \in DOMAIN job \ ids |-> job[i]]

-----------------------------------------------------------------------------

Init ==
    /\ job = [i \in {} |-> {}]
    /\ nextId = 1
    /\ receipts = {}
    /\ archive = {}
    /\ log = <<>>
    /\ done = {}
    /\ defers = 0

NewRow(k, delay) ==
    [key |-> KeyOf[k], group |-> GroupOf[k], req |-> Len(log) + 1, step |-> 0,
     max |-> MaxAttempts[k], attempts |-> 0, generation |-> 0,
     running |-> FALSE, lease |-> 0, vt |-> delay]

Renewed(r, k) ==
    [r EXCEPT !.req = Len(log) + 1, !.step = 0, !.max = MaxAttempts[k]]

\* A keyed request replaces the payload and max_attempts of the first pending
\* row with its key, and nothing else of it.
Coalesce(k) ==
    \E i \in Pending(KeyOf[k]) :
        /\ \A j \in Pending(KeyOf[k]) : i <= j
        /\ job' = [job EXCEPT ![i] = Renewed(@, k)]
        /\ UNCHANGED nextId

Insert(k, delay) ==
    /\ Pending(KeyOf[k]) = {}
    /\ job' = [i \in DOMAIN job \cup {nextId} |->
                 IF i = nextId THEN NewRow(k, delay) ELSE job[i]]
    /\ nextId' = nextId + 1

Enqueue(k, delay) ==
    /\ Len(log) < MaxRequests
    /\ Coalesce(k) \/ Insert(k, delay)
    /\ log' = Append(log, k)
    /\ UNCHANGED <<receipts, archive, done, defers>>

\* Mutant: a running row is not offered again when its lease has expired.
CandidatesPending ==
    {i \in DOMAIN job : job[i].vt = 0 /\ ~job[i].running
                          /\ \A a \in Active : ~Conflict(i, a)}

Candidates ==
    {i \in DOMAIN job : job[i].vt = 0 /\ \A a \in Active : ~Conflict(i, a)}

\* Mutant: the newest row of an identity goes first.
FirstsNewest ==
    {i \in Candidates :
        \A j \in Candidates : ConflictIdentity(i) = ConflictIdentity(j) => i >= j}

Firsts ==
    {i \in Candidates :
        \A j \in Candidates : ConflictIdentity(i) = ConflictIdentity(j) => i <= j}

Selected(count) ==
    {i \in Firsts : Cardinality({j \in Firsts : j < i}) < count}

\* Mutant: the loop does not check for a conflict again.
FencedNever(i, granted) == FALSE

\* The loop of claim visits the selected rows in id order; a row is skipped
\* when a row granted before it in the same call has its key or group.
Fenced(i, granted) == \E j \in granted : j < i /\ Conflict(i, j)

Claimable(i) == job[i].attempts < job[i].max

IsGrant(granted, count) ==
    /\ granted \subseteq Selected(count)
    /\ \A i \in Selected(count) :
          i \in granted <=> ~Fenced(i, granted) /\ Claimable(i)

Exhausted(granted, count) ==
    {i \in Selected(count) : ~Fenced(i, granted) /\ ~Claimable(i)}

\* vt is written before lease_until, each from its own reading of the clock.
Leased(r, lag) ==
    [r EXCEPT !.running = TRUE, !.attempts = @ + 1, !.generation = @ + 1,
              !.vt = VT, !.lease = VT + lag]

Claim(count) ==
    \E granted \in SUBSET Selected(count), lag \in Lag :
        /\ IsGrant(granted, count)
        /\ job' = [i \in DOMAIN job \ Exhausted(granted, count) |->
                     IF i \in granted THEN Leased(job[i], lag) ELSE job[i]]
        /\ receipts' = receipts \cup
             {[id |-> i, generation |-> job[i].generation + 1,
               req |-> job[i].req] : i \in granted}
        /\ archive' = archive \cup {job[i].req : i \in Exhausted(granted, count)}
        /\ UNCHANGED <<nextId, log, done, defers>>

\* lease_until is written before pgmq.set_vt.
Extended(r, lag) == [r EXCEPT !.lease = VT, !.vt = VT + lag]

Heartbeat(c) ==
    /\ Live(c)
    /\ \E lag \in Lag :
          job' = [job EXCEPT ![c.id] = Extended(@, lag)]
    /\ UNCHANGED <<nextId, receipts, archive, log, done, defers>>

\* The handler stores its progress: the payload it was given, one step on.
Progressed(r, req) == [r EXCEPT !.req = req, !.step = @ + 1]

Checkpoint(c) ==
    /\ Live(c)
    /\ job[c.id].step < MaxSteps
    /\ job' = [job EXCEPT ![c.id] = Progressed(@, c.req)]
    /\ UNCHANGED <<nextId, receipts, archive, log, done, defers>>

FinishCompleted(c) ==
    /\ Live(c)
    /\ job' = Without({c.id})
    /\ done' = done \cup {c.req}
    /\ receipts' = receipts \ {c}
    /\ UNCHANGED <<nextId, archive, log, defers>>

Returned(r, attempts, delay) ==
    [r EXCEPT !.running = FALSE, !.lease = 0, !.attempts = attempts, !.vt = delay]

FailExhausted(c) ==
    /\ ~Claimable(c.id)
    /\ job' = Without({c.id})
    /\ archive' = archive \cup {job[c.id].req}

\* Mutant: any row of the key supersedes the failed one, itself included.
FailSupersededByAny(c) ==
    /\ Claimable(c.id)
    /\ \E i \in DOMAIN job : SameKey(job[i], job[c.id])
    /\ job' = Without({c.id})
    /\ UNCHANGED archive

FailSuperseded(c) ==
    /\ Claimable(c.id)
    /\ Pending(job[c.id].key) # {}
    /\ job' = Without({c.id})
    /\ UNCHANGED archive

FailRetry(c) ==
    /\ Claimable(c.id)
    /\ Pending(job[c.id].key) = {}
    /\ job' = [job EXCEPT ![c.id] =
                 Returned(@, @.attempts, RetryDelay(@.attempts))]
    /\ UNCHANGED archive

FinishFailed(c) ==
    /\ Live(c)
    /\ FailExhausted(c) \/ FailSuperseded(c) \/ FailRetry(c)
    /\ receipts' = receipts \ {c}
    /\ UNCHANGED <<nextId, log, done, defers>>

\* defer gives the attempt back; with a pending request of its key it drops
\* the row through finish(NULL) instead, although nothing was completed.
DeferSuperseded(c) ==
    /\ Pending(job[c.id].key) # {}
    /\ job' = Without({c.id})

DeferRetry(c) ==
    /\ Pending(job[c.id].key) = {}
    /\ \E delay \in DeferDelay :
          job' = [job EXCEPT ![c.id] = Returned(@, Less(@.attempts), delay)]

Defer(c) ==
    /\ Live(c)
    /\ defers < MaxDefers
    /\ DeferSuperseded(c) \/ DeferRetry(c)
    /\ receipts' = receipts \ {c}
    /\ defers' = defers + 1
    /\ UNCHANGED <<nextId, archive, log, done>>

\* Receipts are given up without an accepted answer: a handler was cancelled,
\* finish or defer returned false, or a process died with all that it held.
Abandon(cs) ==
    /\ receipts' = receipts \ cs
    /\ UNCHANGED <<job, nextId, archive, log, done, defers>>

\* clock_timestamp() moves on.
Aged(r) == [r EXCEPT !.lease = Less(@), !.vt = Less(@)]

Tick ==
    /\ \E i \in DOMAIN job : job[i].lease > 0 \/ job[i].vt > 0
    /\ job' = [i \in DOMAIN job |-> Aged(job[i])]
    /\ UNCHANGED <<nextId, receipts, archive, log, done, defers>>

Settle(c) == FinishCompleted(c) \/ FinishFailed(c) \/ Defer(c) \/ Abandon({c})

Next ==
    \/ \E k \in Kind, delay \in RunAt : Enqueue(k, delay)
    \/ \E count \in 1..Concurrency : Claim(count)
    \/ \E c \in receipts : Heartbeat(c) \/ Checkpoint(c) \/ Settle(c)
    \/ \E cs \in SUBSET receipts : Abandon(cs)
    \/ Tick

Spec == Init /\ [][Next]_vars
-----------------------------------------------------------------------------

RowsOK ==
    /\ nextId \in 1..(Len(log) + 1)
    /\ DOMAIN job \subseteq 1..(nextId - 1)
    /\ job \in [DOMAIN job -> Row]
    /\ \A i \in DOMAIN job : job[i].running => job[i].attempts > 0

HistoryOK ==
    /\ log \in Seq(Kind)
    /\ Len(log) <= MaxRequests
    /\ receipts \subseteq Receipt
    /\ archive \subseteq Request
    /\ done \subseteq Request
    /\ defers \in 0..MaxDefers

\* The type invariant: table rows and messages as zc_jobs.job declares them,
\* ids as pgmq issues them, and a running row has used an attempt.
TypeOK == RowsOK /\ HistoryOK

\* Two rows whose leases are both valid share neither a key nor a group,
\* whatever expires, is retried or is claimed again (claim, lines 11-21 and
\* 28-32 of the optimised migration).
ActiveExclusive == \A i, j \in Active : ~Conflict(i, j)

\* A key has at most one row that is not running, so a new request always has
\* one row to coalesce into (enqueue, finish and defer keep it so together).
PendingUnique ==
    \A i, j \in DOMAIN job :
        i # j /\ SameKey(job[i], job[j]) => job[i].running \/ job[j].running

\* Receipts name rows the queue has issued, in generations it has reached, and
\* a row and a generation identify one receipt.
ReceiptsIssued ==
    /\ \A c \in receipts :
          /\ c.id < nextId
          /\ c.id \in DOMAIN job => c.generation <= job[c.id].generation
    /\ \A c, d \in receipts :
          c.id = d.id /\ c.generation = d.generation => c = d

\* Of all the receipts still held, by workers that lost their lease without
\* noticing too, no two that the queue would honour concern one row or
\* conflicting rows: at most one handler per key and group can have its
\* checkpoint, completion or deferral accepted.
LiveReceiptsExclusive ==
    \A c, d \in receipts :
        c # d /\ Live(c) /\ Live(d) => c.id # d.id /\ ~Conflict(c.id, d.id)

\* The requests for one key that a later request of that key replaces.
Superseded(n) ==
    \E m \in DOMAIN log :
        m > n /\ KeyOf[log[n]] # NoKey /\ KeyOf[log[m]] = KeyOf[log[n]]

Settled(n) == n \in done \/ n \in archive \/ Superseded(n)

\* No request vanishes: until it succeeded, was archived or a newer request
\* of its key was made, some row carries it, through every coalescing, retry,
\* deferral, checkpoint, expired lease and drop of a superseded row.
NoRequestLost ==
    \A n \in DOMAIN log :
        Settled(n) \/ \E i \in DOMAIN job : job[i].req = n

\* The conditions under which no request is lost: the clock readings of one
\* call agree, so a row turns visible exactly when its lease ends, and
\* queue_identity gives one key one group.
ExactClock == Lag = {0}

\* queue_identity gives requests with one key one lock group.
KeyDecidesGroup ==
    \A k, l \in Kind :
        KeyOf[k] # NoKey /\ KeyOf[k] = KeyOf[l] => GroupOf[k] = GroupOf[l]

\* A row has the key and group of the request whose payload it carries.
PayloadsLogged ==
    \A i \in DOMAIN job :
        /\ job[i].req \in DOMAIN log
        /\ job[i].key = KeyOf[log[job[i].req]]
        /\ job[i].group = GroupOf[log[job[i].req]]

\* A receipt the row has not outgrown has the payload of the row.
ReceiptPayloads ==
    \A c \in receipts :
        c.id \in DOMAIN job /\ job[c.id].running
            /\ job[c.id].generation = c.generation => job[c.id].req = c.req

\* With agreeing clocks a running row turns visible when its lease ends.
LeaseAligned ==
    \A i \in DOMAIN job : job[i].running => job[i].lease = job[i].vt

\* Of two rows with one key the older is running the older request and the
\* younger waits: claim never runs a request ahead of an earlier one of its
\* key, even when the earlier one's lease has expired.
KeyOrder ==
    \A i, j \in DOMAIN job :
        i < j /\ SameKey(job[i], job[j]) =>
            job[i].running /\ ~job[j].running /\ job[i].req < job[j].req

\* A row that is dropped because another pending row of its key exists is
\* dropped in favour of a newer request (comment of finish, line 143: "The
\* latest pending request supersedes this failed recalculation").
SupersededByLatest ==
    [][\A c \in receipts :
          FinishFailed(c) /\ c.id \notin DOMAIN job' /\ Claimable(c.id) =>
            \E i \in DOMAIN job' :
                SameKey(job'[i], job[c.id]) /\ job'[i].req > job[c.id].req]_vars

\* Handlers end, workers keep polling and time passes; deferrals are bounded
\* (MaxDefers) as a database outage is.
Fairness ==
    /\ WF_vars(Tick)
    /\ WF_vars(\E count \in 1..Concurrency : Claim(count))
    /\ WF_vars(\E c \in receipts : Settle(c))

FairSpec == Spec /\ Fairness

\* Every request is settled in the end: completed, archived or superseded,
\* even when each handler that runs it dies.
RequestSettles ==
    \A n \in Request : (n \in DOMAIN log) ~> (n \in DOMAIN log /\ Settled(n))
=============================================================================
