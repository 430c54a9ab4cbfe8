# ZeepCentraal: TLA+ models, checks and proofs

This directory holds formal models of the parts of ZeepCentraal whose
correctness depends on the order in which several actors act. TLC checks them on
small instances; TLAPS proves the central theorems for every instance.

- To check a run: `tlc -workers 2 -config X.cfg M`, with the module and cfg of the
  table in section 3.
- To check the proofs: `tlapm M.tla` for the eight modules named `*_proofs`.

`PROJECT.json` lists components, runs, mutants, hazards and theorems, and maps
every definition to the source lines it models.

## 1. The system

ZeepCentraal is the backend of a community of the racing game Zeepkist: players'
records and ghosts arrive over HTTP, jobs validate and score them, and managed
lobbies are hosted on the game's own servers. Rust crates (`src/crates`) do the
background work; TypeScript packages (`src/packages`) hold the schema and its
services, the GraphQL API with its live queries, and the web site.

| Component | State it keeps | Operations | Talks to | Modelled in |
|---|---|---|---|---|
| Job queue (`database/drizzle/0083_pgmq_queue.sql`, the `optimize_job_claims` migration, `crates/jobs/queue.rs`) | rows joined with pgmq messages: key, group, payload, attempts, generation, lease, visibility | enqueue (coalescing), claim, heartbeat, checkpoint, finish, defer, fenced fan-out pages | every writer enqueues, workers do the rest | `JobQueue` |
| Job worker runtime (`crates/jobs/runtime.rs`) | two lanes, each a set of tasks | claim, execute with heartbeats, acknowledge, shutdown and drain | queue, handlers | `JobRuntime` |
| Lidgren client (`packages/core/zeepnet/lidgrenClient.ts`; `crates/core/zeepnet/lidgren.rs` is the same protocol) | send and receive windows, transfers, fragments, handshake | connect, send, receive, ack, resend, close | the game's server over UDP | `LidgrenChannel`, `OrderedChannel` |
| Lobby level transfer (`crates/lobby-host/transfer.rs`) | active, pending and previous level, playlist, activation, timing | activate, cancel, observe, upload, update the playlist, close | room session, profiles, game server | `LevelTransfer` |
| Lobby room session (`lobby-host/runtime.rs`, `runtime/connection.rs`, `runtime/receipt.rs`) | host authority, roster, session tasks | receive, recover the host, start and stop a session | Lidgren client, level transfer | the part that drives the transfer, in `LevelTransfer` |
| Live query poller (`packages/postgraphile/liveQueryInvalidationPoller.ts`) | ids already seen, a poll under way, a generation | start, stop, poll, prune | PostgreSQL, live queries | `InvalidationPoller` |
| Live queries (`liveQueryWebSocket.ts`, `postgraphileRuntime.ts`) | connections, subscriptions, shared operations, queues, replay cache | subscribe, complete, execute, rerun, close, dispose | web sockets, poller, GraphQL | `LiveQuery` |
| Records, scores, tournaments (`packages/database/services`) | records, personal bests, world records and their counts, scores, tournaments and results | submit, persist a score, rank, reset, rotate | PostgreSQL | `RecordSubmission` |
| Lobby publication queue (`lobby-host/runtime/publication.rs`) | batches of packets with their generation, a count, the times the server measured, a `Notify` | publish, coalesce, note a native finish, send, stop | profiles, chat, receipt task, game server | `Publication` |
| Web playlists (`packages/web`, `stores/playlists.ts`, `playlistDatabase.client.ts`) | a copy of the playlists per tab, a baseline, a save queue | edit, save, refresh, merge | IndexedDB, BroadcastChannel | `PlaylistTabs` |
| Lobby supervision, profiles | a task per room; phases and standings | restart, assign; react | room session, database | - |
| Job scheduler, job handlers | an advisory lock; progress in payloads | enqueue what is due; compute | queue, database | - |
| Backend API server, database pool, other services | rate limit counters, connections | HTTP routes, transactions | database, queue | - |
| Inspector Zeep, Discord bot, Streamkist, workshop scanner | scans, feed cursors, streams, items | poll, render, post | Discord, Twitch, Steam | - |
| Formats and scores, web pages, generated GraphQL | none | decode, compute, render | - | - |

### Where it is hard

- **Leases and time.** The queue holds no transaction while a handler runs. A lease
  expires by the database's clock, the worker learns of it at its next heartbeat,
  and the row has two clocks of its own: `lease_until` and pgmq's `vt`, written
  from two readings of `clock_timestamp()`.
- **Coalescing.** A request with a key replaces the payload of the row that waits
  under that key. Rows wait, run, fail, are deferred and superseded, and the newest
  request must survive all of it.
- **Failure.** A worker may be killed, lose a reply, or end because a sibling task
  lost its lease; a shutdown has to drain without leaving leases.
- **The network** loses, repeats and reorders datagrams; sequence numbers wrap after
  1024; acknowledgements, resends and expiring fragments overlap with a close.
- **Locks released across awaits.** An activation of a level spans two packets and
  two broadcasts; meanwhile callers time out, levels are loaded for older requests,
  playlists are updated and the host may be lost.
- **Snapshots.** Ids of invalidations commit out of order; a poll, a query's
  execution or a statement under READ COMMITTED reads one state while another is
  being committed, and acts on it later.
- **A bounded queue** is coalesced, cut and drained while its task awaits an
  acknowledgement; a notification given too early must not be lost.
- **Several tabs** edit, save and merge the same playlists without a lock between
  what one reads and what it later writes.

### What makes each component correct

| Component | Correct when |
|---|---|
| Queue | at most one valid lease per key and group; only the newest receipt of a row is honoured; no request is lost; requests of a key run in order; each is settled in the end |
| Runtime | no two handlers of one group at once; the queue is used only through its functions; a shutdown orphans no lease and ends |
| Lidgren client | payloads in order, once, none missing; a confirmed payload has arrived; every send and every connect is answered |
| Level transfer | an activation keeps its level and its waiter; ok means loaded and played since asked; stale work, cancellations and updates change nothing |
| Publication queue | the server ends with the standings published last; the count is what waits and is being sent; the task comes to rest |
| Poller | a committed invalidation reaches the listener; one it was told of is the only kind it takes for seen |
| Live queries | a client at rest shows the current answer; counters and queues agree with what they count; the poller is used by its protocol |
| Records and tournaments | bests and world records are the fastest; counts are those of the records; final tournaments stay; no deadlock but the two named ones |
| Playlists | no edit is overwritten or dropped; what shows as saved is what is stored; every edit is stored or an error is shown |

## 2. The models

### JobQueue

`JobQueue` is one lane of `zc_jobs`. The functions are plpgsql and take the lane's
advisory lock first, so each is one atomic action: `Enqueue` (`Coalesce` or
`Insert`), `Claim`, `Heartbeat`, `Checkpoint`, `FinishCompleted`, `FinishFailed`
(`FailExhausted`, `FailSuperseded`, `FailRetry`), `Defer` (`DeferSuperseded`,
`DeferRetry`), and `Abandon` for a worker that drops what it claimed. `claim` is the
version of the `optimize_job_claims` migration, the others are those of
`0083_pgmq_queue.sql`.

- `job` is the table joined with its pgmq message. `lease` and `vt` are the ticks left
  of `lease_until` and of the message's visibility, and `Tick` is the clock. A payload
  is the number of the request that wrote it plus a count of checkpoints.
- `Lag` is the number of ticks that may pass between the two clock readings of one
  call: `{0}` is a database whose readings agree, `{0, 1}` one where the row stays
  invisible for a tick after its lease ended.
- `receipts` are the `ClaimedJob` values in anybody's hands. Any of them may be
  presented at any time, so stale workers need no model of their own here.
- `log` and `done` are history: the requests made and the successes recorded.
- A claim looks at the rows in the order of their ids, as the loop of `claim` does;
  `IsGrant` characterises the set it grants.

### JobRuntime

`JobRuntime` puts worker processes around an instance `Q` of `JobQueue`. A process runs
one lane: `ClaimCall` is the query, `ClaimReply` or `ClaimReplyLost` its answer, and
each claimed job becomes a task with a phase and the age of its last heartbeat. The
handler is anything that checkpoints and ends in one of three ways. `BeatAccepted`,
`BeatRefused`, `BeatUnavailable` are the results of a heartbeat, `AnswerAccepted`,
`AnswerReplyLost`, `AnswerRefused`, `AnswerUnavailable` those of `finish` and `defer`.
`LaneFails` is the error return of `run_lane`, which drops the other tasks; `Dies` is a
kill or the sibling lane's failure; `Shutdown`, `Stop` and `Restart` are the life of the
process.

Two assumptions about time are in `Tick`: a due heartbeat is answered within `MaxStall`
ticks, and a claim is answered within the tick. The code enforces neither.
`ExclusiveExecution` needs `HeartbeatEvery + MaxStall < VT`; with the code's 20 s and 60 s
that is a stall of less than 40 s. A handler that blocks its thread for longer breaks
it, and then the queue's fencing by generation (`LiveReceiptsExclusive`) is what remains.

### LidgrenChannel and OrderedChannel

`OrderedChannel` is the promise: payloads of a channel come out in the order they went
in, each once, none missing except those the receiver gave up, which never come out.
`LidgrenChannel` is the TypeScript client. `conn` is the connection: `Connect`,
`SendConnect`, `ConnectResponse`, `HandshakeTimeout`, `Close`, `Fail` inside the steps
that fail, `FlushEnds` and `FinishClosed` for the close of the socket. `snd` is the sending half: `EnqueueTransfer`,
`ReceiveAck`, `Resend`, `SendTimeout`; `Flush` is the loop of `flushReliableQueue` and part
of every action whose code calls it. `rcv` is the receiving half of the peer: `Deliver`
(`Advance`, `Withhold`, `Discard`) and `ExpireFragments`. The peer is the game's library;
its half is taken to run the same protocol (assumption). `net` and `acks` are sets of
datagrams: any may be delivered again, in any order, or be lost (`Lose`). Each message
also has its absolute number `n`, which the code does not have.

`Timely` is what the protocol needs and does not ensure: while a message is
unacknowledged no more than `ReceiveWindow` newer ones are sent on its channel, and no
datagram is older than half the sequence numbers. The sender limits the number of
pending messages, not their spread (finding 2), so this is an assumption about loss and
delay.

Left out: ping and the inactivity timeout (both end in `fail`), the byte limits,
encodings.

### LevelTransfer

`LevelTransfer` models one session's `LevelTransfer` struct (`t`), a mutex that is
released across every await. Each step is what one holder does with the lock:

- callers of `activate`: `Activate`, `PacketsSent`, `Succeed`, and `GiveUp` followed by
  `Cancel`. From `GiveUp` on the receiver of the answer is dropped; `Cancel` is the drop of
  `ActivationLease`, which may have to wait for the lock, and is a step of its own;
- the receipt task: `Receive` (`observe_received` for one packet) and `PrepareWork`, which
  takes the lock again;
- the transfer worker: `TakeWork`, `Load`, `WorkFails`, `Commit`, with the two tests of
  `work_current` and the one in `commit_work`;
- `PreparePlaylist`, `CommitPlaylist`, `DropPlaylist` for `update_playlist`;
- `LoseAuthority` and `Close` for the end of the session.

A level is an identity and a content (`same_level` compares both, everything else the
identity). `heard`, `origin` and `installed` are history. The server's packets are arbitrary
except that it sends its initial packet only before the session; `start_session` seeds
the transfer with it, which is `Init`. Left out: an `Initial` packet during the session,
the round time, and the events that go to the profile.

### Publication

`Publication` is `Publisher`, one object of a session. `outbox` is its `Queue`, as the sequence of the
packets with the generation and kind of their batches; `run` is the task of `run` with its
`Notify` (one waiter, one permit: `NotifyOne`, `NotifyWaiters`, `Armed`, `Disarmed` are what tokio
documents). `Publish` is `enqueue` up to the lock, with the generation it has read, `Enqueue` or
`Refused` the rest; `NativeFinish`, `Advance` (`advance_generation`), `StopBegins` and `StopClears`
(`ActiveSession::stop`) come from the session. `Arms`, `Takes`, `Sends`, `Acknowledged` or `SendFails`,
`Counts`, `Wakes` are the steps of the loop, and `Aborts` the end of the task wherever it is. A packet
is a time or a style of a player, or a line of chat. `history` is what was asked for last, what
was sent, and `crossed`: whether a call that had read the generation before took the lock
when there was something of the newer one to drop.

### InvalidationPoller

The invalidation table and one poller. `Insert`, `Commit` and `RollBack` are the
transactions that write to a watched table: an id is allocated when the row is
inserted and becomes visible when its transaction commits. `Start`, `Stop` and `Restart` (a stop
and a start between two steps of a poll) are the listener; `Interval` begins a poll,
`Read` is `getIds`, `Compare` what follows it, `Prune` the deletion, `PollFails` a rejection
of either, `Outdated` a poll of a generation that has ended, `RefreshDue` a minute passing.
`signalled` is history: what the present listener was told of.

### LiveQuery

`LiveQuery` extends the poller, so the two are composed in one module: their steps
share `poller` and `table`, and `PollSpec` as a property says that the handlers start and
stop the poller as its own specification allows. A step is what runs between two
awaits: `Subscribe` and `Accept` or `Abandon` are the two sides of the validation of a
message, `Execute`, `Succeed` or `Fail`, and `Finally` those of an execution, `Complete`,
`Close`, `Debounced`, `Dispose`, `Drained`, `Release` the rest. `conn[c].chain` is the
promise chain that handles a connection's messages one at a time. `Attach`, `DeleteOperation`,
`DropShared`, `CacheReplay`, `PumpQueue`, `Enqueue` and `RerunAll` are the functions of those
names, operators on the record `hub` that is the closure's state. A result is a model
value with a size; a query's answer changes when an invalidation row commits. Parsing,
validation and the cost of a query are their acceptance or refusal.

### RecordSubmission

The transactions of `packages/database` that write records, bests, counts, scores and
tournaments, each session running one at a time: `Submit` (`submitRecord`), `Persist`
(`persistUserPointScore`), `Rank` (`updateUserRanks`), `Reset` (`resetInactiveUserScores`)
and `Rotate` (`rotateTrackTournament`). `db` is what is committed, `put` what a transaction
wrote; `View` is what a statement of READ COMMITTED sees. `want` lists the advisory and row
locks the next statement takes, in order; `TakeLock` grants the first of them when nobody holds
a conflicting one. A step is one statement, or several between which nobody else can
tell. `TxAbort` is an error or a deadlock victim.

### PlaylistTabs

Each tab is a record: its copy (`view`), the stored version each playlist came from
(`baseline`), the debounce timer, the queue of saves and refreshes, which `PlaylistDatabase`
runs one at a time, and what the running one holds. `Open`, `LoadRead`, `Hydrate` are the
start of a tab; `Create`, `Duplicate`, `Import`, `Edit`, `AddLevel`, `EditLevels`, `Delete`, `SetActive`
the user; `PersistNow`, `SaveBegins`, `SaveStores` (the IndexedDB transaction with its
conflict test) or `SaveAborts`, `SaveEnds` (the broadcast) a save; `Synchronize`, `RefreshBegins`,
`RefreshReads` or `RefreshFails`, `RefreshEnds` (the merge) a refresh; `Close` a closed tab. A version
is the sequence of edits that led to it. Names, levels and settings are not told apart.

`MCParts` puts `InvalidationPoller`, `PlaylistTabs` and `Publication` in one run: they share nothing,
and a behavior of it is one of the three, never of two.

## 3. The runs

| Run | Module, cfg | Checks | Shows |
|---|---|---|---|
| queue | MCJobQueue, JobQueue | TypeOK, ActiveExclusive, LiveReceiptsExclusive, NoRequestLost, KeyOrder, SupersededByLatest, RequestSettles | leases and receipts exclude each other although one key occurs in two groups; nothing is lost, keys run in order, every request settles |
| queue_superseded | MCJobQueue, JobQueueSuperseded | SupersededByLatest (violated) | finding 1 |
| runtime_safety | MCJobRuntime, JobRuntimeSafety | ExclusiveExecution, NoOrphanedLease, QueueSpec | no two handlers of a group at once, no orphaned lease; the processes implement the queue's specification |
| runtime_live | MCJobRuntime, JobRuntimeLive | RequestSettles, ShutdownEnds | requests settle through a fault and a shutdown |
| lidgren | LidgrenChannel, LidgrenChannel | RetriedUntilAcked, AckedIsReceived, Ordered, SendSettles, ConnectionSettles | the protocol implements the ordered channel when it is timely; sends, connects and closes end |
| lidgren_overrun | LidgrenChannel, LidgrenOverrun | RetriedUntilAcked (violated) | finding 2 |
| transfer_safety | MCLevelTransfer, LevelTransferSafety | ActivationOwnsPending, NoLostWaiter, ActiveIsPlayed, ConfirmedSinceAsked, AbandonedNeverActive | the level and the waiter of an activation |
| transfer_updates | LevelTransfer, LevelTransferUpdates | PlaylistNeverGoesBack, ActivationEnds | updates that cross activations; attempts end |
| live_queries | MCLiveQuery, LiveQuery | HubConsistent, RestIsCurrent, PollSpec | counters, queues and cache agree; a hub at rest shows current answers; the poller's protocol is kept |
| records | MCRecordSubmission, RecordSubmission | RecordsAreFastest, WinsAccurate, ResultsRanked, NoDeadlock, FinalStays | overlapping submissions, scorings, ranks, resets and rotations |
| inactive_reset | MCRecordSubmission, RecordReset | ResetSparesActive (violated) | finding 3 |
| parts | MCParts, Parts | SeenIsSignalled, CommitSignalled, SavedIsCurrent, NoEditOverwritten, NoEditDropped, EditSettles, NewestStands, PublisherSettles | no invalidation is missed; no edit is overwritten, dropped or left unsaved; what was published last is sent, and the publisher rests |

Each property of a passing run has a mutant, a plausible bug in the code, that violates
it; the mutants stand before the definitions they replace.

Some properties are weaker than one would wish, because the code is:

- `RestIsCurrent` excepts a query whose last execution failed (it is run again at the next
  invalidation), an error shown to the client, and a result that was not replayed to a late
  subscriber because it was not in the cache: that client waits for the next execution.
- `NewestStands` excepts a level at which a call crossed: it read the generation before, and drops
  the batches and native times of the newer one when it has the lock.
- `NoDeadlock` excepts circles with the bulk update of ranks, which locks rows in the
  order of its plan, and circles of two rotations, each on its way to the other's level.
- `SavedIsCurrent` excepts a tab to which a broadcast did not go out: it had read the
  playlists and not yet subscribed, or the saving tab was closed after the commit.
- `CommitSignalled` assumes that listeners do not take over from one another for ever: a
  poll of an ended generation is dropped, and `Restart` may come during every poll.

### Bounds

- Queue: three requests over three kinds make one row to run, one to coalesce or to wait
  under the same key, and a third that conflicts by group; one key occurs in two groups, as
  in the queue's own claim test. `VT = 1` lets every lease expire in a tick. `MaxAttempts` is 1
  or 2 so that rows are exhausted. `JobQueueSuperseded` needs two requests of one key, three
  attempts and a lag.
- Runtime: two processes with up to two slots, two requests, one fault, one shutdown.
  `VT = 3`, `HeartbeatEvery = 1`, `MaxStall = 1` is the smallest instance where a late heartbeat
  can still be in time. The live run trades a slot and the stall for a deferral.
- Channels: `Modulus = 6` with windows of 2 keeps the code's relation (windows of 64,
  modulus 1024: twice the window is less than the modulus). Transfers of one or four chunks
  make eight messages, so that the numbers wrap under a gap; `MaxGroups` is 1 and
  `MaxHandshakes` 2, so each limit is reached. `LidgrenOverrun` sends seven chunks, one more
  than there are numbers.
- Level transfer: two activations are one to be late and one to be disturbed; two
  identities tell the level asked for from another; two load times tell a new load from the
  old one. The updates run has one update and one level.
- Publication: two tasks, a player with two fields, two times and a queue of two packets. Two publications are
  one to wait and one to replace it, or, with both fields each, more than the queue holds; one
  change of level and one native finish fall between any two steps.
- Live queries: two connections with one operation id each and two keys share an operation
  or compete for the only execution; three messages are a subscription on each and a
  replacement or completion; three values are two answers and one too long to be sent,
  and the cache holds one replay. One committed invalidation, one failing execution
  and one stop of the runtime can fall between any two steps.
- Records: two sessions, two users, one level, two times and two records make every pair of
  transactions overlap, with a tie or an improvement; one period boundary finalizes a
  tournament. `RecordReset` needs one user and one record. Deadlocks of three sessions and of
  rotations of two types are not reached.
- Poller and playlists: four rows with two tracked overflow the poller; two tabs with two playlists, two
  edits and two faults make a conflict, a merge during an edit and a retry after either.
- `SYMMETRY` permutes processes, level identities and contents, connections, keys and
  answers, or sessions, which no module orders; no run with symmetry checks liveness.
- `CHECK_DEADLOCK FALSE` is set where a bound or an end stops the system: the channels when
  both ends are closed and all is lost, the transfer when its session has ended, live
  queries when the runtime has stopped, records when the ids are used up (a deadlock of
  transactions is `NoDeadlock`), the parts of `MCParts` when edits, rows and publications are. Queue and runtime are checked
  for deadlock.

### Fairness

- `JobQueue!FairSpec`: time passes, workers poll (`POLL_MILLISECONDS` in `run_lane`), and a
  claimed job is answered or dropped. Handlers that never end are excluded; the code sets
  them no limit.
- `JobRuntime!FairSpec`: time, and per process the claim, the loop, the end of some handler and
  the answer of some task; tokio runs every ready task. Deaths, shutdowns and requests are
  not fair. Restart is, inside `Loop`: the deployment restarts a process that ended.
- `LidgrenChannel!TimelyFairSpec`: the maintenance timer, the handshake's timer, and the
  callbacks of the socket's flush and close. The network is not fair at all: a send
  is answered because its attempts run out.
- `LevelTransfer!FairSpec`: the timeout of `activate` (`GiveUp`) and the task its lease spawns
  (`Cancel`). The server is not fair.
- `Publication!PubFairness`: the task of `run` goes on, the client answers its sends, and the two
  steps of `stop` follow one another. Who publishes, ends a level or stops is not fair.
- `InvalidationPoller!PollFairness`: the interval fires, queries are answered or rejected, a
  minute passes. Transactions, starts and stops are not fair.
- `PlaylistTabs!TabsFairness`: each tab's timers and IndexedDB requests go on; the user does
  nothing it need not.

## 4. Findings

1. **A failed row may delete the newest request** (`queue_superseded`). The comment in
   `finish` says that "the latest pending request supersedes this failed recalculation", but
   the code tests only that some row of the key is pending. When the visibility of a row
   outlives its lease, a newer row of the key can be claimed first, and the older, retried row
   is the pending one. With agreeing clock readings this cannot happen (theorem `DroppedForNewer`).
2. **A reliable message may be forgotten** (`lidgren_overrun`). `flushReliableQueue` limits how
   many messages are pending, not their spread. If one stays unacknowledged while 1024 newer ones of
   its channel go through, the new message with its number replaces it in the pending map:
   it is not resent, and its `send` is not answered until the connection ends. At the
   code's constants that is 16 windows of 64 messages within the attempts of one message.
3. **An active user may be reset as inactive** (`inactive_reset`). A comment in
   `resetInactiveUserScores` says that activity is checked again "after obtaining the same lock as
   record submission", but `submitRecord` does not take the user score lock, and a test requires that it
   does not. A record that commits between the check and the update is not seen.

## 5. Proofs

TLAPS proves these for all values of the constants that satisfy the named assumptions in
the modules (`IdentityAssumption`, `BoundAssumption`, `NoneAssumption`, `PollerAssumption`, ...).

`JobQueue_proofs`: `TypeCorrect`, `OnePendingRow`, `OneLease`, `OneHonouredReceipt` hold for any
`Lag`. `KeysRunInOrder`, `NothingLost`, `DroppedForNewer` assume `ExactClock` (readings agree) and
`KeyDecidesGroup` (requests with one key have one group, as `queue_identity` derives them)
and state both as hypotheses.

- `ActiveExclusive` is inductive given the types, because a grant leases only rows that
  conflict with no active row and with no other row of the grant; an extension needs a
  live lease, and a tick only ends leases.
- `LiveReceiptsExclusive` follows from it and `ReceiptsIssued`: a row and a generation
  identify one receipt.
- `KeyOrder` is not inductive alone. Its companions are `PendingUnique`, `LeaseAligned` (a
  running row turns visible exactly when its lease ends), `PayloadsLogged` (a row has the
  identity of the request whose payload it carries) and `ReceiptPayloads` (a receipt the row has
  not outgrown has its payload, so a checkpoint cannot write an older request over a
  newer one). `NoRequestLost` then needs that a superseded row's request is older
  than the pending one's, which is `KeyOrder`.

`JobRuntime_proofs`: `RuntimeImplementsQueue` is the refinement: any number of processes, with
their deaths, lost replies and restarts, take only steps of `JobQueue`. The queue accepts a
step only for a receipt it has handed out and not taken back, so the invariant is
`HoldInv`: what a process holds, in a task that has not been answered or in a reply
not yet read, is among the queue's receipts, and no receipt is in two places.
Without the second half the end of one process could take back a receipt another still
presents. `ReceiptsHeldOnce` states it. `OneLease` and the other theorems about the queue
therefore hold of the processes too.

`OneHandler` and `NoLeaseOrphaned` are about the processes themselves. A running task is
covered by a live lease as long as its heartbeats come in time (`Covered`), and leases of the same
group exclude each other (`Leases`, from the queue's own theorem), so no two handlers
of a group run at once. `OneHandler` has `BeatsInTime` (a heartbeat and the longest
stall fit into the visibility timeout) and `KeyDecidesGroup` as hypotheses, as the code's
constants and `queue_identity` give them; `NoLeaseOrphaned` has none. Its invariant
`Owned` says that, as long as there was no fault, each leased row has a running process
that holds a live receipt of it.

`LiveQuery_proofs`, of the poller: `PollTypeCorrect` and `SeenWasSignalled`. The strengthening says, besides
`SeenIsSignalled`, that a poller that is off has seen nothing: a new generation starts
with an empty history on both sides, and what a poll of the old one read is dropped
by `Outdated`.

Of the live queries: `CountersAgree`, `RestShowsAnswers`, `ImplementsPoller` and `LiveTypeCorrect`, for any number
of websockets, queries, results and rows and any limits. The inductive invariant `LiveInv`
has these parts:

- `Linked`: an attached subscription's operation exists, and an operation has a subscriber;
- `Counted`, `CacheOK`, `ConnInv`: each counter is the cardinality of the set it counts. The bytes of
  the cache are counted as a set of pairs (`CachedBytes`), so that taking a result away
  takes away its pairs;
- `OrderOK`, `MarksOK`: an operation is marked as queued exactly if its queue has it, once
  (`Lists`), and only while it is idle; one that is idle does not have to run again;
- `Pumped`: nobody waits while an execution could begin;
- `ShownOK` and `RestInv`: as long as the handlers are not disposed, an invalidation is to come
  (`Outstanding`), or for each operation there is an execution to come, or one has read the present
  answer, or its subscribers have it (`Fresh`). A commit makes the first true, since its
  row is not yet signalled; a poll that raises hands over to the debounce, `Debounced` to
  executions, and `Deliver` to what is shown. Without the second part of `Fresh`, on subscribers that
  still need their first result, one that joins an execution under way could be
  forgotten by it;
- `PollerInv` and `PhaseInv`: ids signalled or read are of rows that were inserted and are
  not open; the poller runs while somebody subscribes, until the runtime stops.

Loops of the code (`pumpQueue`, the rerun of all, eviction, deleting all of a connection, the calls of
`onActiveChange`) are recursive functions over the rounds. `LoopExists` shows once that there is such a
function, and the `*Is` lemmas say what holds after each round by the least one after which it
would not. What `RemoveFirst`, `Append`, `Tail`, `SetToSeq` and `\o` do to a list of a set is stated in the `Lists*`
lemmas. Each action has one lemma (`SendStep` to `ReleaseStep`), which also shows that it is a
step of the poller or leaves it alone; `ImplementsPoller` follows. `SeenIsSignalled` therefore
holds of the poller inside the handlers too.

`LevelTransfer_proofs`: `TypeCorrect`, `ActivationKeepsItsLevel`, `NobodyWaitsInVain`,
`StaleWorkIsDropped`, `ActiveOnlyWhenPlayed`, `OkIsConfirmed`, `AbandonedIsNeverCompleted`,
`NewestPlaylistStays`. The inductive invariant is the type invariant with
`ActivationOwnsPending`, `NoLostWaiter`, `PendingOfThisGeneration`, a fact on the two flags of an
activation (each is set only when a report has been heard since it began and the timing
still says so) and `installed <= t.revision`. The flags fact is what `ConfirmedSinceAsked` rests
on: `confirm_pending` reads flags set by earlier packets. The action properties follow from
it one disjunct of `Next` at a time.

`PlaylistTabs_proofs`: `EditsNeverOverwritten` and `EditsNeverDropped`. Versions are sequences of
edits, so both say that a step replaces a version by one it is a prefix of (or an absent
playlist by an absent one). `TabsInvariant` is what makes them inductive:

- what a save or a refresh carries lies between its tab's baseline, what the tab shows and
  what is stored (`HeldInOrder`);
- a playlist that has no baseline and is shown has not been stored, and no other tab knows
  it (`UnstoredIsOwn`). Without it two tabs could each take an absent playlist for their
  own, and the conflict test, which takes two absent records for equal, would let the second one
  overwrite the first;
- nothing follows a deletion (`DeletionIsLast`), so that an absent baseline which is not
  empty is the whole version.

`TabsAreCurrent` and `SavedTabsAreCurrent` rest on `TabsCurrent`: an edit that is not stored has a timer,
a queued save or a running one, and a stored version that a subscribed tab has not
read has a broadcast, a queued refresh, a running one or an error on the way. A tab at
rest has none of these, so what it shows is what is stored.

Each action is first reduced to what it does to the versions of one tab (the `*Moves`
lemmas), then shown to keep the invariant (the `*Keeps` lemmas).

`RecordSubmission_proofs`: `RecordsStayFastest` and `WinsStayAccurate`. The inductive invariant
`RecordInv` has four parts:

- `LocksExclude`: no two transactions hold conflicting locks;
- `IdsApart`: records put by transactions under way have ids of their own;
- `Referring`: bests and world records refer to committed records;
- `TxInv` for each transaction: what it wrote so far (`Writes`), the locks that it holds
  or is about to take for its step (`Guarded`), and what it found out and still relies on
  (`Informed`): the personal best under the user-level lock, the world record after the
  recheck. A precheck that saw a world record as fast stays true without a lock, since world
  records only get faster; one that did not has to be repeated, and that is the step
  `Informed` fails at when the recheck is left out.

The tables are functions; `Over` and `Row` write rows over them. `WinsAccurate` is inductive given
`RecordInv`: a new world record changes the counts of its holder and of the one before,
and of nobody else.

Of the tournaments, in the same module: `ResultsStayRanked` and `FinalizedStays`, from `TourInv`. A submission that has
found a tournament open holds its level's lock shared (`Submits`), a rotation that finalizes
one holds it exclusively (`Rotates`), so neither can come in while the other goes on; two submissions
to one tournament are kept apart by the lock of its results, and two rotations by that of the
type. What a submission has put is the whole tournament reranked, and what a rotation
puts is what was there, since committed results are ranked already. `Puts` and `Closes` say
what a commit of either may change, and each is shown to keep the tables in order and
to be unnoticed by all other transactions.

`NeverDeadlocked` states `NoDeadlock` for any finite number of sessions. `WaitInv` gives every
lock a place: no place for the first lock of a transaction, then levels, results by type,
world records, counts by user, rows by user. A submission, a scoring or a reset awaits only
locks that come after all those it holds, and a rotation only levels (`InPlace`). Of the transactions that
wait in a circle take one whose awaited lock comes last (`FiniteMax`, from the least number of a set,
`LeastNat`): the one it waits for awaits a later lock or is a rotation, and two rotations
are excepted, as is the update of ranks. Users and types are numbers of records and tournaments that exist (`Numbered`),
so the sorted orders are orders.

`LidgrenChannel_proofs`: `RetriedWhenTimely` states `RetriedUntilAcked` under `TimelySpec`, which
adds `Timely'` to every step. `SenderInvariant` says of the sender that a transfer owes what is
unsent of it and what is pending (`TransferOK`), that the queue has each open transfer at most once
and only while it has chunks to send (`QueueOK`), and that sequence numbers are the absolute ones
modulo `Modulus` (`NumbersOK`, `MessageOK`). The step that needs `Timely` is the one finding 2
is about: the key of the next message must not be pending (`NextIsNew`). Two numbers with
one remainder are `Modulus` apart (`SameRemainder`), a pending message is at most
`ReceiveWindow` behind when the loop of `flushReliableQueue` begins, and each of its at most `SendWindow`
rounds adds one (`Lag`). What holds of one round holds of the loop by the least
round at which it would fail (`RunKeeps`), so no induction over data is needed, and the
recursive function that models the loop exists by the same argument (`RunExists`).

Under the same specification `AckedWhenTimely` states `AckedIsReceived`, and `OrderedWhenTimely` that the
client and its peer implement `OrderedChannel`. `ChannelInvariant` adds to the sender's invariant two
histories: `at`, the absolute number of each transfer's first message, and `e`, the absolute number
the receiver expects next on each channel. Of the sender it says that the chunks of a
transfer have consecutive numbers from `at` on and later transfers later ones (`Starts`,
`InTurn`), so that a number belongs to one chunk (`SameChunk`), and that every message pending or
under way carries the chunk its number says (`PendingAt`, `NetAt`). Of the receiver it says
that what is expected is `e` modulo `Modulus` and not far behind what was sent
(`ReceiverNumbers`), that a withheld message is ahead of `e` by at most the window and held under its own
number (`WithheldAt`), that what came out and what waits with its payload are exactly the
chunks before `e` (`Delivered`), that an acknowledged number was received (`AcksReceived`, `ToldTrue`), and that
what was sent and not received is still pending (`NoneForgotten`). The last is what makes the window test exact:
number `e`, once sent, is pending, so by `Timely` nothing newer than `e + ReceiveWindow` exists, and no datagram
is old enough for its remainder to be taken for a newer one. `Advance` releases a
run of messages one by one; what holds after each is shown by the least one after which
it would not (`RoundsKeep`), and that the new payloads come out in turn and leave none behind by comparing
what came out before and after with `e` (`ReleasedInTurn`). A message that closes the receiver (too many
groups of fragments) may come in the middle of such a run, so this is stated for a part
of the run. `OrderedSteps` has one step per action of the client: all but those of the receiver and
`EnqueueTransfer` leave the mapped variables alone.

`Publication_proofs`: `PublicationStands` states `NewestStands`. `Only`, which picks the elements of a
sequence that are in a set, is a recursive function; what it returns is shown by the least
length at which it would return something else (`OnlyIsChosen`), like the loop above. `PubInv` says
where what was published last (`Settled`) is to be found: each waiting packet of its key has its
value; if none waits, the packet on its way has; and if there is none either, it was sent. The
middle part needs `Delivered`: a packet that has been answered and is yet to be counted is among
what was sent. A line of chat has no key, so that two of one number would both wait, but they would be
the same. `Begun` (nothing is of a level to come) makes a new level begin with nothing
due, and `Remembered` and `Undone` are what `native_times` is for. The step that needs `~history.crossed`
is a call of `enqueue` for the level before (`OldUncrossed`): it would drop what waits and forget the
times.

Model-checked only: liveness, since fairness and ENABLED are outside the prover
(`RequestSettles`, `ShutdownEnds`, `SendSettles`, `ConnectionSettles`, `ActivationEnds`, `PublisherSettles`,
`CommitSignalled`, `EditSettles`). `ResetSparesActive` is finding 3 and does not hold.

## 6. Not modelled

The models cover the code whose correctness is a matter of order. By lines it is a
small part of the repository; most of the rest has no state that two actors share:

- generated GraphQL clients, the schema's declarations, build and data scripts;
- Vue templates and components, the ghost player and its 3D scenes, charts; the
  browser's cache of ghosts, which is best effort and only costs a second download;
- scores, ghosts, statistics and level formats: computation in floating point or over
  large data, tested against golden files;
- `workshop.ts`, `lobby.ts`, `auth.ts` and the other services: single statements, or
  transactions whose rows nobody else writes;
- plugins of the GraphQL server and query costs, computed over a syntax tree;
- HTTP routes, Discord and Twitch clients: formatting and I/O, no state between requests
  but cursors and rate limits.

Of the queue, `enqueue_fenced_page` and `enqueue_level_projection`: the first's fence is the lease
test of `finish`, and a page is one transaction. Of the scores,
`syncUserPointContributionLevels` and the points themselves: a user it misses is picked up by the next job
of the level.

What a continuation would model, in this order: the room session (host recovery, the
start of a session across `create_session`'s await, the callback worker) composed with
`LevelTransfer` and `Publication`, so that a finish belongs to a level; the
fan-out pages on top of `JobQueue`; Inspector Zeep's delivery across a crash. What it would prove is
that what they keep in common stays so when they are composed.
