------------------------- MODULE InvalidationPoller -------------------------
(***************************************************************************)
(* The poller that tells the live queries of a change of the database      *)
(* (packages/postgraphile, liveQueryInvalidationPoller.ts).  Every         *)
(* statement on a watched table inserts a row into                         *)
(* live_query_invalidations in its own transaction; the poller reads the   *)
(* newest row ids and raises an invalidation when one of them is new.      *)
(*                                                                         *)
(* Ids are allocated before the transactions commit, so a lower id may     *)
(* become visible after a higher one.                                      *)
(***************************************************************************)
EXTENDS Integers, FiniteSets

CONSTANTS
    MaxTracked,     \* MAX_TRACKED_INVALIDATIONS
    MaxRows,        \* bound: rows inserted
    MaxPollFaults   \* bound: polls and prunes that fail

ASSUME PollerAssumption ==
    /\ MaxTracked \in Nat \ {0}
    /\ MaxRows \in Nat
    /\ MaxPollFaults \in Nat

VARIABLES
    table,      \* the invalidation table: allocated, open (uncommitted), rows
    poller,     \* the closure's state: on, known, seen, poll, current, ids, due
    signalled,  \* history: rows this generation's listener was told of
    pollFaults  \* failures so far

pollVars == <<table, poller, signalled, pollFaults>>

RowId == 1..MaxRows

\* Where activePoll is: none, waiting for getIds, holding its ids, or
\* waiting for prune.
PollStage == {"none", "asked", "read", "pruning"}

PollTypeOK ==
    /\ table \in [allocated : 0..MaxRows, open : SUBSET RowId, rows : SUBSET RowId]
    /\ table.open \cap table.rows = {}
    /\ table.open \cup table.rows \subseteq 1..table.allocated
    /\ poller \in [on : BOOLEAN, known : BOOLEAN, seen : SUBSET RowId,
                   poll : PollStage, current : BOOLEAN, ids : SUBSET RowId, due : BOOLEAN]
    /\ signalled \in SUBSET RowId
    /\ pollFaults \in 0..MaxPollFaults

PollInit ==
    /\ table = [allocated |-> 0, open |-> {}, rows |-> {}]
    /\ poller = [on |-> FALSE, known |-> FALSE, seen |-> {}, poll |-> "none",
                 current |-> FALSE, ids |-> {}, due |-> TRUE]
    /\ signalled = {}
    /\ pollFaults = 0

-----------------------------------------------------------------------------

\* The ids getIds returns, without the one beyond the limit.
Newest(ids) == {i \in ids : Cardinality({j \in ids : j > i}) < MaxTracked}

Overflow(ids) == Cardinality(ids) > MaxTracked

\* Mutant: only ids above all that were seen are new.
RaisesAbove(p, ids) ==
    \/ ~p.known
    \/ \E i \in Newest(ids) : \A j \in p.seen : i > j
    \/ Overflow(ids) /\ p.due

\* Whether a poll that read ids raises an invalidation.
Raises(p, ids) ==
    \/ ~p.known
    \/ ~(Newest(ids) \subseteq p.seen)
    \/ Overflow(ids) /\ p.due

RunPoll(p) ==
    IF p.poll = "none" THEN [p EXCEPT !.poll = "asked", !.current = TRUE] ELSE p

\* start(): a new generation, and a poll of its own unless one is under way.
\* That one, if any, belongs to an older generation.
Started(p) == IF p.on THEN p ELSE RunPoll([p EXCEPT !.on = TRUE, !.current = FALSE])

\* Mutant: the next generation takes over what this one has seen.
StoppedKeepingSeen(p) == IF p.on THEN [p EXCEPT !.on = FALSE, !.current = FALSE] ELSE p

\* stop(): the next generation starts with seenIds undefined.
Stopped(p) ==
    IF p.on THEN [p EXCEPT !.on = FALSE, !.current = FALSE, !.known = FALSE, !.seen = {}] ELSE p

-----------------------------------------------------------------------------
(* The transactions of the other programs. *)

Insert ==
    /\ table.allocated < MaxRows
    /\ table' = [table EXCEPT !.allocated = @ + 1, !.open = @ \cup {table.allocated + 1}]
    /\ UNCHANGED <<poller, signalled, pollFaults>>

Commit(i) ==
    /\ i \in table.open
    /\ table' = [table EXCEPT !.open = @ \ {i}, !.rows = @ \cup {i}]
    /\ UNCHANGED <<poller, signalled, pollFaults>>

RollBack(i) ==
    /\ i \in table.open
    /\ table' = [table EXCEPT !.open = @ \ {i}]
    /\ UNCHANGED <<poller, signalled, pollFaults>>

(* The poller. *)

\* A listener that starts the poller has been told of nothing yet.
Start ==
    /\ ~poller.on
    /\ poller' = Started(poller)
    /\ signalled' = {}
    /\ UNCHANGED <<table, pollFaults>>

Stop ==
    /\ poller.on
    /\ poller' = Stopped(poller)
    /\ UNCHANGED <<table, signalled, pollFaults>>

\* The last listener leaves and a new one comes in one go.
Restart ==
    /\ poller.on
    /\ poller' = Started(Stopped(poller))
    /\ signalled' = {}
    /\ UNCHANGED <<table, pollFaults>>

\* The interval fires; a poll under way makes it a no-op.
Interval ==
    /\ poller.on
    /\ poller.poll = "none"
    /\ poller' = RunPoll(poller)
    /\ UNCHANGED <<table, signalled, pollFaults>>

\* The database evaluates getIds.
Read ==
    /\ poller.poll = "asked"
    /\ poller' = [poller EXCEPT !.poll = "read", !.ids = table.rows]
    /\ UNCHANGED <<table, signalled, pollFaults>>

\* poll() after getIds when start or stop has changed the generation.
Outdated ==
    /\ poller.poll = "read"
    /\ ~poller.current
    /\ poller' = [poller EXCEPT !.poll = "none", !.ids = {}]
    /\ UNCHANGED <<table, signalled, pollFaults>>

\* poll() after getIds, with onInvalidate when there is something new, and on
\* to prune when PRUNE_EVERY_POLLS is reached.
Compared(stage) ==
    [poller EXCEPT !.poll = stage, !.known = TRUE, !.seen = Newest(poller.ids), !.ids = {},
                   !.due = @ /\ ~Raises(poller, poller.ids)]

Compare(stage) ==
    /\ poller.poll = "read"
    /\ poller.current
    /\ poller' = Compared(stage)
    /\ signalled' = IF Raises(poller, poller.ids) THEN signalled \cup poller.ids
                                                  ELSE signalled
    /\ UNCHANGED <<table, pollFaults>>

\* Retention is minutes and refreshes are seconds apart, so a pruned row is one
\* a poll of this generation has covered.
Prune ==
    /\ poller.poll = "pruning"
    /\ poller' = [poller EXCEPT !.poll = "none"]
    /\ \E old \in SUBSET (table.rows \cap signalled) : table' = [table EXCEPT !.rows = @ \ old]
    /\ UNCHANGED <<signalled, pollFaults>>

\* getIds or prune fails; poll() only warns.
PollFails ==
    /\ poller.poll \in {"asked", "pruning"}
    /\ pollFaults < MaxPollFaults
    /\ pollFaults' = pollFaults + 1
    /\ poller' = [poller EXCEPT !.poll = "none"]
    /\ UNCHANGED <<table, signalled>>

\* OVERFLOW_REFRESH_MS have gone by since the last refresh, which matters when
\* there are more rows than are tracked.
RefreshDue ==
    /\ ~poller.due
    /\ Overflow(table.rows)
    /\ poller' = [poller EXCEPT !.due = TRUE]
    /\ UNCHANGED <<table, signalled, pollFaults>>

PollNext ==
    \/ Insert
    \/ \E i \in RowId : Commit(i) \/ RollBack(i)
    \/ Start
    \/ Stop
    \/ Restart
    \/ Interval
    \/ Read
    \/ Outdated
    \/ \E stage \in {"none", "pruning"} : Compare(stage)
    \/ Prune
    \/ PollFails
    \/ RefreshDue

PollSpec == PollInit /\ [][PollNext]_pollVars

-----------------------------------------------------------------------------

\* A row the poller will not report again has been reported: what it takes for
\* seen, the present listener was told of.
SeenIsSignalled == poller.seen \subseteq signalled

PollFairness ==
    /\ WF_pollVars(Interval) /\ WF_pollVars(Read) /\ WF_pollVars(Outdated)
    /\ WF_pollVars(\E stage \in {"none", "pruning"} : Compare(stage))
    /\ WF_pollVars(Prune)
    /\ WF_pollVars(RefreshDue)

PollFairSpec == PollSpec /\ PollFairness

\* A committed row reaches the listener, whatever order ids commit in and
\* however many rows there are, unless the listener stops first or listeners
\* keep taking over from one another.
CommitSignalled ==
    <>[][~Restart]_pollVars =>
        \A i \in RowId : i \in table.rows ~> i \in signalled \/ ~poller.on
=============================================================================
