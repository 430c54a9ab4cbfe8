------------------------------ MODULE LiveQuery ------------------------------
(***************************************************************************)
(* Live queries over websockets (packages/postgraphile,                    *)
(* liveQueryWebSocket.ts), with the poller that invalidates them and the   *)
(* runtime that stops both (postgraphileRuntime.ts).                       *)
(*                                                                         *)
(* Connections subscribe to queries; subscriptions of the same query share *)
(* one operation, which is executed when it is new and again after every   *)
(* invalidation, and whose last result is kept for subscribers that join   *)
(* later.  hub is the state of the handlers' closure.  An action is what   *)
(* runs between two awaits; what a query answers is answer[k].             *)
(***************************************************************************)
EXTENDS InvalidationPoller, Sequences, SequencesExt, FiniteSetsExt

CONSTANTS
    Conn,               \* websockets
    OpId,               \* operation ids clients use
    Key,                \* operation keys: query, variables, name and scope
    Value,              \* results
    None,               \* undefined
    Size,               \* result -> its length
    MaxResultBytes,     \* maxResultBytes
    CacheMaxBytes,      \* resultCacheMaxBytes
    MaxOperations,      \* maxOperations
    MaxPerConnection,   \* maxOperationsPerConnection
    MaxConcurrent,      \* maxConcurrentExecutions
    MaxPending,         \* maxPendingMessagesPerConnection
    MaxMessages,        \* bound: messages clients send
    MaxExecFaults,      \* bound: executions that fail
    MaxStops            \* bound: stops of the runtime, 0 or 1

ASSUME LiveQueryAssumption ==
    /\ None \notin Value
    /\ Size \in [Value -> Nat]
    /\ MaxResultBytes \in Nat \ {0} /\ CacheMaxBytes \in Nat
    /\ MaxOperations \in Nat \ {0} /\ MaxPerConnection \in Nat \ {0}
    /\ MaxConcurrent \in Nat \ {0} /\ MaxPending \in Nat \ {0}
    /\ MaxMessages \in Nat /\ MaxExecFaults \in Nat /\ MaxStops \in {0, 1}

VARIABLES
    answer,     \* what each query answers, by the committed data
    conn,       \* websocket -> its state
    hub,        \* the state of the handlers
    phase,      \* how far the runtime's stop has come
    messages,   \* messages sent so far
    execFaults  \* executions failed so far

liveVars == <<answer, conn, hub, phase, messages, execFaults>>
vars == <<pollVars, liveVars>>

Message == [type : {"subscribe"}, id : OpId, key : Key] \cup [type : {"complete"}, id : OpId]

Subscription == [key : Key,
                 attached : BOOLEAN,        \* its operation is in sharedOperations
                 needsInitial : BOOLEAN,
                 late : BOOLEAN,            \* history: joined in an execution's last microtask
                 shown : Value \cup {None, "error"}]    \* history: what it was last sent

SharedOperation == [result : Value \cup {None},     \* lastResultFingerprint and -Length
                    replay : Value \cup {None},
                    stage : {"idle", "asked", "read", "ended"},     \* running unless idle
                    read : Value \cup {None},       \* the answer of the execution under way
                    queued : {"no", "initial", "rerun"},
                    again : BOOLEAN,                \* rerunAfterExecution
                    failed : BOOLEAN]               \* history: the last execution failed

NewOperation == [result |-> None, replay |-> None, stage |-> "idle", read |-> None,
                 queued |-> "no", again |-> FALSE, failed |-> FALSE]

Phase == {"up", "draining", "disposed", "released"}

\* closed is the handlers' flag, gone the close event, kicked a close the
\* server asked for.  The head of the chain is the message being handled.
Connection == [closed : BOOLEAN, kicked : BOOLEAN, gone : BOOLEAN, chain : Seq(Message),
               validating : BOOLEAN, replaces : BOOLEAN]

Init ==
    /\ PollInit
    /\ answer \in [Key -> {v \in Value : Size[v] = 1}]
    /\ conn = [c \in Conn |-> [closed |-> FALSE, kicked |-> FALSE, gone |-> FALSE, chain |-> <<>>,
                               validating |-> FALSE, replaces |-> FALSE]]
    /\ hub = [ops |-> <<>>, shared |-> <<>>, order |-> <<>>, initial |-> <<>>, rerun |-> <<>>,
              replays |-> <<>>, active |-> 0, pending |-> 0, running |-> 0, cached |-> 0,
              debounce |-> FALSE, disposed |-> FALSE, orphans |-> 0, calls |-> <<>>]
    /\ phase = "up"
    /\ messages = 0
    /\ execFaults = 0

-----------------------------------------------------------------------------
(* The functions of the closure, on a state h of it. *)

Without(f, x) == [y \in DOMAIN f \ {x} |-> f[y]]

Put(f, x, v) == [y \in DOMAIN f \cup {x} |-> IF y = x THEN v ELSE f[y]]

Subscribers(h, k) == {s \in DOMAIN h.ops : h.ops[s].attached /\ h.ops[s].key = k}

OfConn(h, c) == {s \in DOMAIN h.ops : s[1] = c}

Bytes(v) == 2 * Size[v]

ClearReplay(h, k) ==
    IF h.shared[k].replay = None THEN h
    ELSE [h EXCEPT !.replays = RemoveFirst(@, k),
                   !.cached = @ - Bytes(h.shared[k].replay),
                   !.shared[k].replay = None]

\* The results cached longest ago go first.
CacheReplay(h, k, v) ==
    LET cleared == ClearReplay(h, k)
        evicted[n \in 0..Len(cleared.replays)] ==
          IF n = 0 THEN cleared
          ELSE IF evicted[n - 1].cached + Bytes(v) <= CacheMaxBytes THEN evicted[n - 1]
          ELSE ClearReplay(evicted[n - 1], cleared.replays[n])
        fitting == evicted[Len(cleared.replays)]
    IN  IF Bytes(v) > CacheMaxBytes THEN cleared
        ELSE [fitting EXCEPT !.shared[k].replay = v,
                             !.replays = Append(@, k),
                             !.cached = @ + Bytes(v)]

\* calls collects what onActiveChange is called with.
SetActiveDelta(h, delta) ==
    LET is == h.active + delta > 0
    IN  [h EXCEPT !.active = @ + delta,
                  !.calls = IF (h.active > 0) # is THEN Append(@, is) ELSE @,
                  !.debounce = @ /\ is]

RemoveQueued(h, k) ==
    [h EXCEPT !.initial = RemoveFirst(@, k), !.rerun = RemoveFirst(@, k), !.shared[k].queued = "no"]

DropUncleared(h, k) ==
    [RemoveQueued(h, k) EXCEPT !.shared = Without(@, k), !.order = RemoveFirst(@, k),
                               !.orphans = @ + (IF h.shared[k].stage = "idle" THEN 0 ELSE 1)]

\* An execution under way of an operation nobody subscribes to any more goes
\* on; its result reaches nobody.
DropShared(h, k) ==
    LET g == ClearReplay(RemoveQueued(h, k), k)
    IN  [g EXCEPT !.shared = Without(@, k),
                  !.order = RemoveFirst(@, k),
                  !.orphans = @ + (IF h.shared[k].stage = "idle" THEN 0 ELSE 1)]

DeleteOperation(h, s) ==
    IF s \notin DOMAIN h.ops THEN h
    ELSE LET g == SetActiveDelta([h EXCEPT !.ops = Without(@, s)], -1)
             k == h.ops[s].key
         IN  IF h.ops[s].attached /\ Subscribers(g, k) = {} THEN DropShared(g, k) ELSE g

DeleteAll(h, set) ==
    LET listed == SetToSeq(set)
        left[n \in 0..Len(listed)] ==
          IF n = 0 THEN h ELSE DeleteOperation(left[n - 1], listed[n])
    IN  left[Len(listed)]

Begun(h, k) == [h EXCEPT !.shared[k].stage = "asked", !.running = @ + 1]

\* One round of pumpQueue's loop: initial executions go first.
PumpOnce(h) ==
    IF h.disposed \/ h.running >= MaxConcurrent \/ h.initial \o h.rerun = <<>> THEN h
    ELSE LET k == Head(h.initial \o h.rerun)
             g == [h EXCEPT !.initial = IF @ = <<>> THEN @ ELSE Tail(@),
                            !.rerun = IF h.initial = <<>> THEN Tail(@) ELSE @,
                            !.shared[k].queued = "no"]
         IN  IF Subscribers(g, k) = {} THEN g ELSE Begun(g, k)

PumpQueue(h) ==
    LET size == Len(h.initial) + Len(h.rerun)
        pumped[n \in 0..size] == IF n = 0 THEN h ELSE PumpOnce(pumped[n - 1])
    IN  pumped[size]

EnqueueForgetting(h, k, kind) ==
    LET op == h.shared[k]
        g == [h EXCEPT !.shared[k].queued = kind]
    IN  IF \/ h.disposed \/ Subscribers(h, k) = {}
           \/ op.stage # "idle" \/ op.queued # "no"
        THEN h
        ELSE PumpQueue(IF kind = "initial" THEN [g EXCEPT !.initial = Append(@, k)]
                                           ELSE [g EXCEPT !.rerun = Append(@, k)])

Enqueue(h, k, kind) ==
    LET op == h.shared[k]
        g == [h EXCEPT !.shared[k].queued = kind]
    IN  IF h.disposed \/ Subscribers(h, k) = {} THEN h
        ELSE IF op.stage # "idle"
             THEN [h EXCEPT !.shared[k].again = @ \/ kind = "rerun"]
        ELSE IF op.queued # "no" THEN h
        ELSE PumpQueue(IF kind = "initial" THEN [g EXCEPT !.initial = Append(@, k)]
                                           ELSE [g EXCEPT !.rerun = Append(@, k)])

RerunAll(h) ==
    LET rerun[n \in 0..Len(h.order)] ==
          IF n = 0 THEN [h EXCEPT !.debounce = FALSE]
          ELSE Enqueue(rerun[n - 1], h.order[n], "rerun")
    IN  rerun[Len(h.order)]

\* What is sent to the subscribers in set.
Tell(h, set, what) ==
    [h EXCEPT !.ops = [s \in DOMAIN h.ops |->
        IF s \in set THEN [h.ops[s] EXCEPT !.shown = what, !.needsInitial = @ /\ what = "error"]
        ELSE h.ops[s]]]

\* The end of subscribe, once the message has been validated.
Attach(h, s, k) ==
    LET g0 == DeleteOperation(h, s)
        g1 == IF k \in DOMAIN g0.shared THEN g0
              ELSE [g0 EXCEPT !.shared = Put(@, k, NewOperation), !.order = Append(@, k)]
        new == [key |-> k, attached |-> TRUE, needsInitial |-> TRUE,
                late |-> g1.shared[k].stage = "ended", shown |-> None]
        g2 == SetActiveDelta([g1 EXCEPT !.ops = Put(@, s, new)], 1)
        op == g2.shared[k]
    IN  IF op.replay # None
        THEN [Tell(g2, {s}, op.replay) EXCEPT !.replays = Append(RemoveFirst(@, k), k)]
        ELSE IF op.stage = "idle" /\ op.queued = "no" THEN Enqueue(g2, k, "initial")
        ELSE g2

\* executeOperation with its result.
Deliver(h, k) ==
    LET v == h.shared[k].read
        changed == h.shared[k].result # v
        waiting == {s \in Subscribers(h, k) : changed \/ h.ops[s].needsInitial}
    IN  IF Size[v] > MaxResultBytes THEN DeleteAll(h, Subscribers(h, k))
        ELSE IF waiting = {} THEN h
        ELSE Tell(CacheReplay([h EXCEPT !.shared[k].result = v], k, v), waiting, v)

-----------------------------------------------------------------------------

\* Mutant: a poller that is stopped keeps what it has seen.
BecomesKeepingSeen(h) ==
    /\ hub' = [h EXCEPT !.calls = <<>>]
    /\ LET told[n \in 0..Len(h.calls)] ==
              IF n = 0 THEN poller
              ELSE IF h.calls[n] THEN Started(told[n - 1]) ELSE [told[n - 1] EXCEPT !.on = FALSE]
       IN  poller' = told[Len(h.calls)]
    /\ signalled' = IF Contains(h.calls, TRUE) THEN {} ELSE signalled
    /\ UNCHANGED <<table, pollFaults>>

\* The hub becomes h; its calls of onActiveChange start and stop the poller.
Becomes(h) ==
    /\ hub' = [h EXCEPT !.calls = <<>>]
    /\ LET told[n \in 0..Len(h.calls)] ==
              IF n = 0 THEN poller
              ELSE IF h.calls[n] THEN Started(told[n - 1]) ELSE Stopped(told[n - 1])
       IN  poller' = told[Len(h.calls)]
    /\ signalled' = IF Contains(h.calls, TRUE) THEN {} ELSE signalled
    /\ UNCHANGED <<table, pollFaults>>

(* The clients. *)

Send(c, m) ==
    /\ ~conn[c].gone /\ ~conn[c].kicked
    /\ messages < MaxMessages
    /\ messages' = messages + 1
    /\ IF Len(conn[c].chain) >= MaxPending
       THEN conn' = [conn EXCEPT ![c].kicked = TRUE]
       ELSE conn' = [conn EXCEPT ![c].chain = Append(@, m)]
    /\ UNCHANGED <<pollVars, answer, hub, phase, execFaults>>

\* The close event.  The message whose validation is under way comes to an end
\* later; the others of the chain find the connection closed.
Close(c) ==
    /\ ~conn[c].gone
    /\ conn' = [conn EXCEPT ![c].gone = TRUE, ![c].closed = TRUE,
                            ![c].chain = IF conn[c].validating THEN <<Head(@)>> ELSE <<>>]
    /\ Becomes(DeleteAll(hub, OfConn(hub, c)))
    /\ UNCHANGED <<answer, phase, messages, execFaults>>

(* The chain of messages of a connection. *)

Current(c) == Head(conn[c].chain)
Target(c) == <<c, Current(c).id>>

\* The next message of type is handled.
Handling(c, type) ==
    /\ conn[c].chain # <<>>
    /\ ~conn[c].validating
    /\ Current(c).type = type

Handled(c) == [conn EXCEPT ![c].chain = Tail(@), ![c].validating = FALSE, ![c].replaces = FALSE]

Full(c) ==
    /\ Target(c) \notin DOMAIN hub.ops
    /\ \/ hub.active + hub.pending >= MaxOperations
       \/ Cardinality(OfConn(hub, c)) >= MaxPerConnection

\* A message of a closed connection, or a subscribe beyond a limit.
Refuse(c) ==
    /\ \/ conn[c].closed /\ \E type \in {"subscribe", "complete"} : Handling(c, type)
       \/ Handling(c, "subscribe") /\ ~conn[c].closed /\ Full(c)
    /\ conn' = Handled(c)
    /\ UNCHANGED <<pollVars, answer, hub, phase, messages, execFaults>>

\* subscribe up to its first await.  A new operation is reserved meanwhile.
Subscribe(c) ==
    /\ Handling(c, "subscribe")
    /\ ~conn[c].closed
    /\ ~Full(c)
    /\ LET replaces == Target(c) \in DOMAIN hub.ops
       IN  /\ conn' = [conn EXCEPT ![c].validating = TRUE, ![c].replaces = replaces]
           /\ hub' = [hub EXCEPT !.pending = @ + (IF replaces THEN 0 ELSE 1)]
    /\ UNCHANGED <<pollVars, answer, phase, messages, execFaults>>

Unreserved(h, c) == [h EXCEPT !.pending = @ - (IF conn[c].replaces THEN 0 ELSE 1)]

\* The query is invalid, costs too much or is an introspection, or the
\* connection was closed while it was examined.
Abandon(c) ==
    /\ conn[c].validating
    /\ conn' = Handled(c)
    /\ hub' = Unreserved(hub, c)
    /\ UNCHANGED <<pollVars, answer, phase, messages, execFaults>>

Accept(c) ==
    /\ conn[c].validating
    /\ ~conn[c].closed
    /\ conn' = Handled(c)
    /\ Becomes(Unreserved(Attach(hub, Target(c), Current(c).key), c))
    /\ UNCHANGED <<answer, phase, messages, execFaults>>

Complete(c) ==
    /\ Handling(c, "complete")
    /\ ~conn[c].closed
    /\ conn' = Handled(c)
    /\ Becomes(DeleteOperation(hub, Target(c)))
    /\ UNCHANGED <<answer, phase, messages, execFaults>>

(* Executions. *)

InStage(k, stage) == k \in DOMAIN hub.shared /\ hub.shared[k].stage = stage

\* The database answers the query.
Execute(k) ==
    /\ InStage(k, "asked")
    /\ hub' = [hub EXCEPT !.shared[k].stage = "read", !.shared[k].read = answer[k]]
    /\ UNCHANGED <<pollVars, answer, conn, phase, messages, execFaults>>

Succeed(k) ==
    /\ InStage(k, "read")
    /\ LET h == [hub EXCEPT !.shared[k].stage = "ended", !.shared[k].failed = FALSE]
       IN  Becomes(Deliver(h, k))
    /\ UNCHANGED <<answer, conn, phase, messages, execFaults>>

Fail(k) ==
    /\ InStage(k, "asked")
    /\ execFaults < MaxExecFaults
    /\ execFaults' = execFaults + 1
    /\ hub' = Tell([hub EXCEPT !.shared[k].stage = "ended", !.shared[k].failed = TRUE],
                   Subscribers(hub, k), "error")
    /\ UNCHANGED <<pollVars, answer, conn, phase, messages>>

\* The callback of pumpQueue's finally, a microtask later.
Finally(k) ==
    /\ InStage(k, "ended")
    /\ LET again == hub.shared[k].again
           h == [hub EXCEPT !.shared[k].stage = "idle", !.shared[k].read = None,
                            !.shared[k].again = FALSE, !.running = @ - 1]
       IN  hub' = PumpQueue(IF again THEN Enqueue(h, k, "rerun") ELSE h)
    /\ UNCHANGED <<pollVars, answer, conn, phase, messages, execFaults>>

OrphanEnds ==
    /\ hub.orphans > 0
    /\ hub' = PumpQueue([hub EXCEPT !.orphans = @ - 1, !.running = @ - 1])
    /\ UNCHANGED <<pollVars, answer, conn, phase, messages, execFaults>>

(* Invalidations. *)

Debounced ==
    /\ hub.debounce
    /\ hub' = RerunAll(hub)
    /\ UNCHANGED <<pollVars, answer, conn, phase, messages, execFaults>>

\* A poll compares its ids, and the handlers schedule a rerun when it raises.
PollCompares ==
    /\ \E stage \in {"none", "pruning"} : Compare(stage)
    /\ hub' = [hub EXCEPT !.debounce = @ \/ (Raises(poller, poller.ids) /\ ~hub.disposed)]
    /\ UNCHANGED <<answer, conn, phase, messages, execFaults>>

\* The steps of the poller that do not touch the handlers.  The pool it reads
\* from is closed once the runtime is released.
PollSteps ==
    /\ \/ Interval
       \/ phase # "released" /\ Read
       \/ Outdated
       \/ Prune
       \/ PollFails
       \/ RefreshDue
    /\ UNCHANGED liveVars

\* The other programs' transactions: a commit changes what a query answers.
Transactions ==
    \/ Insert /\ UNCHANGED liveVars
    \/ \E i \in RowId : RollBack(i) /\ UNCHANGED liveVars
    \/ /\ \E i \in RowId : Commit(i)
       /\ \E k \in Key, v \in Value : answer' = [answer EXCEPT ![k] = v]
       /\ UNCHANGED <<conn, hub, phase, messages, execFaults>>

(* The runtime's stop. *)

\* poller.stop and dispose up to its await.
Dispose ==
    /\ phase = "up"
    /\ MaxStops > 0
    /\ phase' = "draining"
    /\ conn' = [c \in Conn |-> [conn[c] EXCEPT !.closed = @ \/ OfConn(hub, c) # {}]]
    /\ LET h == [hub EXCEPT !.disposed = TRUE, !.debounce = FALSE, !.initial = <<>>,
                            !.rerun = <<>>, !.calls = <<FALSE>>]
       IN  Becomes(DeleteAll(h, {s \in DOMAIN hub.ops : hub.ops[s].attached}))
    /\ UNCHANGED <<answer, messages, execFaults>>

\* The executions have ended.  What subscribed meanwhile is forgotten, its
\* subscriptions are not.
Drained ==
    /\ phase = "draining"
    /\ hub.running = 0
    /\ phase' = "disposed"
    /\ hub' = [hub EXCEPT !.shared = <<>>, !.order = <<>>, !.replays = <<>>, !.cached = 0,
                          !.ops = [s \in DOMAIN hub.ops |-> [hub.ops[s] EXCEPT !.attached = FALSE]]]
    /\ poller' = Stopped(poller)
    /\ UNCHANGED <<table, signalled, pollFaults, answer, conn, messages, execFaults>>

Release ==
    /\ phase = "disposed"
    /\ poller.poll = "none"
    /\ phase' = "released"
    /\ UNCHANGED <<pollVars, answer, conn, hub, messages, execFaults>>

Next ==
    \/ \E c \in Conn :
          \/ \E m \in Message : Send(c, m)
          \/ Close(c)
          \/ Refuse(c)
          \/ Subscribe(c)
          \/ Abandon(c)
          \/ Accept(c)
          \/ Complete(c)
    \/ \E k \in Key : Execute(k) \/ Succeed(k) \/ Fail(k) \/ Finally(k)
    \/ OrphanEnds
    \/ Debounced
    \/ PollCompares
    \/ PollSteps
    \/ Transactions
    \/ Dispose
    \/ Drained
    \/ Release

Spec == Init /\ [][Next]_vars

-----------------------------------------------------------------------------

TypeOK ==
    /\ PollTypeOK
    /\ answer \in [Key -> Value]
    /\ conn \in [Conn -> Connection]
    /\ DOMAIN hub.ops \subseteq Conn \X OpId
    /\ \A s \in DOMAIN hub.ops : hub.ops[s] \in Subscription
    /\ DOMAIN hub.shared \subseteq Key
    /\ \A k \in DOMAIN hub.shared : hub.shared[k] \in SharedOperation
    /\ hub.order \in Seq(Key) /\ hub.initial \in Seq(Key)
    /\ hub.rerun \in Seq(Key) /\ hub.replays \in Seq(Key)
    /\ \A n \in {"active", "pending", "running", "cached", "orphans"} : hub[n] \in Nat
    /\ hub.debounce \in BOOLEAN /\ hub.disposed \in BOOLEAN
    /\ hub.calls = <<>>
    /\ phase \in Phase
    /\ messages \in 0..MaxMessages
    /\ execFaults \in 0..MaxExecFaults

\* The bytes of the cached results.
CachedBytes(h) == UNION {{k} \X (1..Bytes(h.shared[k].replay)) : k \in ToSet(h.replays)}

\* The counters that are kept beside the maps and sets they count agree with
\* them, through replacements, closes, evictions and failures, the limits on
\* executions and on the cache hold, the poller runs exactly while somebody
\* subscribes, and when dispose is done nothing is left to run.
Accounting ==
    /\ hub.active = Cardinality(DOMAIN hub.ops)
    /\ hub.pending = Cardinality({c \in Conn : conn[c].validating /\ ~conn[c].replaces})
    /\ hub.running = hub.orphans
                       + Cardinality({k \in DOMAIN hub.shared : hub.shared[k].stage # "idle"})
    /\ hub.running <= MaxConcurrent
    /\ ToSet(hub.replays) \subseteq DOMAIN hub.shared
    /\ hub.cached = Cardinality(CachedBytes(hub))
    /\ hub.cached <= CacheMaxBytes
    /\ phase = "up" => poller.on = (hub.active > 0)
    /\ phase \in {"disposed", "released"} => hub.running = 0 /\ ~hub.debounce

\* An operation is in a queue exactly once if it is marked as queued, else not
\* at all; a queued one has subscribers and waits only for a free execution.
QueuesConsistent ==
    LET queue == hub.initial \o hub.rerun
    IN  /\ IsInjective(queue)
        /\ \A k \in ToSet(queue) : /\ k \in DOMAIN hub.shared
                                   /\ hub.shared[k].queued # "no"
                                   /\ hub.shared[k].stage = "idle"
                                   /\ Subscribers(hub, k) # {}
        /\ queue # <<>> => hub.running = MaxConcurrent
        /\ \A k \in DOMAIN hub.shared : hub.shared[k].queued # "no" => k \in ToSet(queue)

\* What the hub counts, marks, queues and caches stays consistent, whichever of
\* its handlers run, fail or overtake one another.
HubConsistent == Accounting /\ QueuesConsistent

\* When nothing is under way and every committed row has been signalled, each
\* subscription shows the present answer to its query, unless the last
\* execution failed or the client was told of an error: no invalidation is
\* forgotten between the poll that raised it and the execution that answers it,
\* and no subscriber is left out by the one it joined.  The one exception is a
\* subscriber that joins between the end of an execution and its finally, whose
\* result is not cached: it has to wait for the next invalidation.
AtRest ==
    /\ hub.running = 0 /\ hub.initial \o hub.rerun = <<>> /\ ~hub.debounce
    /\ poller.known /\ table.rows \subseteq signalled
    /\ ~hub.disposed

IsCurrent(s) ==
    \/ hub.ops[s].shown \in {answer[hub.ops[s].key], "error"}
    \/ hub.shared[hub.ops[s].key].failed
    \/ hub.ops[s].late /\ hub.ops[s].shown = None

RestIsCurrent == AtRest => \A s \in DOMAIN hub.ops : IsCurrent(s)
=============================================================================
