----------------------------- MODULE Publication -----------------------------
(***************************************************************************)
(* The publisher of a managed room (crates/lobby-host,                     *)
(* runtime/publication.rs): the tasks of a session publish standings and   *)
(* chat, and one task sends them, packet by packet, each when the one      *)
(* before it is acknowledged.  Meanwhile newer standings replace those     *)
(* that wait, a level that ends takes its packets with it, and a time that *)
(* the server has measured itself outdoes a slower one.                    *)
(*                                                                         *)
(* The queue of batches is the sequence of their packets, each with the    *)
(* generation and the kind of its batch: no batch is empty, and where one  *)
(* ends means nothing.  A line of chat has its number for who.  The limit  *)
(* in bytes works like the one in packets and is left out, and so is the   *)
(* text of the failure that ends the session: StopBegins may always come.  *)
(***************************************************************************)
EXTENDS Integers, FiniteSets, SequencesExt

CONSTANTS
    Player,
    Publishing,     \* the session's tasks that publish
    Capacity,       \* PACKETS
    Times,          \* bound: times of a player
    MaxPublished,   \* bound: publications
    MaxLevels,      \* bound: levels the session goes on to
    MaxFinishes     \* bound: finishes the server reports

ASSUME PublicationAssumption ==
    /\ Capacity \in Nat \ {0} /\ Times \subseteq Nat
    /\ MaxPublished \in Nat /\ MaxLevels \in Nat /\ MaxFinishes \in Nat

VARIABLES
    room,       \* the generation, the stopped flag and the session's course
    outbox,     \* Publisher::queue
    call,       \* the generation each task's call of enqueue goes by, or NoCall
    run,        \* the task of Publisher::run, and its Notify
    history     \* what was published last and what was sent, of this level

pubVars == <<room, outbox, call, run, history>>

\* The elements of a sequence that are in a set, in their order.
Only(seq, set) ==
    LET upTo[i \in 0..Len(seq)] ==
          IF i = 0 THEN <<>>
          ELSE IF seq[i] \in set THEN Append(upTo[i - 1], seq[i]) ELSE upTo[i - 1]
    IN  upTo[Len(seq)]

PacketOf(who, field, value) == [who |-> who, field |-> field, value |-> value]

\* standing_key, which chat has none of.
Key(q) == <<q.who, q.field>>
Keys(packets) == {Key(q) : q \in {r \in ToSet(packets) : r.field # "chat"}}

\* A packet is outdone if the server has measured a faster time (standing_time).
Outdone(q, native) == q.field = "time" /\ \E t \in native[q.who] : q.value > t

\* native_times: at most one time of each player.
NoTimes == [p \in Player |-> {}]

\* count is Queue::packets: what waits, and the packet that is being sent.
Empty == [waiting |-> <<>>, count |-> 0, generation |-> 0, native |-> NoTimes]

NoCall == -1

Nobody == [at |-> "off", waiter |-> "none", permit |-> FALSE, packet |-> <<>>]

PubInit ==
    /\ room = [generation |-> 0, stopped |-> FALSE, session |-> "none"]
    /\ outbox = Empty
    /\ call = [c \in Publishing |-> NoCall]
    /\ run = Nobody
    /\ history = [published |-> 0, finishes |-> 0, latest |-> {}, sent |-> {},
                  native |-> NoTimes, crossed |-> FALSE]

\* Nothing is promised any more for this level, or once the publisher stops.
Forgotten == [history EXCEPT !.latest = {}, !.sent = {}, !.native = NoTimes, !.crossed = FALSE]

-----------------------------------------------------------------------------
(* tokio's Notify, which here has one waiter and keeps one permit.         *)

NotifyOne(r) == IF r.waiter = "armed" THEN [r EXCEPT !.waiter = "one"]
                                      ELSE [r EXCEPT !.permit = TRUE]

NotifyWaiters(r) == IF r.waiter = "armed" THEN [r EXCEPT !.waiter = "all"] ELSE r

\* Mutant: the waiter is not registered before it is awaited.
ArmedLate(r) == r

\* notified.enable().
Armed(r) == IF r.permit THEN [r EXCEPT !.waiter = "all", !.permit = FALSE]
                        ELSE [r EXCEPT !.waiter = "armed"]

\* A waiter that is dropped hands a notification of its own on.
Disarmed(r) == [r EXCEPT !.permit = @ \/ r.waiter = "one", !.waiter = "none"]

-----------------------------------------------------------------------------
(* The tasks of the session.                                               *)

StartSession ==
    /\ room.session = "none"
    /\ room' = [room EXCEPT !.session = "up"]
    /\ run' = [run EXCEPT !.at = "top"]
    /\ UNCHANGED <<outbox, call, history>>

\* A player's standing, in one or both of its fields.
Standing(n) ==
    {<<PacketOf(p, "time", t)>> : p \in Player, t \in Times}
        \cup {<<PacketOf(p, "style", n)>> : p \in Player}
        \cup {<<PacketOf(p, "time", t), PacketOf(p, "style", n)>> : p \in Player, t \in Times}

\* What a task may publish as its nth publication: a standing or a line of chat.
Publications(n) ==
    [standings : BOOLEAN, packets : Standing(n)]
        \cup [standings : {FALSE}, packets : {<<PacketOf(n, "chat", n)>>}]

\* enqueue has read the generation, and is yet to take the lock.
Publish(c) ==
    /\ call[c] = NoCall
    /\ room.session = "up" /\ ~room.stopped
    /\ history.published + Cardinality({d \in Publishing : call[d] # NoCall}) < MaxPublished
    /\ call' = [call EXCEPT ![c] = room.generation]
    /\ UNCHANGED <<room, outbox, run, history>>

\* Mutant: a refresh takes the place of the one that waits.
CoalescedAway(waiting, b, keys) ==
    Only(waiting, {q \in ToSet(waiting) : /\ q.generation = b.generation
                                          /\ ~(b.standings /\ q.standings)
                                          /\ Key(q) \notin keys})

\* What waits is kept unless its level is over or its field is published anew.
\* A refresh takes the refreshes that wait along to the end of the queue.
Coalesced(waiting, b, keys) ==
    LET kept == {q \in ToSet(waiting) : q.generation = b.generation /\ Key(q) \notin keys}
        refreshes == {q \in kept : b.standings /\ q.standings}
    IN  Only(waiting, kept \ refreshes) \o Only(waiting, refreshes)

\* The queue after a call of enqueue, before its capacity is tested.
Enqueued(o, b) ==
    LET native == IF o.generation = b.generation THEN o.native ELSE NoTimes
        fresh == Only(b.packets, {q \in ToSet(b.packets) : ~Outdone(q, native)})
        kept == Coalesced(o.waiting, b, Keys(fresh))
        tagged == [i \in 1..Len(fresh) |->
                      [who |-> fresh[i].who, field |-> fresh[i].field, value |-> fresh[i].value,
                       generation |-> b.generation, standings |-> b.standings]]
    IN  [waiting |-> kept \o tagged, generation |-> b.generation, native |-> native,
         count |-> o.count - (Len(o.waiting) - Len(kept)) + Len(fresh)]

\* These packets, of which a time that is outdone does not count, are what is
\* asked for from now on.
Asked(latest, packets, native) ==
    LET new == {q \in ToSet(packets) : ~Outdone(q, native)}
    IN  {q \in latest : Key(q) \notin {Key(r) : r \in new}} \cup new

\* What is queued for the level being played, or known of it.
Known(o) ==
    o.generation = room.generation \/ \E q \in ToSet(o.waiting) : q.generation = room.generation

\* enqueue has the lock.  The generation it goes by may be over, and others may
\* have published for the next one.
Enqueue(c) ==
    /\ call[c] # NoCall /\ ~room.stopped
    /\ call' = [call EXCEPT ![c] = NoCall]
    /\ \E publication \in Publications(history.published + 1) :
          LET batch == [generation |-> call[c], standings |-> publication.standings,
                        packets |-> publication.packets]
              after == Enqueued(outbox, batch)
          IN \/ /\ after.count <= Capacity
                /\ outbox' = after
                /\ run' = NotifyOne(run)
                /\ history' =
                       IF call[c] = room.generation
                       THEN [history EXCEPT !.published = @ + 1,
                                            !.latest = Asked(@, batch.packets, history.native)]
                       ELSE [history EXCEPT !.published = @ + 1,
                                            !.crossed = @ \/ Known(outbox)]
                /\ UNCHANGED room
             \/ /\ after.count > Capacity
                /\ room' = [room EXCEPT !.stopped = TRUE]
                /\ outbox' = Empty
                /\ run' = NotifyWaiters(run)
                /\ history' = [Forgotten EXCEPT !.published = @ + 1]

\* enqueue has the lock and finds the publisher stopped.
Refused(c) ==
    /\ call[c] # NoCall /\ room.stopped
    /\ call' = [call EXCEPT ![c] = NoCall]
    /\ UNCHANGED <<room, outbox, run, history>>

\* advance_generation: the session goes on to another level.
Advance ==
    /\ room.session = "up" /\ room.generation < MaxLevels
    /\ room' = [room EXCEPT !.generation = @ + 1]
    /\ history' = Forgotten
    /\ UNCHANGED <<outbox, call, run>>

Faster(times, t) == {CHOOSE s \in times \cup {t} : \A r \in times \cup {t} : s <= r}

\* The times of players who have left are forgotten.
Measured(native, p, t, players) ==
    [q \in Player |-> IF q \notin players THEN {}
                      ELSE IF q = p THEN Faster(native[p], t) ELSE native[q]]

\* native_finish: the server has measured a time of a player in the room.
NativeFinish(p, t, players) ==
    /\ p \in players
    /\ room.session = "up" /\ history.finishes < MaxFinishes
    /\ LET known == IF outbox.generation = room.generation THEN outbox.native ELSE NoTimes
           native == Measured(known, p, t, players)
           left == Only(outbox.waiting,
                        {q \in ToSet(outbox.waiting) : q.who # p \/ ~Outdone(q, native)})
           noted == Measured(history.native, p, t, players)
       IN /\ outbox' = [waiting |-> left, generation |-> room.generation, native |-> native,
                        count |-> outbox.count - (Len(outbox.waiting) - Len(left))]
          /\ history' = [history EXCEPT !.finishes = @ + 1, !.native = noted,
                                        !.latest = {q \in @ : ~Outdone(q, noted)}]
    /\ UNCHANGED <<room, call, run>>

\* ActiveSession::stop stops the publisher, and later aborts its task.
StopBegins ==
    /\ room.session = "up"
    /\ room' = [room EXCEPT !.stopped = TRUE, !.session = "stopping"]
    /\ history' = Forgotten
    /\ UNCHANGED <<outbox, call, run>>

StopClears ==
    /\ room.session = "stopping"
    /\ room' = [room EXCEPT !.session = "stopped"]
    /\ outbox' = Empty
    /\ run' = NotifyWaiters(run)
    /\ UNCHANGED <<call, history>>

-----------------------------------------------------------------------------
(* Publisher::run.                                                         *)

\* The waiter is registered before the flag and the queue are looked at.
Arms ==
    /\ run.at = "top"
    /\ run' = [Armed(run) EXCEPT !.at = IF room.stopped THEN "ended" ELSE "take"]
    /\ UNCHANGED <<room, outbox, call, history>>

\* How many packets at the front are for a level that is over.
Over(waiting) ==
    CHOOSE n \in 0..Len(waiting) :
        /\ \A i \in 1..n : waiting[i].generation # room.generation
        /\ n < Len(waiting) => waiting[n + 1].generation = room.generation

\* What waits at the front for a level that is over is dropped; the next packet,
\* if there is one, is taken.
Takes ==
    /\ run.at = "take"
    /\ LET over == Over(outbox.waiting)
           rest == SubSeq(outbox.waiting, over + 1, Len(outbox.waiting))
       IN \/ /\ rest = <<>>
             /\ run' = [run EXCEPT !.at = "wait"]
             /\ outbox' = [outbox EXCEPT !.waiting = <<>>, !.count = @ - over]
          \/ /\ rest # <<>>
             /\ run' = [run EXCEPT !.at = "taken", !.packet = <<Head(rest)>>]
             /\ outbox' = [outbox EXCEPT !.waiting = Tail(rest), !.count = @ - over]
    /\ UNCHANGED <<room, call, history>>

\* The packet is sent, unless its level has ended since it was taken.
Sends ==
    /\ run.at = "taken"
    /\ run' = [run EXCEPT !.at = IF run.packet[1].generation = room.generation THEN "sending"
                                                                              ELSE "sent"]
    /\ UNCHANGED <<room, outbox, call, history>>

\* The server has acknowledged the packet.
Acknowledged ==
    /\ run.at = "sending"
    /\ run' = [run EXCEPT !.at = "sent"]
    /\ LET q == run.packet[1]
       IN history' = IF q.generation # room.generation THEN history
                     ELSE [history EXCEPT !.sent = {r \in @ : Key(r) # Key(q)}
                                                       \cup {PacketOf(q.who, q.field, q.value)}]
    /\ UNCHANGED <<room, outbox, call>>

\* The connection failed: the task stops the publisher and ends.
SendFails ==
    /\ run.at = "sending"
    /\ room' = [room EXCEPT !.stopped = TRUE]
    /\ outbox' = Empty
    /\ run' = [run EXCEPT !.at = "ended", !.waiter = "none", !.packet = <<>>]
    /\ history' = Forgotten
    /\ UNCHANGED call

Counts ==
    /\ run.at = "sent"
    /\ \/ /\ room.stopped
          /\ run' = [run EXCEPT !.at = "ended", !.waiter = "none", !.packet = <<>>]
          /\ UNCHANGED outbox
       \/ /\ ~room.stopped
          /\ run' = [Disarmed(run) EXCEPT !.at = "top", !.packet = <<>>]
          /\ outbox' = [outbox EXCEPT !.count = @ - 1]
    /\ UNCHANGED <<room, call, history>>

\* notified.await.
Wakes ==
    /\ run.at = "wait" /\ run.waiter \in {"one", "all"}
    /\ run' = [run EXCEPT !.at = "top", !.waiter = "none"]
    /\ UNCHANGED <<room, outbox, call, history>>

\* The task is aborted, wherever it is.
Aborts ==
    /\ room.session = "stopped" /\ run.at # "ended"
    /\ run' = [run EXCEPT !.at = "ended", !.waiter = "none", !.packet = <<>>]
    /\ UNCHANGED <<room, outbox, call, history>>

Sending == Arms \/ Takes \/ Sends \/ Acknowledged \/ Counts \/ Wakes

PubNext ==
    \/ StartSession \/ StopBegins \/ StopClears \/ Advance
    \/ \E c \in Publishing : Publish(c) \/ Enqueue(c) \/ Refused(c)
    \/ \E p \in Player, t \in Times, players \in SUBSET Player : NativeFinish(p, t, players)
    \/ Sending \/ SendFails \/ Aborts

PubSpec == PubInit /\ [][PubNext]_pubVars

\* The runtime runs the task, the client answers every send, and nothing holds a
\* session up between the two steps of its stop.
PubFairness == WF_pubVars(Sending) /\ WF_pubVars(StopClears)

-----------------------------------------------------------------------------

\* What goes to the server, in this order: what was sent, is being sent, waits.
Outgoing == run.packet \o outbox.waiting
ToBeSent(key) ==
    Only(Outgoing, {q \in ToSet(Outgoing) : q.generation = room.generation /\ Key(q) = key})

\* As long as the publisher works, its counter is what waits and is being sent,
\* within the capacity; no waiting time is slower than one the server has
\* measured; and of each field of each player the server ends up with what was
\* published last for this level, unless it has measured a faster time.  Only a
\* call that comes from the level before, and takes the lock after others have
\* published for this one, makes an exception.
NewestStands ==
    ~room.stopped =>
        /\ outbox.count = Len(outbox.waiting) + Len(run.packet)
        /\ outbox.count <= Capacity
        /\ ~history.crossed =>
              /\ \A q \in ToSet(outbox.waiting) :
                    q.generation = room.generation => ~Outdone(q, history.native)
              /\ \A q \in history.latest :
                    LET left == ToBeSent(Key(q))
                    IN  IF left = <<>> THEN q \in history.sent ELSE Last(left).value = q.value

\* Whatever is published and whoever stops it, by a queue at its limit or at the
\* end of the session, the publisher comes to rest: what waited is sent or
\* dropped, and a task that was stopped has ended.  It never waits for a
\* notification that has already been given.
PublisherSettles ==
    []<>(outbox.waiting = <<>> /\ (room.stopped => run.at = "ended"))
=============================================================================
