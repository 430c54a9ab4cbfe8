----------------------------- MODULE JobRuntime -----------------------------
(***************************************************************************)
(* The worker processes that run one lane of the job queue: run_lane and   *)
(* execute of crates/jobs.  A process claims as many jobs as it has free   *)
(* slots and runs each in a task of its own.  A task runs the handler and, *)
(* beside it, a heartbeat; when the handler ends it answers the queue.     *)
(* The queue is the one of JobQueue, and each call into it is one of its   *)
(* actions: this module adds who calls, and when.                          *)
(*                                                                         *)
(* The other lane of a process appears only in that its failure aborts     *)
(* this one (Dies); a failure of this lane likewise ends the process.      *)
(***************************************************************************)
EXTENDS Integers, Sequences, FiniteSets

CONSTANTS
    Kind, NoKey, NoGroup, KeyOf, GroupOf, MaxAttempts, VT, Lag, RunAt,
    DeferDelay, RetryTicks, Concurrency, MaxRequests, MaxDefers, MaxSteps,
    Process,        \* the worker processes
    HeartbeatEvery, \* HEARTBEAT_SECONDS, in ticks
    MaxStall,       \* ticks a due heartbeat may wait for its answer
    MaxFaults,      \* bound: deaths of processes and calls the database drops
    MaxShutdowns    \* bound: shutdowns asked for

ASSUME RuntimeAssumption ==
    /\ HeartbeatEvery \in Nat \ {0}
    /\ MaxStall \in Nat
    /\ MaxFaults \in Nat
    /\ MaxShutdowns \in Nat

VARIABLES
    job, nextId, receipts, archive, log, done, defers,  \* as in JobQueue
    proc,       \* process -> what its lane loop is doing
    reply,      \* process -> receipts in the answer of a claim under way
    tasks,      \* process -> the JoinSet: receipt -> task
    faults,     \* faults so far; it stays 0 only in an undisturbed run
    shutdowns   \* shutdowns so far

queueVars == <<job, nextId, receipts, archive, log, done, defers>>
vars == <<queueVars, proc, reply, tasks, faults, shutdowns>>

\* The queue is what is left of this state without the processes.
Q == INSTANCE JobQueue
     WITH job <- job, nextId <- nextId, receipts <- receipts, archive <- archive,
          log <- log, done <- done, defers <- defers

\* What the queue asks of its constants.
ASSUME QueueAssumption == Q!IdentityAssumption /\ Q!BoundAssumption

\* The handler's three ways to end; each is answered by another queue call.
Outcome == {"completed", "failed", "deferred"}

\* "working" while the handler runs, an outcome until the queue has answered,
\* then what execute returned: Ok, an unavailable database or another error.
Phase == {"working", "ok", "unavailable", "error"} \cup Outcome

Task == [phase : Phase, age : 0..(HeartbeatEvery + MaxStall)]

-----------------------------------------------------------------------------

InPhase(p, phases) == {c \in DOMAIN tasks[p] : tasks[p][c].phase \in phases}

\* The receipts a process still acts on.
Held(p) == InPhase(p, {"working"} \cup Outcome) \cup reply[p]

Free(p) == Concurrency - Cardinality(DOMAIN tasks[p])

\* The loop of run_lane is not waiting for the answer of a claim.
AtSelect(p) == proc[p] \in {"up", "draining"} /\ reply[p] = {}

NoTasks == [c \in {} |-> {}]

Init ==
    /\ Q!Init
    /\ proc = [p \in Process |-> "up"]
    /\ reply = [p \in Process |-> {}]
    /\ tasks = [p \in Process |-> NoTasks]
    /\ faults = 0
    /\ shutdowns = 0

Enqueue ==
    /\ \E k \in Kind, delay \in RunAt : Q!Enqueue(k, delay)
    /\ UNCHANGED <<proc, reply, tasks, faults, shutdowns>>

\* The queue executes a claim for all the slots that are free, if any is.
ClaimCall(p) ==
    /\ proc[p] = "up" /\ AtSelect(p)
    /\ \E count \in 1..Concurrency : count = Free(p) /\ Q!Claim(count)
    /\ reply' = [reply EXCEPT ![p] = receipts' \ receipts]
    /\ UNCHANGED <<proc, tasks, faults, shutdowns>>

\* Its answer arrives, also after a shutdown was asked for, and each job it
\* names gets a task.
ClaimReply(p) ==
    /\ reply[p] # {}
    /\ tasks' = [tasks EXCEPT ![p] =
                   [c \in DOMAIN @ \cup reply[p] |->
                      IF c \in reply[p] THEN [phase |-> "working", age |-> 0]
                      ELSE @[c]]]
    /\ reply' = [reply EXCEPT ![p] = {}]
    /\ UNCHANGED <<queueVars, proc, faults, shutdowns>>

\* The connection breaks before the answer: the rows stay leased to nobody.
ClaimReplyLost(p) ==
    /\ reply[p] # {}
    /\ faults < MaxFaults
    /\ Q!Abandon(reply[p])
    /\ reply' = [reply EXCEPT ![p] = {}]
    /\ faults' = faults + 1
    /\ UNCHANGED <<proc, tasks, shutdowns>>

Enter(p, c, phase) ==
    tasks' = [tasks EXCEPT ![p][c] = [phase |-> phase, age |-> 0]]

Deferring == {p \in Process : InPhase(p, {"deferred"}) # {}}

HandlerCheckpoints(p, c) ==
    /\ tasks[p][c].phase = "working"
    /\ Q!Checkpoint(c)
    /\ UNCHANGED <<proc, reply, tasks, faults, shutdowns>>

\* The handler returns; its heartbeat is dropped with it.
HandlerEnds(p, c, outcome) ==
    /\ tasks[p][c].phase = "working"
    /\ outcome = "deferred" => defers < MaxDefers /\ Deferring = {}
    /\ Enter(p, c, outcome)
    /\ UNCHANGED <<queueVars, proc, reply, faults, shutdowns>>

BeatDue(p, c) ==
    /\ tasks[p][c].phase = "working"
    /\ tasks[p][c].age >= HeartbeatEvery

\* A heartbeat the queue accepts; the next is due one period after it.
BeatAccepted(p, c) ==
    /\ BeatDue(p, c)
    /\ Q!Heartbeat(c)
    /\ Enter(p, c, "working")
    /\ UNCHANGED <<proc, reply, faults, shutdowns>>

\* "job lease lost": the handler is dropped where it stands.
BeatRefused(p, c) ==
    /\ BeatDue(p, c)
    /\ ~Q!Live(c)
    /\ Q!Abandon({c})
    /\ Enter(p, c, "error")
    /\ UNCHANGED <<proc, reply, faults, shutdowns>>

\* Mutant: the handler goes on when its heartbeat fails.
BeatUnavailableIgnored(p, c) ==
    /\ BeatDue(p, c)
    /\ faults < MaxFaults
    /\ Enter(p, c, "working")
    /\ faults' = faults + 1
    /\ UNCHANGED <<queueVars, proc, reply, shutdowns>>

\* The database does not answer, and the handler is dropped too.
BeatUnavailable(p, c) ==
    /\ BeatDue(p, c)
    /\ faults < MaxFaults
    /\ Q!Abandon({c})
    /\ Enter(p, c, "unavailable")
    /\ faults' = faults + 1
    /\ UNCHANGED <<proc, reply, shutdowns>>

\* Mutant: the row of a completed task is deleted whoever holds its lease.
AnswerUnchecked(p, c) ==
    /\ tasks[p][c].phase = "completed"
    /\ c.id \in DOMAIN job
    /\ job' = Q!Without({c.id})
    /\ done' = done \cup {c.req}
    /\ receipts' = receipts \ {c}
    /\ UNCHANGED <<nextId, archive, log, defers>>

\* The call that answers the queue for a task, by the outcome of its handler.
Answer(p, c) ==
    \/ tasks[p][c].phase = "completed" /\ Q!FinishCompleted(c)
    \/ tasks[p][c].phase = "failed" /\ Q!FinishFailed(c)
    \/ tasks[p][c].phase = "deferred" /\ Q!Defer(c)

AnswerAccepted(p, c) ==
    /\ Answer(p, c)
    /\ Enter(p, c, "ok")
    /\ UNCHANGED <<proc, reply, faults, shutdowns>>

\* The queue took the answer, but the task does not learn of it.
AnswerReplyLost(p, c) ==
    /\ faults < MaxFaults
    /\ Answer(p, c)
    /\ Enter(p, c, "unavailable")
    /\ faults' = faults + 1
    /\ UNCHANGED <<proc, reply, shutdowns>>

\* Mutant: a refused answer is sent again until the queue takes it.
AnswerRefusedRepeats(p, c) ==
    /\ tasks[p][c].phase \in Outcome
    /\ ~Q!Live(c)
    /\ UNCHANGED vars

\* "job lease expired before acknowledgement".
AnswerRefused(p, c) ==
    /\ tasks[p][c].phase \in Outcome
    /\ ~Q!Live(c)
    /\ Q!Abandon({c})
    /\ Enter(p, c, "error")
    /\ UNCHANGED <<proc, reply, faults, shutdowns>>

AnswerUnavailable(p, c) ==
    /\ tasks[p][c].phase \in Outcome
    /\ faults < MaxFaults
    /\ Q!Abandon({c})
    /\ Enter(p, c, "unavailable")
    /\ faults' = faults + 1
    /\ UNCHANGED <<proc, reply, shutdowns>>

\* Mutant: a task the database did not answer keeps its slot.
ReapAnswered(p, c) ==
    /\ AtSelect(p)
    /\ tasks[p][c].phase = "ok"
    /\ tasks' = [tasks EXCEPT ![p] = [d \in DOMAIN @ \ {c} |-> @[d]]]
    /\ UNCHANGED <<queueVars, proc, reply, faults, shutdowns>>

\* join_next: the loop goes on after Ok and after an unavailable database.
Reap(p, c) ==
    /\ AtSelect(p)
    /\ tasks[p][c].phase \in {"ok", "unavailable"}
    /\ tasks' = [tasks EXCEPT ![p] = [d \in DOMAIN @ \ {c} |-> @[d]]]
    /\ UNCHANGED <<queueVars, proc, reply, faults, shutdowns>>

\* All that the process held is dropped with it.
Drop(p) ==
    /\ Q!Abandon(Held(p))
    /\ proc' = [proc EXCEPT ![p] = "failed"]
    /\ reply' = [reply EXCEPT ![p] = {}]
    /\ tasks' = [tasks EXCEPT ![p] = NoTasks]

\* Any other error ends the lane: the remaining tasks are aborted, the sibling
\* lane too, and the process exits.
LaneFails(p) ==
    /\ AtSelect(p)
    /\ InPhase(p, {"error"}) # {}
    /\ Drop(p)
    /\ UNCHANGED shutdowns
    /\ faults' = IF faults = 0 THEN 1 ELSE faults

\* The process is killed, or its other lane fails.
Dies(p) ==
    /\ proc[p] \in {"up", "draining"}
    /\ faults < MaxFaults
    /\ Drop(p)
    /\ faults' = faults + 1
    /\ UNCHANGED shutdowns

Shutdown(p) ==
    /\ proc[p] = "up"
    /\ shutdowns < MaxShutdowns
    /\ proc' = [proc EXCEPT ![p] = "draining"]
    /\ shutdowns' = shutdowns + 1
    /\ UNCHANGED <<queueVars, reply, tasks, faults>>

\* Mutant: a draining lane does not wait for its tasks.
StopAtOnce(p) ==
    /\ proc[p] = "draining" /\ AtSelect(p)
    /\ proc' = [proc EXCEPT ![p] = "stopped"]
    /\ UNCHANGED <<queueVars, reply, tasks, faults, shutdowns>>

\* A draining lane returns once its JoinSet is empty.
Stop(p) ==
    /\ proc[p] = "draining" /\ AtSelect(p)
    /\ DOMAIN tasks[p] = {}
    /\ proc' = [proc EXCEPT ![p] = "stopped"]
    /\ UNCHANGED <<queueVars, reply, tasks, faults, shutdowns>>

\* The deployment starts the process again.
Restart(p) ==
    /\ proc[p] \in {"failed", "stopped"}
    /\ proc' = [proc EXCEPT ![p] = "up"]
    /\ UNCHANGED <<queueVars, reply, tasks, faults, shutdowns>>

Working == {t \in Process \X receipts :
               t[2] \in InPhase(t[1], {"working"})}

\* One tick of real time.  A heartbeat is answered within MaxStall ticks of the
\* moment it is due, and the answer of a claim within the tick.
Tick ==
    /\ \A p \in Process : reply[p] = {}
    /\ \A t \in Working : tasks[t[1]][t[2]].age < HeartbeatEvery + MaxStall
    /\ \/ Q!Tick
       \/ /\ Working # {}
          /\ \A i \in DOMAIN job : job[i].lease = 0 /\ job[i].vt = 0
          /\ UNCHANGED queueVars
    /\ tasks' = [p \in Process |->
                   [c \in DOMAIN tasks[p] |->
                      IF tasks[p][c].phase = "working"
                      THEN [tasks[p][c] EXCEPT !.age = @ + 1]
                      ELSE tasks[p][c]]]
    /\ UNCHANGED <<proc, reply, faults, shutdowns>>

Handler(p, c) ==
    \/ HandlerCheckpoints(p, c)
    \/ \E outcome \in Outcome : HandlerEnds(p, c, outcome)

Beat(p, c) == BeatAccepted(p, c) \/ BeatRefused(p, c) \/ BeatUnavailable(p, c)

Acknowledge(p, c) ==
    \/ AnswerAccepted(p, c) \/ AnswerReplyLost(p, c)
    \/ AnswerRefused(p, c) \/ AnswerUnavailable(p, c)

Loop(p) ==
    \/ ClaimReply(p) \/ ClaimReplyLost(p) \/ LaneFails(p) \/ Stop(p) \/ Restart(p)
    \/ \E c \in DOMAIN tasks[p] : Reap(p, c)

Next ==
    \/ Enqueue
    \/ Tick
    \/ \E p \in Process :
          \/ ClaimCall(p) \/ Loop(p) \/ Dies(p) \/ Shutdown(p)
          \/ \E c \in DOMAIN tasks[p] :
                Handler(p, c) \/ Beat(p, c) \/ Acknowledge(p, c)

Spec == Init /\ [][Next]_vars
-----------------------------------------------------------------------------

\* The type invariant, with what the processes hold: the receipts the queue has
\* handed out are those of unanswered tasks and of claims under way, each held
\* by one process.
TypeOK ==
    /\ proc \in [Process -> {"up", "draining", "stopped", "failed"}]
    /\ \A p \in Process :
          /\ DOMAIN tasks[p] \cup reply[p] \subseteq Q!Receipt
          /\ tasks[p] \in [DOMAIN tasks[p] -> Task]
    /\ faults \in 0..(MaxFaults + 1)
    /\ shutdowns \in 0..MaxShutdowns
    /\ receipts = UNION {Held(p) : p \in Process}
    /\ \A p, q \in Process : p # q => Held(p) \cap Held(q) = {}

KindOf(c) == log[c.req]

\* Two receipts for work that must not run at the same time.
Clash(c, d) ==
    LET k == KindOf(c)
        l == KindOf(d)
    IN  \/ c.id = d.id
        \/ KeyOf[k] # NoKey /\ KeyOf[k] = KeyOf[l]
        \/ GroupOf[k] # NoGroup /\ GroupOf[k] = GroupOf[l]

\* A heartbeat is answered before the lease it renews runs out.
BeatsInTime == HeartbeatEvery + MaxStall < VT

\* While heartbeats are answered before the lease runs out, no two handlers of
\* one key or one lock group run at once, in one process or in two, though a
\* handler is only told at its next heartbeat that its lease is gone.
ExclusiveExecution ==
    \A t, u \in Working : t # u => ~Clash(t[2], u[2])

\* Without a fault every valid lease belongs to a task or a claim of a process
\* that has not ended: a shutdown leaves no row leased behind it, not even one
\* whose claim was under way when the shutdown was asked for.
NoOrphanedLease ==
    faults = 0 =>
        \A i \in Q!Active :
            \E p \in Process :
                /\ proc[p] \in {"up", "draining"}
                /\ \E c \in Held(p) : c.id = i /\ Q!Live(c)

\* Every step of the processes is a step of the queue or leaves it alone: they
\* use it only through its functions, with receipts they hold.
QueueSpec == Q!Spec

\* Handlers end, calls are answered and the loops go on.  Nothing makes a
\* process fail, be shut down or enqueue.
Fairness ==
    /\ WF_vars(Tick)
    /\ \A p \in Process :
          /\ WF_vars(ClaimCall(p))
          /\ WF_vars(Loop(p))
          /\ WF_vars(\E c \in DOMAIN tasks[p] :
                       \E outcome \in Outcome : HandlerEnds(p, c, outcome))
          /\ WF_vars(\E c \in DOMAIN tasks[p] : Acknowledge(p, c))

FairSpec == Spec /\ Fairness

\* Every request is settled in the end, through processes that die, lanes that
\* fail on a lost lease, dropped answers, shutdowns and restarts.
RequestSettles == Q!RequestSettles

\* A process that is asked to shut down ends, whatever became of the answers of
\* its tasks.
ShutdownEnds ==
    \A p \in Process : proc[p] = "draining" ~> proc[p] \in {"stopped", "failed"}
=============================================================================
