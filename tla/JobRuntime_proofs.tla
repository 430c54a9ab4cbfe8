-------------------------- MODULE JobRuntime_proofs --------------------------
(***************************************************************************)
(* The worker processes of JobRuntime.tla implement the queue of           *)
(* JobQueue.tla: whatever they do, for any number of processes, faults and *)
(* shutdowns, the queue's state follows JobQueue's specification.          *)
(***************************************************************************)
EXTENDS JobRuntime, TLAPS

\* The phases in which a task holds its receipt.
HeldPhase == {"working"} \cup Outcome

\* The tasks a process runs are records by receipt.
TasksOK ==
    /\ tasks = [p \in Process |-> tasks[p]]
    /\ \A p \in Process : tasks[p] = [c \in DOMAIN tasks[p] |-> tasks[p][c]]
    /\ \A p \in Process : \A c \in DOMAIN tasks[p] :
          tasks[p][c] = [phase |-> tasks[p][c].phase, age |-> tasks[p][c].age]

\* A process acts only on receipts the queue has handed out and not taken back,
\* and each of them in one place: in one task, or in one answer under way.
ReceiptsHeld ==
    /\ reply = [p \in Process |-> reply[p]]
    /\ \A p \in Process : Held(p) \subseteq receipts
    /\ \A p \in Process : reply[p] \cap InPhase(p, HeldPhase) = {}
    /\ \A p, q \in Process : p # q => Held(p) \cap Held(q) = {}

HoldInv == TasksOK /\ ReceiptsHeld

-----------------------------------------------------------------------------

\* The receipts of a process are those of its tasks that still hold one and those
\* of a reply it has not read.
LEMMA HeldIs ==
    ASSUME NEW p
    PROVE  Held(p) = InPhase(p, HeldPhase) \cup reply[p]
BY DEF Held, HeldPhase

\* A task that enters another phase keeps the tasks as they are but for it.
LEMMA EnterTasks ==
    ASSUME TasksOK, NEW p \in Process, NEW c \in DOMAIN tasks[p], NEW phase, Enter(p, c, phase)
    PROVE  /\ TasksOK'
           /\ \A q \in Process : DOMAIN tasks'[q] = DOMAIN tasks[q]
           /\ tasks'[p][c].phase = phase /\ tasks'[p][c].age = 0
           /\ \A q \in Process : \A d \in DOMAIN tasks[q] :
                 q # p \/ d # c => tasks'[q][d] = tasks[q][d]
<1>1. tasks' = [tasks EXCEPT ![p] = [tasks[p] EXCEPT ![c] = [phase |-> phase, age |-> 0]]]
  BY DEF Enter
<1>2. tasks'[p] = [tasks[p] EXCEPT ![c] = [phase |-> phase, age |-> 0]]
  BY <1>1 DEF TasksOK
<1>3. \A q \in Process : q # p => tasks'[q] = tasks[q]
  BY <1>1 DEF TasksOK
<1>4. DOMAIN tasks'[p] = DOMAIN tasks[p] /\ tasks'[p][c] = [phase |-> phase, age |-> 0]
  BY <1>2 DEF TasksOK
<1>5. \A d \in DOMAIN tasks[p] : d # c => tasks'[p][d] = tasks[p][d]
  BY <1>2 DEF TasksOK
<1>6. tasks' = [q \in Process |-> tasks'[q]]
  BY <1>1 DEF TasksOK
<1>7. \A q \in Process : tasks'[q] = [d \in DOMAIN tasks'[q] |-> tasks'[q][d]]
  BY <1>2, <1>3 DEF TasksOK
<1>8. \A q \in Process : \A d \in DOMAIN tasks'[q] :
         tasks'[q][d] = [phase |-> tasks'[q][d].phase, age |-> tasks'[q][d].age]
  BY <1>3, <1>4, <1>5 DEF TasksOK
<1> QED
  BY <1>3, <1>4, <1>5, <1>6, <1>7, <1>8 DEF TasksOK

\* A task that goes on holding its receipt changes nothing of what is held.
LEMMA EnterHeldPhase ==
    ASSUME HoldInv, NEW p \in Process, NEW c \in DOMAIN tasks[p], NEW phase \in HeldPhase,
           tasks[p][c].phase \in HeldPhase, Enter(p, c, phase),
           reply' = reply, receipts' = receipts
    PROVE  HoldInv' /\ \A q \in Process : Held(q)' = Held(q)
<1>1. \A q \in Process : InPhase(q, HeldPhase)' = InPhase(q, HeldPhase)
  BY EnterTasks DEF InPhase, HoldInv
<1>2. \A q \in Process : Held(q)' = Held(q)
  BY <1>1, HeldIs DEF Held, HeldPhase
<1>3. TasksOK'
  BY EnterTasks DEF HoldInv
<1> QED
  BY <1>1, <1>2, <1>3 DEF HoldInv, ReceiptsHeld

\* A task that ends gives its receipt up, and the queue no longer knows it.
LEMMA EnterEnded ==
    ASSUME HoldInv, NEW p \in Process, NEW c \in DOMAIN tasks[p], NEW phase,
           phase \notin HeldPhase, tasks[p][c].phase \in HeldPhase, Enter(p, c, phase),
           reply' = reply, receipts' = receipts \ {c}
    PROVE  HoldInv' /\ \A q \in Process : Held(q)' = Held(q) \ {c}
<1>1. \A q \in Process : q # p => InPhase(q, HeldPhase)' = InPhase(q, HeldPhase)
  BY EnterTasks DEF InPhase, HoldInv
<1>2. InPhase(p, HeldPhase)' = InPhase(p, HeldPhase) \ {c}
  BY EnterTasks DEF InPhase, HoldInv
<1>3. c \in InPhase(p, HeldPhase)
  BY DEF InPhase
<1>4. c \notin reply[p] /\ \A q \in Process : q # p => c \notin Held(q)
  BY <1>3, HeldIs DEF HoldInv, ReceiptsHeld
<1>5. Held(p)' = Held(p) \ {c} /\ \A q \in Process : q # p => Held(q)' = Held(q)
  BY <1>1, <1>2, <1>4, HeldIs DEF Held, HeldPhase
<1>6. TasksOK'
  BY EnterTasks DEF HoldInv
<1> QED
  BY <1>1, <1>2, <1>4, <1>5, <1>6 DEF HoldInv, ReceiptsHeld

-----------------------------------------------------------------------------

\* Nothing is held at first.
LEMMA InitHold == Init => HoldInv
BY DEF Init, HoldInv, TasksOK, ReceiptsHeld, NoTasks, Held, InPhase

\* A step that leaves the tasks, the answers under way and the receipts alone.
LEMMA SameHold ==
    ASSUME HoldInv, tasks' = tasks, reply' = reply, receipts' = receipts
    PROVE  HoldInv' /\ \A q \in Process : Held(q)' = Held(q)
BY DEF HoldInv, TasksOK, ReceiptsHeld, Held, InPhase

\* The receipts of a claim are new, so nobody else holds them.
LEMMA ClaimCallHold ==
    ASSUME HoldInv, NEW p \in Process, ClaimCall(p)
    PROVE  /\ HoldInv'
           /\ Held(p)' = Held(p) \cup (receipts' \ receipts)
           /\ \A q \in Process : q # p => Held(q)' = Held(q)
<1>1. reply[p] = {} /\ tasks' = tasks /\ receipts \subseteq receipts'
  BY DEF ClaimCall, AtSelect, Q!Claim
<1>2. reply' = [reply EXCEPT ![p] = receipts' \ receipts]
  BY DEF ClaimCall
<1>3. /\ reply' = [q \in Process |-> reply'[q]]
      /\ reply'[p] = receipts' \ receipts
      /\ \A q \in Process : q # p => reply'[q] = reply[q]
  BY <1>2 DEF HoldInv, ReceiptsHeld
<1>4. \A q \in Process : InPhase(q, HeldPhase)' = InPhase(q, HeldPhase)
  BY <1>1 DEF InPhase
<1>5. /\ Held(p)' = Held(p) \cup (receipts' \ receipts)
      /\ \A q \in Process : q # p => Held(q)' = Held(q)
  BY <1>1, <1>3, <1>4, HeldIs DEF Held, HeldPhase
<1>6. \A q \in Process : Held(q) \subseteq receipts
  BY DEF HoldInv, ReceiptsHeld
<1>7. InPhase(p, HeldPhase) \subseteq receipts
  BY <1>6, HeldIs
<1>8. TasksOK'
  BY <1>1 DEF HoldInv, TasksOK
<1>9. \A q \in Process : Held(q)' \subseteq receipts'
  BY <1>1, <1>5, <1>6
<1>10. \A q \in Process : reply'[q] \cap InPhase(q, HeldPhase)' = {}
  BY <1>3, <1>4, <1>7 DEF HoldInv, ReceiptsHeld
<1>11. \A q, r \in Process : q # r => Held(q)' \cap Held(r)' = {}
  BY <1>5, <1>6 DEF HoldInv, ReceiptsHeld
<1> QED
  BY <1>3, <1>5, <1>8, <1>9, <1>10, <1>11 DEF HoldInv, ReceiptsHeld

\* The answer of a claim becomes tasks: the same receipts, in another place.
LEMMA ClaimReplyHold ==
    ASSUME HoldInv, NEW p \in Process, ClaimReply(p)
    PROVE  HoldInv' /\ \A q \in Process : Held(q)' = Held(q)
<1> DEFINE Grown == [c \in DOMAIN tasks[p] \cup reply[p] |->
                        IF c \in reply[p] THEN [phase |-> "working", age |-> 0]
                                          ELSE tasks[p][c]]
<1>1. /\ tasks' = [tasks EXCEPT ![p] = Grown]
      /\ reply' = [reply EXCEPT ![p] = {}]
      /\ receipts' = receipts
  BY DEF ClaimReply, queueVars
<1>2. /\ tasks'[p] = Grown /\ reply'[p] = {}
      /\ \A q \in Process : q # p => tasks'[q] = tasks[q] /\ reply'[q] = reply[q]
  BY <1>1 DEF HoldInv, TasksOK, ReceiptsHeld
<1>3. \A q \in Process : q # p => Held(q)' = Held(q)
  BY <1>2 DEF Held, InPhase
<1>4. InPhase(p, HeldPhase)' = InPhase(p, HeldPhase) \cup reply[p]
  <2>1. DOMAIN tasks'[p] = DOMAIN tasks[p] \cup reply[p]
    BY <1>2
  <2>2. \A c \in reply[p] : tasks'[p][c].phase = "working"
    BY <1>2
  <2>3. \A c \in DOMAIN tasks[p] \ reply[p] : tasks'[p][c] = tasks[p][c]
    BY <1>2
  <2> QED
    BY <2>1, <2>2, <2>3 DEF InPhase, HeldPhase
<1>5. Held(p)' = Held(p)
  BY <1>2, <1>4, HeldIs DEF Held, HeldPhase
<1>6. TasksOK'
  <2>1. tasks' = [q \in Process |-> tasks'[q]]
    BY <1>1 DEF HoldInv, TasksOK
  <2>2. tasks'[p] = [c \in DOMAIN tasks'[p] |-> tasks'[p][c]]
    BY <1>2
  <2>3. \A c \in DOMAIN tasks'[p] :
           tasks'[p][c] = [phase |-> tasks'[p][c].phase, age |-> tasks'[p][c].age]
    BY <1>2 DEF HoldInv, TasksOK
  <2> QED
    BY <1>2, <2>1, <2>2, <2>3 DEF HoldInv, TasksOK
<1>7. \A q \in Process : reply'[q] \cap InPhase(q, HeldPhase)' = {}
  BY <1>2 DEF HoldInv, ReceiptsHeld, InPhase
<1>8. reply' = [q \in Process |-> reply'[q]]
  BY <1>1 DEF HoldInv, ReceiptsHeld
<1> QED
  BY <1>1, <1>3, <1>5, <1>6, <1>7, <1>8 DEF HoldInv, ReceiptsHeld

\* What a process drops is given up in the queue, all at once.
LEMMA DropHold ==
    ASSUME HoldInv, NEW p \in Process, Drop(p)
    PROVE  HoldInv'
<1>1. /\ receipts' = receipts \ Held(p)
      /\ reply' = [reply EXCEPT ![p] = {}]
      /\ tasks' = [tasks EXCEPT ![p] = NoTasks]
  BY DEF Drop, Q!Abandon
<1>2. /\ tasks'[p] = NoTasks /\ reply'[p] = {}
      /\ \A q \in Process : q # p => tasks'[q] = tasks[q] /\ reply'[q] = reply[q]
  BY <1>1 DEF HoldInv, TasksOK, ReceiptsHeld
<1>3. Held(p)' = {} /\ \A q \in Process : q # p => Held(q)' = Held(q)
  BY <1>2 DEF Held, InPhase, NoTasks
<1>4. TasksOK'
  BY <1>1, <1>2 DEF HoldInv, TasksOK, NoTasks
<1>5. \A q \in Process : reply'[q] \cap InPhase(q, HeldPhase)' = {}
  BY <1>2 DEF HoldInv, ReceiptsHeld, InPhase
<1>6. reply' = [q \in Process |-> reply'[q]]
  BY <1>1 DEF HoldInv, ReceiptsHeld
<1> QED
  BY <1>1, <1>3, <1>4, <1>5, <1>6 DEF HoldInv, ReceiptsHeld

\* The answer of a claim is lost, and its receipts are given up.
LEMMA ClaimReplyLostHold ==
    ASSUME HoldInv, NEW p \in Process, ClaimReplyLost(p)
    PROVE  HoldInv'
<1>1. /\ receipts' = receipts \ reply[p]
      /\ reply' = [reply EXCEPT ![p] = {}]
      /\ tasks' = tasks
  BY DEF ClaimReplyLost, Q!Abandon
<1>2. reply'[p] = {} /\ \A q \in Process : q # p => reply'[q] = reply[q]
  BY <1>1 DEF HoldInv, ReceiptsHeld
<1>3. \A q \in Process : InPhase(q, HeldPhase)' = InPhase(q, HeldPhase)
  BY <1>1 DEF InPhase
<1>4. Held(p)' = InPhase(p, HeldPhase) /\ \A q \in Process : q # p => Held(q)' = Held(q)
  BY <1>2, <1>3, HeldIs DEF Held, HeldPhase
<1>5. reply[p] \subseteq Held(p) /\ InPhase(p, HeldPhase) \subseteq Held(p)
  BY HeldIs
<1>6. \A q \in Process : Held(q)' \subseteq receipts'
  BY <1>1, <1>4, <1>5 DEF HoldInv, ReceiptsHeld
<1>7. \A q, r \in Process : q # r => Held(q)' \cap Held(r)' = {}
  BY <1>4, <1>5 DEF HoldInv, ReceiptsHeld
<1>8. reply' = [q \in Process |-> reply'[q]]
  BY <1>1 DEF HoldInv, ReceiptsHeld
<1>9. \A q \in Process : reply'[q] \cap InPhase(q, HeldPhase)' = {}
  BY <1>2, <1>3 DEF HoldInv, ReceiptsHeld
<1> QED
  BY <1>1, <1>6, <1>7, <1>8, <1>9 DEF HoldInv, TasksOK, ReceiptsHeld

\* A task that is reaped holds nothing any more.
LEMMA ReapHold ==
    ASSUME HoldInv, NEW p \in Process, NEW c \in DOMAIN tasks[p], Reap(p, c)
    PROVE  HoldInv' /\ \A q \in Process : Held(q)' = Held(q)
<1>1. /\ tasks' = [tasks EXCEPT ![p] = [d \in DOMAIN tasks[p] \ {c} |-> tasks[p][d]]]
      /\ tasks[p][c].phase \notin HeldPhase
      /\ receipts' = receipts /\ reply' = reply
  BY DEF Reap, queueVars, HeldPhase, Outcome
<1>2. /\ tasks'[p] = [d \in DOMAIN tasks[p] \ {c} |-> tasks[p][d]]
      /\ \A q \in Process : q # p => tasks'[q] = tasks[q]
  BY <1>1 DEF HoldInv, TasksOK
<1>3. \A q \in Process : InPhase(q, HeldPhase)' = InPhase(q, HeldPhase)
  BY <1>1, <1>2 DEF InPhase
<1>4. \A q \in Process : Held(q)' = Held(q)
  BY <1>1, <1>3, HeldIs DEF Held, HeldPhase
<1>5. TasksOK'
  <2>1. tasks' = [q \in Process |-> tasks'[q]]
    BY <1>1 DEF HoldInv, TasksOK
  <2>2. tasks'[p] = [d \in DOMAIN tasks'[p] |-> tasks'[p][d]]
    BY <1>2
  <2>3. \A d \in DOMAIN tasks'[p] :
           tasks'[p][d] = [phase |-> tasks'[p][d].phase, age |-> tasks'[p][d].age]
    BY <1>2 DEF HoldInv, TasksOK
  <2> QED
    BY <1>2, <2>1, <2>2, <2>3 DEF HoldInv, TasksOK
<1> QED
  BY <1>1, <1>3, <1>4, <1>5 DEF HoldInv, ReceiptsHeld

\* A tick makes the working tasks older and leaves their phases.
LEMMA TickHold ==
    ASSUME HoldInv, Tick
    PROVE  HoldInv' /\ \A q \in Process : Held(q)' = Held(q)
<1>1. /\ tasks' = [p \in Process |->
                     [c \in DOMAIN tasks[p] |->
                        IF tasks[p][c].phase = "working"
                        THEN [tasks[p][c] EXCEPT !.age = @ + 1]
                        ELSE tasks[p][c]]]
      /\ reply' = reply /\ receipts' = receipts
  BY DEF Tick, Q!Tick, queueVars
<1>2. \A p \in Process : DOMAIN tasks'[p] = DOMAIN tasks[p]
  BY <1>1
<1>3. \A p \in Process : \A c \in DOMAIN tasks[p] :
         /\ tasks'[p][c].phase = tasks[p][c].phase
         /\ tasks'[p][c] = [phase |-> tasks'[p][c].phase, age |-> tasks'[p][c].age]
  <2> SUFFICES ASSUME NEW p \in Process, NEW c \in DOMAIN tasks[p]
               PROVE  /\ tasks'[p][c].phase = tasks[p][c].phase
                      /\ tasks'[p][c] = [phase |-> tasks'[p][c].phase, age |-> tasks'[p][c].age]
    OBVIOUS
  <2>1. tasks[p][c] = [phase |-> tasks[p][c].phase, age |-> tasks[p][c].age]
    BY DEF HoldInv, TasksOK
  <2>2. tasks'[p][c] = IF tasks[p][c].phase = "working"
                       THEN [tasks[p][c] EXCEPT !.age = @ + 1] ELSE tasks[p][c]
    BY <1>1
  <2> QED
    BY <2>1, <2>2
<1>4. \A p \in Process : InPhase(p, HeldPhase)' = InPhase(p, HeldPhase)
  BY <1>2, <1>3 DEF InPhase
<1>5. \A p \in Process : Held(p)' = Held(p)
  BY <1>1, <1>4, HeldIs DEF Held, HeldPhase
<1>6. TasksOK'
  <2>1. tasks' = [p \in Process |-> tasks'[p]]
    BY <1>1
  <2>2. \A p \in Process : tasks'[p] = [c \in DOMAIN tasks'[p] |-> tasks'[p][c]]
    BY <1>1
  <2>3. \A p \in Process : \A c \in DOMAIN tasks'[p] :
           tasks'[p][c] = [phase |-> tasks'[p][c].phase, age |-> tasks'[p][c].age]
    BY <1>2, <1>3
  <2> QED
    BY <2>1, <2>2, <2>3 DEF TasksOK
<1> QED
  BY <1>1, <1>4, <1>5, <1>6 DEF HoldInv, ReceiptsHeld

\* An answer takes the receipt back.
LEMMA AnswerTakes ==
    ASSUME NEW p, NEW c, Answer(p, c)
    PROVE  tasks[p][c].phase \in Outcome /\ receipts' = receipts \ {c}
BY DEF Answer, Outcome, Q!FinishCompleted, Q!FinishFailed, Q!Defer

\* Every step keeps the receipts held in one place.
LEMMA NextHold == HoldInv /\ [Next]_vars => HoldInv'
<1> SUFFICES ASSUME HoldInv, [Next]_vars PROVE HoldInv'
  OBVIOUS
<1>1. CASE Enqueue
  BY <1>1, SameHold DEF Enqueue, Q!Enqueue
<1>2. CASE Tick
  BY <1>2, TickHold
<1>3. ASSUME NEW p \in Process, ClaimCall(p) PROVE HoldInv'
  BY <1>3, ClaimCallHold
<1>4. ASSUME NEW p \in Process, Loop(p) PROVE HoldInv'
  <2>1. CASE ClaimReply(p)
    BY <2>1, ClaimReplyHold
  <2>2. CASE ClaimReplyLost(p)
    BY <2>2, ClaimReplyLostHold
  <2>3. CASE LaneFails(p)
    BY <2>3, DropHold DEF LaneFails
  <2>4. CASE Stop(p) \/ Restart(p)
    BY <2>4, SameHold DEF Stop, Restart, queueVars
  <2>5. ASSUME NEW c \in DOMAIN tasks[p], Reap(p, c) PROVE HoldInv'
    BY <2>5, ReapHold
  <2> QED
    BY <1>4, <2>1, <2>2, <2>3, <2>4, <2>5 DEF Loop
<1>5. ASSUME NEW p \in Process, Dies(p) PROVE HoldInv'
  BY <1>5, DropHold DEF Dies
<1>6. ASSUME NEW p \in Process, Shutdown(p) PROVE HoldInv'
  BY <1>6, SameHold DEF Shutdown, queueVars
<1>7. ASSUME NEW p \in Process, NEW c \in DOMAIN tasks[p], Handler(p, c) PROVE HoldInv'
  <2>1. CASE HandlerCheckpoints(p, c)
    BY <2>1, SameHold DEF HandlerCheckpoints, Q!Checkpoint
  <2>2. ASSUME NEW outcome \in Outcome, HandlerEnds(p, c, outcome) PROVE HoldInv'
    BY <2>2, EnterHeldPhase DEF HandlerEnds, HeldPhase, queueVars
  <2> QED
    BY <1>7, <2>1, <2>2 DEF Handler
<1>8. ASSUME NEW p \in Process, NEW c \in DOMAIN tasks[p], Beat(p, c) PROVE HoldInv'
  <2>1. CASE BeatAccepted(p, c)
    BY <2>1, EnterHeldPhase DEF BeatAccepted, BeatDue, Q!Heartbeat, HeldPhase
  <2>2. CASE BeatRefused(p, c)
    BY <2>2, EnterEnded DEF BeatRefused, BeatDue, Q!Abandon, HeldPhase, Outcome
  <2>3. CASE BeatUnavailable(p, c)
    BY <2>3, EnterEnded DEF BeatUnavailable, BeatDue, Q!Abandon, HeldPhase, Outcome
  <2> QED
    BY <1>8, <2>1, <2>2, <2>3 DEF Beat
<1>9. ASSUME NEW p \in Process, NEW c \in DOMAIN tasks[p], Acknowledge(p, c) PROVE HoldInv'
  <2>1. CASE AnswerAccepted(p, c)
    BY <2>1, AnswerTakes, EnterEnded DEF AnswerAccepted, HeldPhase, Outcome
  <2>2. CASE AnswerReplyLost(p, c)
    BY <2>2, AnswerTakes, EnterEnded DEF AnswerReplyLost, HeldPhase, Outcome
  <2>3. CASE AnswerRefused(p, c)
    BY <2>3, EnterEnded DEF AnswerRefused, Q!Abandon, HeldPhase, Outcome
  <2>4. CASE AnswerUnavailable(p, c)
    BY <2>4, EnterEnded DEF AnswerUnavailable, Q!Abandon, HeldPhase, Outcome
  <2> QED
    BY <1>9, <2>1, <2>2, <2>3, <2>4 DEF Acknowledge
<1>10. CASE UNCHANGED vars
  BY <1>10, SameHold DEF vars, queueVars
<1> QED
  BY <1>1, <1>2, <1>3, <1>4, <1>5, <1>6, <1>7, <1>8, <1>9, <1>10 DEF Next

\* A receipt is held in one place at a time, by the process that claimed it, and
\* no process acts on one the queue has taken back (run_lane and execute).
THEOREM ReceiptsHeldOnce == Spec => []HoldInv
BY InitHold, NextHold, PTL DEF Spec

-----------------------------------------------------------------------------

\* Every step of the processes is a step of the queue, or leaves it alone.
LEMMA StepRefines == HoldInv /\ [Next]_vars => [Q!Next]_queueVars
<1> SUFFICES ASSUME HoldInv, [Next]_vars PROVE Q!Next \/ UNCHANGED queueVars
  BY DEF queueVars
<1>1. CASE Enqueue
  BY <1>1 DEF Enqueue, Q!Next
<1>2. CASE Tick
  BY <1>2 DEF Tick, Q!Next
<1>3. ASSUME NEW p \in Process, ClaimCall(p) PROVE Q!Next
  BY <1>3 DEF ClaimCall, Q!Next
<1>4. ASSUME NEW p \in Process, Loop(p) PROVE Q!Next \/ UNCHANGED queueVars
  <2>1. CASE ClaimReply(p) \/ Stop(p) \/ Restart(p)
    BY <2>1 DEF ClaimReply, Stop, Restart
  <2>2. CASE ClaimReplyLost(p)
    <3>1. reply[p] \in SUBSET receipts
      BY HeldIs DEF HoldInv, ReceiptsHeld
    <3> QED
      BY <2>2, <3>1 DEF ClaimReplyLost, Q!Next
  <2>3. CASE LaneFails(p)
    <3>1. Held(p) \in SUBSET receipts
      BY DEF HoldInv, ReceiptsHeld
    <3> QED
      BY <2>3, <3>1 DEF LaneFails, Drop, Q!Next
  <2>4. ASSUME NEW c \in DOMAIN tasks[p], Reap(p, c) PROVE UNCHANGED queueVars
    BY <2>4 DEF Reap
  <2> QED
    BY <1>4, <2>1, <2>2, <2>3, <2>4 DEF Loop
<1>5. ASSUME NEW p \in Process, Dies(p) PROVE Q!Next
  <2>1. Held(p) \in SUBSET receipts
    BY DEF HoldInv, ReceiptsHeld
  <2> QED
    BY <1>5, <2>1 DEF Dies, Drop, Q!Next
<1>6. ASSUME NEW p \in Process, Shutdown(p) PROVE UNCHANGED queueVars
  BY <1>6 DEF Shutdown
<1>7. ASSUME NEW p \in Process, NEW c \in DOMAIN tasks[p], tasks[p][c].phase \in HeldPhase
      PROVE  c \in receipts
  BY <1>7, HeldIs DEF HoldInv, ReceiptsHeld, InPhase
<1>8. ASSUME NEW p \in Process, NEW c \in DOMAIN tasks[p], Handler(p, c)
      PROVE  Q!Next \/ UNCHANGED queueVars
  <2>1. CASE HandlerCheckpoints(p, c)
    BY <1>7, <2>1 DEF HandlerCheckpoints, HeldPhase, Q!Next
  <2>2. ASSUME NEW outcome \in Outcome, HandlerEnds(p, c, outcome) PROVE UNCHANGED queueVars
    BY <2>2 DEF HandlerEnds
  <2> QED
    BY <1>8, <2>1, <2>2 DEF Handler
<1>9. ASSUME NEW p \in Process, NEW c \in DOMAIN tasks[p], Beat(p, c) PROVE Q!Next
  <2>1. c \in receipts
    BY <1>7, <1>9 DEF Beat, BeatAccepted, BeatRefused, BeatUnavailable, BeatDue, HeldPhase
  <2> QED
    BY <1>9, <2>1 DEF Beat, BeatAccepted, BeatRefused, BeatUnavailable, Q!Next, Q!Settle
<1>10. ASSUME NEW p \in Process, NEW c \in DOMAIN tasks[p], Acknowledge(p, c) PROVE Q!Next
  <2>1. CASE Answer(p, c)
    <3>1. c \in receipts
      BY <1>7, <2>1, AnswerTakes DEF HeldPhase
    <3> QED
      BY <2>1, <3>1 DEF Answer, Q!Next, Q!Settle
  <2>2. CASE AnswerRefused(p, c) \/ AnswerUnavailable(p, c)
    <3>1. c \in receipts
      BY <1>7, <2>2 DEF AnswerRefused, AnswerUnavailable, HeldPhase
    <3> QED
      BY <2>2, <3>1 DEF AnswerRefused, AnswerUnavailable, Q!Next, Q!Settle
  <2> QED
    BY <1>10, <2>1, <2>2 DEF Acknowledge, AnswerAccepted, AnswerReplyLost
<1>11. CASE UNCHANGED vars
  BY <1>11 DEF vars
<1> QED
  BY <1>1, <1>2, <1>3, <1>4, <1>5, <1>6, <1>8, <1>9, <1>10, <1>11 DEF Next

\* The processes implement the queue's specification: they use it only through
\* its functions and with receipts they hold, whatever faults, shutdowns and
\* lost answers there are.
THEOREM RuntimeImplementsQueue == Spec => QueueSpec
<1>1. Init => Q!Init
  BY DEF Init
<1>2. HoldInv /\ [Next]_vars => [Q!Next]_queueVars
  BY StepRefines
<1> QED
  BY <1>1, <1>2, ReceiptsHeldOnce, PTL DEF Spec, QueueSpec, Q!Spec, Q!vars, queueVars

-----------------------------------------------------------------------------
(* The queue's own lemmas, about the state the processes share with it.    *)

P == INSTANCE JobQueue_proofs

\* An honoured receipt and an active row are what JobQueue calls so.
LEMMA SameLive ==
    /\ Q!Active = P!Active
    /\ \A c : Q!Live(c) <=> P!Live(c)
BY DEF Q!Active, P!Active, Q!Live, P!Live

\* A row that waits to be claimed is what JobQueue calls so.
LEMMA SamePending ==
    ASSUME NEW key
    PROVE  Q!Pending(key) = P!Pending(key)
BY DEF Q!Pending, P!Pending

\* enqueue is JobQueue's.
LEMMA SameEnqueue ==
    ASSUME NEW k, NEW delay, Q!Enqueue(k, delay)
    PROVE  P!Enqueue(k, delay)
BY SamePending DEF Q!Enqueue, P!Enqueue, Q!Coalesce, P!Coalesce, Q!Insert, P!Insert,
   Q!Renewed, P!Renewed, Q!NewRow, P!NewRow

\* heartbeat is JobQueue's.
LEMMA SameHeartbeat ==
    ASSUME NEW c, Q!Heartbeat(c)
    PROVE  P!Heartbeat(c)
BY SameLive DEF Q!Heartbeat, P!Heartbeat, Q!Extended, P!Extended

\* checkpoint is JobQueue's.
LEMMA SameCheckpoint ==
    ASSUME NEW c, Q!Checkpoint(c)
    PROVE  P!Checkpoint(c)
BY SameLive DEF Q!Checkpoint, P!Checkpoint, Q!Progressed, P!Progressed

\* finish, completed, is JobQueue's.
LEMMA SameFinishCompleted ==
    ASSUME NEW c, Q!FinishCompleted(c)
    PROVE  P!FinishCompleted(c)
BY SameLive DEF Q!FinishCompleted, P!FinishCompleted, Q!Without, P!Without

\* finish, failed, is JobQueue's.
LEMMA SameFinishFailed ==
    ASSUME NEW c, Q!FinishFailed(c)
    PROVE  P!FinishFailed(c)
BY SameLive, SamePending
   DEF Q!FinishFailed, P!FinishFailed, Q!FailExhausted, P!FailExhausted,
       Q!FailSuperseded, P!FailSuperseded, Q!FailRetry, P!FailRetry,
       Q!Claimable, P!Claimable, Q!Without, P!Without, Q!Returned, P!Returned,
       Q!RetryDelay, P!RetryDelay, Q!Lesser, P!Lesser

\* defer is JobQueue's.
LEMMA SameDefer ==
    ASSUME NEW c, Q!Defer(c)
    PROVE  P!Defer(c)
BY SameLive, SamePending
   DEF Q!Defer, P!Defer, Q!DeferSuperseded, P!DeferSuperseded, Q!DeferRetry,
       P!DeferRetry, Q!Without, P!Without, Q!Returned, P!Returned, Q!Less, P!Less

\* Giving receipts up is JobQueue's.
LEMMA SameAbandon ==
    ASSUME NEW cs, Q!Abandon(cs)
    PROVE  P!Abandon(cs)
BY DEF Q!Abandon, P!Abandon

\* The clock is JobQueue's.
LEMMA SameTick == Q!Tick => P!Tick
BY DEF Q!Tick, P!Tick, Q!Aged, P!Aged, Q!Less, P!Less

\* The selection of claim is JobQueue's.
LEMMA SameSelected ==
    ASSUME NEW count
    PROVE  Q!Selected(count) = P!Selected(count)
<1>1. \A i, j : Q!Conflict(i, j) <=> P!Conflict(i, j)
  BY DEF Q!Conflict, P!Conflict, Q!SameKey, P!SameKey, Q!SameGroup, P!SameGroup
<1>2. Q!Candidates = P!Candidates
  BY <1>1, SameLive DEF Q!Candidates, P!Candidates
<1>3. Q!Firsts = P!Firsts
  BY <1>2 DEF Q!Firsts, P!Firsts, Q!ConflictIdentity, P!ConflictIdentity
<1>4. \A S : Q!Cardinality(S) = P!Cardinality(S)
  BY DEF Q!Cardinality, P!Cardinality
<1> QED BY <1>3, <1>4 DEF Q!Selected, P!Selected

\* claim is JobQueue's.
LEMMA SameClaim ==
    ASSUME NEW count, Q!Claim(count)
    PROVE  P!Claim(count)
<1>1. \A i, j : Q!Conflict(i, j) <=> P!Conflict(i, j)
  BY DEF Q!Conflict, P!Conflict, Q!SameKey, P!SameKey, Q!SameGroup, P!SameGroup
<1>2. \A i, granted : Q!Fenced(i, granted) <=> P!Fenced(i, granted)
  BY <1>1 DEF Q!Fenced, P!Fenced
<1>3. \A i : Q!Claimable(i) <=> P!Claimable(i)
  BY DEF Q!Claimable, P!Claimable
<1>4. \A granted : Q!Exhausted(granted, count) = P!Exhausted(granted, count)
  BY <1>2, <1>3, SameSelected DEF Q!Exhausted, P!Exhausted
<1>5. \A granted : Q!IsGrant(granted, count) <=> P!IsGrant(granted, count)
  BY <1>2, <1>3, SameSelected DEF Q!IsGrant, P!IsGrant
<1>6. \A r, lag : Q!Leased(r, lag) = P!Leased(r, lag)
  BY DEF Q!Leased, P!Leased
<1> QED BY <1>4, <1>5, <1>6, SameSelected DEF Q!Claim, P!Claim

\* A step of the queue is a step of JobQueue.
LEMMA SameNext == [Q!Next]_queueVars => [P!Next]_(P!vars)
<1> SUFFICES ASSUME Q!Next PROVE P!Next
  BY DEF queueVars, P!vars
<1>1. ASSUME NEW c \in receipts, Q!Settle(c) PROVE P!Settle(c)
  BY <1>1, SameFinishCompleted, SameFinishFailed, SameDefer, SameAbandon
     DEF Q!Settle, P!Settle
<1> QED
  BY <1>1, SameEnqueue, SameClaim, SameHeartbeat, SameCheckpoint, SameAbandon, SameTick
     DEF Q!Next, P!Next

\* What is proved of JobQueue's behaviours holds of the processes' behaviours.
LEMMA QueueRuns == Spec => P!Spec
<1>1. Q!Init => P!Init
  BY DEF Q!Init, P!Init
<1>2. [Q!Next]_(Q!vars) => [P!Next]_(P!vars)
  BY SameNext DEF Q!vars, queueVars
<1> QED
  BY <1>1, <1>2, RuntimeImplementsQueue, PTL DEF QueueSpec, Q!Spec, P!Spec

-----------------------------------------------------------------------------
(* Running handlers hold their leases: the time since the last answered    *)
(* heartbeat and what is left of the lease make up VT at least.            *)

\* A handler's heartbeat is not overdue, and the lease lasts beyond it.
Covered(p, c) ==
    /\ tasks[p][c].age \in 0..(HeartbeatEvery + MaxStall)
    /\ P!LeasedFor(c, VT - tasks[p][c].age)

\* Every handler and every claim not yet answered holds a valid lease.
Leases ==
    \A p \in Process :
        /\ \A c \in InPhase(p, {"working"}) : Covered(p, c)
        /\ \A c \in reply[p] : P!LeasedFor(c, VT)

\* What holds of the receipts, in the queue and in the processes.
RuntimeInv == HoldInv /\ P!TypeOK /\ P!ReceiptsIssued

\* Both hold throughout.
LEMMA RuntimeInvariant == Spec => []RuntimeInv
<1>1. Spec => [](P!TypeOK /\ P!ReceiptsIssued)
  BY QueueRuns, QueueAssumption, P!TypeCorrect, P!ReceiptInvariant, PTL
     DEF Q!IdentityAssumption, Q!BoundAssumption
<1> QED
  BY <1>1, ReceiptsHeldOnce, PTL DEF RuntimeInv

\* What remains of a lease is positive as long as the heartbeat is in time.
LEMMA LeaseRemains ==
    ASSUME BeatsInTime, NEW age \in 0..(HeartbeatEvery + MaxStall)
    PROVE  VT \in Nat \ {0} /\ VT - age \in Nat \ {0}
BY RuntimeAssumption, QueueAssumption DEF BeatsInTime, Q!BoundAssumption

\* Only working tasks and claims under way matter: a step that gives no task and
\* no claim a new receipt and takes no lease from one that stays keeps Leases.
LEMMA LeasesStay ==
    ASSUME BeatsInTime, Leases,
           \A p \in Process :
              /\ \A c \in InPhase(p, {"working"})' :
                    c \in InPhase(p, {"working"}) /\ tasks'[p][c].age = tasks[p][c].age
              /\ reply'[p] \subseteq reply[p]
              /\ \A c \in InPhase(p, {"working"})' \cup reply'[p] : \A n \in Nat \ {0} :
                    P!LeasedFor(c, n) => P!LeasedFor(c, n)'
    PROVE  Leases'
<1>1. ASSUME NEW p \in Process, NEW c \in InPhase(p, {"working"})'
      PROVE  Covered(p, c)'
  <2>1. Covered(p, c) /\ tasks'[p][c].age = tasks[p][c].age
    BY <1>1 DEF Leases
  <2> DEFINE n == VT - tasks[p][c].age
  <2>2. n \in Nat \ {0} /\ P!LeasedFor(c, n)
    BY <2>1, LeaseRemains DEF Covered
  <2> QED
    BY <1>1, <2>1, <2>2 DEF Covered
<1>2. ASSUME NEW p \in Process, NEW c \in reply'[p]
      PROVE  P!LeasedFor(c, VT)'
  <2>1. VT \in Nat \ {0} /\ P!LeasedFor(c, VT)
    BY <1>2, RuntimeAssumption, QueueAssumption DEF Leases, Q!BoundAssumption
  <2> QED
    BY <1>2, <2>1
<1> QED
  BY <1>1, <1>2 DEF Leases

\* A step that leaves the rows alone leaves every lease as it is.
LEMMA SameRows ==
    ASSUME job' = job
    PROVE  \A c, n : P!LeasedFor(c, n) => P!LeasedFor(c, n)'
BY DEF P!LeasedFor, P!Live, P!Active

\* The tasks that go on working when one of them enters another phase.
LEMMA EnterLeavesWorking ==
    ASSUME TasksOK, NEW p \in Process, NEW c \in DOMAIN tasks[p], NEW phase,
           phase # "working", Enter(p, c, phase)
    PROVE  \A q \in Process : \A d \in InPhase(q, {"working"})' :
              /\ d \in InPhase(q, {"working"})
              /\ tasks'[q][d].age = tasks[q][d].age
              /\ q # p \/ d # c
BY EnterTasks DEF InPhase

\* Nobody else holds the receipt of a task that has not ended.
LEMMA HeldAlone ==
    ASSUME HoldInv, NEW p \in Process, NEW c \in DOMAIN tasks[p],
           tasks[p][c].phase \in HeldPhase
    PROVE  /\ c \in receipts
           /\ \A q \in Process : c \notin reply[q]
           /\ \A q \in Process : q # p => c \notin InPhase(q, HeldPhase)
<1>1. c \in InPhase(p, HeldPhase)
  BY DEF InPhase
<1>2. c \in Held(p)
  BY <1>1, HeldIs
<1>3. \A q \in Process : q # p => c \notin Held(q)
  BY <1>2 DEF HoldInv, ReceiptsHeld
<1> QED
  BY <1>1, <1>2, <1>3, HeldIs DEF HoldInv, ReceiptsHeld

\* Working tasks and claims under way hold receipts.
LEMMA WorkingHeld ==
    ASSUME HoldInv, NEW p \in Process, NEW c \in InPhase(p, {"working"}) \cup reply[p]
    PROVE  c \in receipts /\ c \in Held(p)
BY DEF HoldInv, ReceiptsHeld, Held, InPhase

\* A step that ends the handler of one task, or follows its end, and leaves the
\* leases of the others keeps Leases.
LEMMA EnterLeases ==
    ASSUME RuntimeInv, BeatsInTime, Leases,
           NEW p \in Process, NEW c \in DOMAIN tasks[p], NEW phase, phase # "working",
           tasks[p][c].phase \in HeldPhase, Enter(p, c, phase), reply' = reply,
           \A d \in receipts \ {c} : \A n \in Nat \ {0} :
              P!LeasedFor(d, n) => P!LeasedFor(d, n)'
    PROVE  Leases'
<1>1. \A q \in Process : \A d \in InPhase(q, {"working"})' :
         /\ d \in InPhase(q, {"working"})
         /\ tasks'[q][d].age = tasks[q][d].age
         /\ q # p \/ d # c
  BY EnterLeavesWorking DEF RuntimeInv, HoldInv
<1>2. ASSUME NEW q \in Process, NEW d \in InPhase(q, {"working"})' \cup reply'[q]
      PROVE  d \in receipts \ {c}
  <2>1. d \in InPhase(q, {"working"}) \cup reply[q]
    BY <1>1, <1>2
  <2>2. d \in receipts
    BY <2>1, WorkingHeld DEF RuntimeInv
  <2>3. CASE d \in reply[q]
    BY <2>2, <2>3, HeldAlone DEF RuntimeInv
  <2>4. CASE d \notin reply[q]
    <3>1. d \in InPhase(q, HeldPhase)
      BY <2>1, <2>4 DEF InPhase, HeldPhase
    <3> QED
      BY <1>1, <1>2, <2>2, <2>4, <3>1, HeldAlone DEF RuntimeInv
  <2> QED
    BY <2>3, <2>4
<1> QED
  BY <1>1, <1>2, LeasesStay

\* An answer concerns the row of its task only.
LEMMA AnswerLeases ==
    ASSUME RuntimeInv, NEW p \in Process, NEW c \in DOMAIN tasks[p], Answer(p, c)
    PROVE  /\ tasks[p][c].phase \in HeldPhase
           /\ c \in receipts
           /\ P!FinishCompleted(c) \/ P!FinishFailed(c) \/ P!Defer(c)
           /\ \A d \in receipts \ {c} : \A n \in Nat \ {0} :
                 P!LeasedFor(d, n) => P!LeasedFor(d, n)'
<1>1. tasks[p][c].phase \in HeldPhase
  BY AnswerTakes DEF HeldPhase
<1>2. c \in receipts
  BY <1>1, HeldAlone DEF RuntimeInv
<1>3. P!FinishCompleted(c) \/ P!FinishFailed(c) \/ P!Defer(c)
  BY SameFinishCompleted, SameFinishFailed, SameDefer DEF Answer
<1>4. P!OtherCall(c)
  BY <1>3 DEF P!OtherCall, P!Settle
<1>5. ASSUME NEW d \in receipts \ {c}, NEW n \in Nat \ {0}, P!LeasedFor(d, n)
      PROVE  P!LeasedFor(d, n)'
  BY <1>2, <1>4, <1>5, QueueAssumption, P!OtherKeepsLease
     DEF RuntimeInv, Q!IdentityAssumption, Q!BoundAssumption
<1> QED
  BY <1>1, <1>2, <1>3, <1>5

\* An accepted heartbeat: the handler starts a new period with a new lease.
LEMMA BeatLeases ==
    ASSUME RuntimeInv, BeatsInTime, Leases,
           NEW p \in Process, NEW c \in DOMAIN tasks[p], BeatAccepted(p, c)
    PROVE  Leases'
<1>1. /\ tasks[p][c].phase = "working"
      /\ P!Heartbeat(c)
      /\ Enter(p, c, "working")
      /\ reply' = reply
  BY SameHeartbeat DEF BeatAccepted, BeatDue
<1>2. c \in receipts
  BY <1>1, HeldAlone DEF RuntimeInv, HeldPhase
<1>3. P!LeasedFor(c, VT)'
  BY <1>1, <1>2, QueueAssumption, P!HeartbeatLease
     DEF RuntimeInv, Q!IdentityAssumption, Q!BoundAssumption
<1>4. ASSUME NEW d \in receipts, NEW n \in Nat \ {0}, d # c, P!LeasedFor(d, n)
      PROVE  P!LeasedFor(d, n)'
  BY <1>1, <1>2, <1>4, QueueAssumption, P!OtherKeepsLease
     DEF RuntimeInv, Q!IdentityAssumption, Q!BoundAssumption, P!OtherCall
<1>5. VT \in Nat \ {0} /\ VT - 0 = VT /\ 0 \in 0..(HeartbeatEvery + MaxStall)
  BY RuntimeAssumption, QueueAssumption DEF Q!BoundAssumption
<1>6. ASSUME NEW q \in Process, NEW d \in InPhase(q, {"working"})'
      PROVE  Covered(q, d)'
  <2>1. CASE d = c /\ q = p
    <3>1. tasks'[q][d].age = 0
      BY <1>1, <2>1, EnterTasks DEF RuntimeInv, HoldInv
    <3> QED
      BY <1>3, <1>5, <2>1, <3>1 DEF Covered
  <2>2. CASE d # c \/ q # p
    <3>1. d \in InPhase(q, {"working"}) /\ tasks'[q][d] = tasks[q][d]
      BY <1>1, <1>6, <2>2, EnterTasks DEF InPhase, RuntimeInv, HoldInv
    <3>2. Covered(q, d) /\ d \in receipts
      BY <3>1, WorkingHeld DEF Leases, RuntimeInv
    <3>3. d # c
      BY <1>1, <2>2, <3>1, HeldAlone DEF RuntimeInv, HeldPhase, InPhase
    <3> DEFINE n == VT - tasks[q][d].age
    <3>4. n \in Nat \ {0}
      BY <3>2, LeaseRemains DEF Covered
    <3>5. P!LeasedFor(d, n)
      BY <3>2 DEF Covered
    <3> HIDE DEF n
    <3>6. ASSUME NEW m \in Nat \ {0}, P!LeasedFor(d, m)
          PROVE  P!LeasedFor(d, m)'
      BY <1>4, <3>2, <3>3, <3>6
    <3> QED
      BY <3>1, <3>2, <3>4, <3>5, <3>6 DEF Covered, n
  <2> QED
    BY <2>1, <2>2
<1>7. ASSUME NEW q \in Process, NEW d \in reply'[q]
      PROVE  P!LeasedFor(d, VT)'
  <2>1. d \in reply[q] /\ d \in receipts /\ P!LeasedFor(d, VT)
    BY <1>1, <1>7, WorkingHeld DEF Leases, RuntimeInv
  <2>2. d # c
    BY <1>1, <2>1, HeldAlone DEF RuntimeInv, HeldPhase
  <2> QED
    BY <1>4, <1>5, <2>1, <2>2
<1> QED
  BY <1>6, <1>7 DEF Leases

\* The queue's call for claim leases the rows it grants and spares the others.
LEMMA ClaimCallLeases ==
    ASSUME RuntimeInv, BeatsInTime, Leases, NEW p \in Process, ClaimCall(p)
    PROVE  Leases'
<1>1. PICK count \in 1..Concurrency : P!Claim(count)
  BY SameClaim DEF ClaimCall
<1>2. /\ \A c \in receipts' \ receipts : P!LeasedFor(c, VT)'
      /\ \A c \in receipts : \A n \in Nat \ {0} : P!LeasedFor(c, n) => P!LeasedFor(c, n)'
  BY <1>1, QueueAssumption, P!ClaimLease, P!ClaimKeepsLease
     DEF RuntimeInv, Q!IdentityAssumption, Q!BoundAssumption
<1>3. /\ tasks' = tasks
      /\ reply'[p] = receipts' \ receipts
      /\ \A q \in Process : q # p => reply'[q] = reply[q]
  BY DEF ClaimCall, RuntimeInv, HoldInv, ReceiptsHeld
<1>4. VT \in Nat \ {0}
  BY QueueAssumption DEF Q!BoundAssumption
<1>5. ASSUME NEW q \in Process, NEW c \in InPhase(q, {"working"})'
      PROVE  Covered(q, c)'
  <2>1. c \in InPhase(q, {"working"}) /\ Covered(q, c) /\ c \in receipts
    BY <1>3, <1>5, WorkingHeld DEF InPhase, Leases, RuntimeInv
  <2>2. VT - tasks[q][c].age \in Nat \ {0} /\ P!LeasedFor(c, VT - tasks[q][c].age)
    BY <2>1, LeaseRemains DEF Covered
  <2> QED
    BY <1>2, <1>3, <2>1, <2>2 DEF Covered
<1>6. ASSUME NEW q \in Process, NEW c \in reply'[q]
      PROVE  P!LeasedFor(c, VT)'
  <2>1. CASE q = p
    BY <1>2, <1>3, <1>6, <2>1
  <2>2. CASE q # p
    <3>1. c \in reply[q] /\ c \in receipts /\ P!LeasedFor(c, VT)
      BY <1>3, <1>6, <2>2, WorkingHeld DEF Leases, RuntimeInv
    <3> QED
      BY <1>2, <1>4, <3>1
  <2> QED
    BY <2>1, <2>2
<1> QED
  BY <1>5, <1>6 DEF Leases

\* The answer of a claim starts its handlers with the lease of the claim.
LEMMA ClaimReplyLeases ==
    ASSUME RuntimeInv, BeatsInTime, Leases, NEW p \in Process, ClaimReply(p)
    PROVE  Leases'
<1>1. /\ job' = job
      /\ \A q \in Process : q # p => tasks'[q] = tasks[q] /\ reply'[q] = reply[q]
      /\ DOMAIN tasks'[p] = DOMAIN tasks[p] \cup reply[p]
      /\ \A c \in reply[p] : tasks'[p][c] = [phase |-> "working", age |-> 0]
      /\ \A c \in DOMAIN tasks[p] \ reply[p] : tasks'[p][c] = tasks[p][c]
      /\ reply'[p] = {}
  BY DEF ClaimReply, queueVars, RuntimeInv, HoldInv, TasksOK, ReceiptsHeld
<1>2. \A c, n : P!LeasedFor(c, n) => P!LeasedFor(c, n)'
  BY <1>1, SameRows
<1>3. ASSUME NEW q \in Process, NEW c \in InPhase(q, {"working"})'
      PROVE  Covered(q, c)'
  <2>1. CASE q = p /\ c \in reply[p]
    <3>1. tasks'[q][c].age = 0 /\ P!LeasedFor(c, VT)'
      BY <1>1, <1>2, <2>1 DEF Leases
    <3>2. VT - 0 = VT /\ 0 \in 0..(HeartbeatEvery + MaxStall)
      BY RuntimeAssumption, QueueAssumption DEF Q!BoundAssumption
    <3> QED
      BY <3>1, <3>2 DEF Covered
  <2>2. CASE q # p \/ c \notin reply[p]
    <3>1. c \in InPhase(q, {"working"}) /\ tasks'[q][c] = tasks[q][c]
      BY <1>1, <1>3, <2>2 DEF InPhase
    <3>2. Covered(q, c)
      BY <3>1 DEF Leases
    <3> QED
      BY <1>2, <3>1, <3>2 DEF Covered
  <2> QED
    BY <2>1, <2>2
<1>4. \A q \in Process : \A c \in reply'[q] : P!LeasedFor(c, VT)'
  BY <1>1, <1>2 DEF Leases
<1> QED
  BY <1>3, <1>4 DEF Leases

\* A tick happens only while no heartbeat is overdue, and takes from the lease
\* what it adds to the age.
LEMMA TickLeases ==
    ASSUME RuntimeInv, BeatsInTime, Leases, Tick
    PROVE  Leases'
<1>1. /\ \A q \in Process : reply'[q] = {}
      /\ \A q \in Process : DOMAIN tasks'[q] = DOMAIN tasks[q]
      /\ \A q \in Process : \A c \in DOMAIN tasks[q] :
            tasks'[q][c] = IF tasks[q][c].phase = "working"
                           THEN [tasks[q][c] EXCEPT !.age = tasks[q][c].age + 1]
                           ELSE tasks[q][c]
  BY DEF Tick
<1>2. \A q \in Process : \A c \in InPhase(q, {"working"}) :
         c \in receipts /\ Covered(q, c) /\ tasks[q][c].age < HeartbeatEvery + MaxStall
  <2> SUFFICES ASSUME NEW q \in Process, NEW c \in InPhase(q, {"working"})
               PROVE  c \in receipts /\ Covered(q, c)
                        /\ tasks[q][c].age < HeartbeatEvery + MaxStall
    OBVIOUS
  <2>1. c \in receipts
    BY WorkingHeld DEF RuntimeInv
  <2>2. <<q, c>> \in Working
    BY <2>1 DEF Working
  <2>3. tasks[q][c].age < HeartbeatEvery + MaxStall
    BY <2>2 DEF Tick
  <2> QED
    BY <2>1, <2>3 DEF Leases
<1>3. ASSUME NEW q \in Process, NEW c \in InPhase(q, {"working"})'
      PROVE  Covered(q, c)'
  <2>1. c \in DOMAIN tasks[q] /\ tasks[q][c].phase = "working"
    <3>1. c \in DOMAIN tasks[q] /\ tasks'[q][c].phase = "working"
      BY <1>1, <1>3 DEF InPhase
    <3>2. tasks[q][c] = [phase |-> tasks[q][c].phase, age |-> tasks[q][c].age]
      BY <3>1 DEF RuntimeInv, HoldInv, TasksOK
    <3> QED
      BY <1>1, <3>1, <3>2
  <2>2. c \in InPhase(q, {"working"})
    BY <2>1 DEF InPhase
  <2>3. tasks'[q][c].age = tasks[q][c].age + 1
    <3>1. tasks[q][c] = [phase |-> tasks[q][c].phase, age |-> tasks[q][c].age]
      BY <2>1 DEF RuntimeInv, HoldInv, TasksOK
    <3> QED
      BY <1>1, <2>1, <3>1
  <2> DEFINE a == tasks[q][c].age
  <2>4. /\ a \in 0..(HeartbeatEvery + MaxStall) /\ a < HeartbeatEvery + MaxStall
        /\ P!LeasedFor(c, VT - a) /\ c \in receipts
    BY <1>2, <2>2 DEF Covered
  <2>5. PICK n \in Nat \ {0} : n = VT - (a + 1)
    BY <2>4, RuntimeAssumption, QueueAssumption DEF BeatsInTime, Q!BoundAssumption
  <2>6. P!LeasedFor(c, n + 1)
    BY <2>4, <2>5, RuntimeAssumption, QueueAssumption DEF Q!BoundAssumption
  <2>7. Q!Tick
    <3>1. c.id \in DOMAIN job /\ job[c.id].lease > 0
      BY <2>6 DEF P!LeasedFor, P!Live, P!Active
    <3> QED
      BY <3>1 DEF Tick
  <2>8. P!LeasedFor(c, n)'
    BY <2>4, <2>6, <2>7, SameTick, QueueAssumption, P!TickLease
       DEF RuntimeInv, Q!IdentityAssumption, Q!BoundAssumption
  <2>9. tasks'[q][c].age \in 0..(HeartbeatEvery + MaxStall) /\ n = VT - tasks'[q][c].age
    BY <2>3, <2>4, <2>5, RuntimeAssumption
  <2> QED
    BY <2>8, <2>9 DEF Covered
<1> QED
  BY <1>1, <1>3 DEF Leases

\* What a process that ends held is leased to nobody; the others keep theirs.
LEMMA DropLeases ==
    ASSUME RuntimeInv, BeatsInTime, Leases, NEW p \in Process, Drop(p)
    PROVE  Leases'
<1>1. /\ job' = job
      /\ tasks'[p] = NoTasks /\ reply'[p] = {}
      /\ \A q \in Process : q # p => tasks'[q] = tasks[q] /\ reply'[q] = reply[q]
  BY DEF Drop, Q!Abandon, RuntimeInv, HoldInv, TasksOK, ReceiptsHeld
<1> QED
  BY <1>1, SameRows, LeasesStay DEF InPhase, NoTasks

\* Every step keeps running handlers leased.
LEMMA NextLeases ==
    ASSUME RuntimeInv, BeatsInTime, Leases, [Next]_vars
    PROVE  Leases'
<1>1. CASE Enqueue
  <2>1. PICK k \in Kind, delay \in RunAt : P!Enqueue(k, delay)
    BY <1>1, SameEnqueue DEF Enqueue
  <2>2. ASSUME NEW c \in receipts, NEW n \in Nat \ {0}, P!LeasedFor(c, n)
        PROVE  P!LeasedFor(c, n)'
    BY <2>1, <2>2, QueueAssumption, P!EnqueueKeepsLease
       DEF RuntimeInv, Q!IdentityAssumption, Q!BoundAssumption
  <2> QED
    BY <1>1, <2>2, LeasesStay, WorkingHeld DEF Enqueue, InPhase, RuntimeInv
<1>2. CASE Tick
  BY <1>2, TickLeases
<1>3. ASSUME NEW p \in Process, ClaimCall(p) PROVE Leases'
  BY <1>3, ClaimCallLeases
<1>4. ASSUME NEW p \in Process, Loop(p) PROVE Leases'
  <2>1. CASE ClaimReply(p)
    BY <2>1, ClaimReplyLeases
  <2>2. CASE ClaimReplyLost(p)
    <3>1. /\ job' = job /\ tasks' = tasks
          /\ reply'[p] = {}
          /\ \A q \in Process : q # p => reply'[q] = reply[q]
      BY <2>2 DEF ClaimReplyLost, Q!Abandon, RuntimeInv, HoldInv, ReceiptsHeld
    <3> QED
      BY <3>1, SameRows, LeasesStay DEF InPhase
  <2>3. CASE LaneFails(p)
    BY <2>3, DropLeases DEF LaneFails
  <2>4. CASE Stop(p) \/ Restart(p)
    BY <2>4, SameRows, LeasesStay DEF Stop, Restart, queueVars, InPhase
  <2>5. ASSUME NEW c \in DOMAIN tasks[p], Reap(p, c) PROVE Leases'
    <3>1. /\ job' = job /\ reply' = reply
          /\ \A q \in Process : q # p => tasks'[q] = tasks[q]
          /\ tasks'[p] = [d \in DOMAIN tasks[p] \ {c} |-> tasks[p][d]]
      BY <2>5 DEF Reap, queueVars, RuntimeInv, HoldInv, TasksOK
    <3>2. \A q \in Process : \A d \in InPhase(q, {"working"})' :
             d \in InPhase(q, {"working"}) /\ tasks'[q][d] = tasks[q][d]
      BY <3>1 DEF InPhase
    <3> QED
      BY <3>1, <3>2, SameRows, LeasesStay
  <2> QED
    BY <1>4, <2>1, <2>2, <2>3, <2>4, <2>5 DEF Loop
<1>5. ASSUME NEW p \in Process, Dies(p) PROVE Leases'
  BY <1>5, DropLeases DEF Dies
<1>6. ASSUME NEW p \in Process, Shutdown(p) PROVE Leases'
  BY <1>6, SameRows, LeasesStay DEF Shutdown, queueVars, InPhase
<1>7. ASSUME NEW p \in Process, NEW c \in DOMAIN tasks[p], Handler(p, c) PROVE Leases'
  <2>1. CASE HandlerCheckpoints(p, c)
    <3>1. P!Checkpoint(c) /\ c \in receipts /\ tasks' = tasks /\ reply' = reply
      BY <2>1, SameCheckpoint, HeldAlone DEF HandlerCheckpoints, RuntimeInv, HeldPhase
    <3>2. ASSUME NEW d \in receipts, NEW n \in Nat \ {0}, P!LeasedFor(d, n)
          PROVE  P!LeasedFor(d, n)'
      BY <3>1, <3>2, QueueAssumption, P!CheckpointKeepsLease
         DEF RuntimeInv, Q!IdentityAssumption, Q!BoundAssumption
    <3> QED
      BY <3>1, <3>2, LeasesStay, WorkingHeld DEF InPhase, RuntimeInv
  <2>2. ASSUME NEW outcome \in Outcome, HandlerEnds(p, c, outcome) PROVE Leases'
    BY <2>2, SameRows, EnterLeases DEF HandlerEnds, HeldPhase, Outcome, queueVars
  <2> QED
    BY <1>7, <2>1, <2>2 DEF Handler
<1>8. ASSUME NEW p \in Process, NEW c \in DOMAIN tasks[p], Beat(p, c) PROVE Leases'
  <2>1. CASE BeatAccepted(p, c)
    BY <2>1, BeatLeases
  <2>2. CASE BeatRefused(p, c)
    BY <2>2, SameRows, EnterLeases DEF BeatRefused, BeatDue, Q!Abandon, HeldPhase
  <2>3. CASE BeatUnavailable(p, c)
    BY <2>3, SameRows, EnterLeases DEF BeatUnavailable, BeatDue, Q!Abandon, HeldPhase
  <2> QED
    BY <1>8, <2>1, <2>2, <2>3 DEF Beat
<1>9. ASSUME NEW p \in Process, NEW c \in DOMAIN tasks[p], Acknowledge(p, c) PROVE Leases'
  <2>1. CASE AnswerAccepted(p, c)
    BY <2>1, AnswerLeases, EnterLeases DEF AnswerAccepted
  <2>2. CASE AnswerReplyLost(p, c)
    BY <2>2, AnswerLeases, EnterLeases DEF AnswerReplyLost
  <2>3. CASE AnswerRefused(p, c)
    BY <2>3, SameRows, EnterLeases DEF AnswerRefused, Q!Abandon, HeldPhase
  <2>4. CASE AnswerUnavailable(p, c)
    BY <2>4, SameRows, EnterLeases DEF AnswerUnavailable, Q!Abandon, HeldPhase
  <2> QED
    BY <1>9, <2>1, <2>2, <2>3, <2>4 DEF Acknowledge
<1>10. CASE UNCHANGED vars
  BY <1>10, SameRows, LeasesStay DEF vars, queueVars, InPhase
<1> QED
  BY <1>1, <1>2, <1>3, <1>4, <1>5, <1>6, <1>7, <1>8, <1>9, <1>10 DEF Next

\* Two handlers that clash would hold two honoured receipts of one row, or of two
\* rows with one key or group.
LEMMA LeasesExclude ==
    ASSUME HoldInv, P!PayloadInv, P!LiveReceiptsExclusive, Leases
    PROVE  ExclusiveExecution
<1> SUFFICES ASSUME NEW t \in Working, NEW u \in Working, t # u, Clash(t[2], u[2])
             PROVE  FALSE
  BY DEF ExclusiveExecution
<1>1. PICK p \in Process, c \in receipts : t = <<p, c>> /\ c \in InPhase(p, {"working"})
  BY DEF Working
<1>2. PICK q \in Process, d \in receipts : u = <<q, d>> /\ d \in InPhase(q, {"working"})
  BY DEF Working
<1>3. c # d
  <2>1. CASE p = q
    BY <1>1, <1>2, <2>1
  <2>2. CASE p # q
    <3>1. c \in Held(p) /\ d \in Held(q)
      BY <1>1, <1>2, WorkingHeld
    <3> QED
      BY <2>2, <3>1 DEF HoldInv, ReceiptsHeld
  <2> QED
    BY <2>1, <2>2
<1>4. P!Live(c) /\ P!Live(d)
  BY <1>1, <1>2 DEF Leases, Covered, P!LeasedFor
<1>5. c.id # d.id /\ ~P!Conflict(c.id, d.id)
  BY <1>3, <1>4 DEF P!LiveReceiptsExclusive
<1>6. ASSUME NEW e \in receipts, P!Live(e)
      PROVE  job[e.id].key = KeyOf[KindOf(e)] /\ job[e.id].group = GroupOf[KindOf(e)]
  <2>1. e.id \in DOMAIN job /\ job[e.id].req = e.req
    BY <1>6 DEF P!PayloadInv, P!ReceiptPayloads, P!Live, P!Active
  <2> QED
    BY <2>1 DEF P!PayloadInv, P!PayloadsLogged, KindOf
<1>7. ~Clash(c, d)
  BY <1>4, <1>5, <1>6 DEF Clash, P!Conflict, P!SameKey, P!SameGroup
<1> QED
  BY <1>1, <1>2, <1>7

\* No two handlers of one key or group run at the same time, in any number of
\* processes and whatever fails, as long as heartbeats are in time: the lease
\* outlives the handler it was given for (execute, lease_until and the fence).
THEOREM OneHandler ==
    ASSUME BeatsInTime, Q!KeyDecidesGroup
    PROVE  Spec => []ExclusiveExecution
<1>1. Init => Leases
  BY DEF Init, Leases, InPhase, NoTasks
<1>2. Spec => []RuntimeInv
  BY RuntimeInvariant
<1>3. RuntimeInv /\ Leases /\ [Next]_vars => Leases'
  BY NextLeases
<1>4. Spec => []Leases
  BY <1>1, <1>2, <1>3, PTL DEF Spec
<1>5. P!KeyDecidesGroup
  BY DEF Q!KeyDecidesGroup, P!KeyDecidesGroup
<1>6. Spec => []P!PayloadInv
  BY <1>5, QueueRuns, QueueAssumption, P!PayloadInvariant, PTL
     DEF Q!IdentityAssumption, Q!BoundAssumption
<1>7. Spec => []P!LiveReceiptsExclusive
  BY QueueRuns, QueueAssumption, P!OneHonouredReceipt, PTL
     DEF Q!IdentityAssumption, Q!BoundAssumption
<1>8. HoldInv /\ P!PayloadInv /\ P!LiveReceiptsExclusive /\ Leases => ExclusiveExecution
  BY LeasesExclude
<1> QED
  BY <1>4, <1>6, <1>7, <1>8, ReceiptsHeldOnce, PTL

-----------------------------------------------------------------------------
(* Without a fault every valid lease has an owner.                         *)

Running(p) == proc[p] \in {"up", "draining"}

Owner(p, i) == Running(p) /\ \E c \in Held(p) : c.id = i /\ P!Live(c)

Owned == faults = 0 => \A i \in P!Active : \E p \in Process : Owner(p, i)

\* The processes are a function, and faults are counted.
ProcOK == proc = [p \in Process |-> proc[p]] /\ faults \in Nat

OwnerInv == ProcOK /\ Owned

\* A step that makes no row active, and takes no receipt of a row that stays
\* active from its process, leaves every lease its owner.
LEMMA OwnersStay ==
    ASSUME Owned, faults' = faults,
           \A i \in P!Active' : i \in P!Active /\ job'[i].generation = job[i].generation,
           \A p \in Process : \A c \in Held(p) :
              Running(p) /\ P!Live(c) /\ c.id \in P!Active' => c \in Held(p)' /\ Running(p)'
    PROVE  Owned'
<1> SUFFICES ASSUME faults = 0, NEW i \in P!Active'
             PROVE  \E p \in Process : Owner(p, i)'
  BY DEF Owned
<1>1. i \in P!Active /\ job'[i].generation = job[i].generation
  OBVIOUS
<1>2. PICK p \in Process : Owner(p, i)
  BY <1>1 DEF Owned
<1>3. PICK c \in Held(p) : Running(p) /\ c.id = i /\ P!Live(c)
  BY <1>2 DEF Owner
<1>4. c \in Held(p)' /\ Running(p)'
  BY <1>3
<1>5. P!Live(c)'
  BY <1>1, <1>3 DEF P!Live
<1> QED
  BY <1>3, <1>4, <1>5 DEF Owner

\* The same for a step that leaves the rows alone.
LEMMA OwnersStayInPlace ==
    ASSUME Owned, faults' = faults, job' = job,
           \A p \in Process : \A c \in Held(p) :
              Running(p) /\ P!Live(c) => c \in Held(p)' /\ Running(p)'
    PROVE  Owned'
<1>1. \A i \in P!Active' : i \in P!Active /\ job'[i].generation = job[i].generation
  BY DEF P!Active
<1> QED
  BY <1>1, OwnersStay

\* The rows a claim leases are owned by the process that made it.
LEMMA ClaimCallOwned ==
    ASSUME RuntimeInv, OwnerInv, NEW p \in Process, ClaimCall(p)
    PROVE  Owned'
<1>1. PICK count \in 1..Concurrency : P!Claim(count)
  BY SameClaim DEF ClaimCall
<1>2. \A i \in P!Active' :
         \/ i \in P!Active /\ job'[i].generation = job[i].generation
         \/ \E c \in receipts' \ receipts : c.id = i /\ P!Live(c)'
  BY <1>1, QueueAssumption, P!ClaimLease
     DEF RuntimeInv, Q!IdentityAssumption, Q!BoundAssumption
<1>3. /\ Held(p)' = Held(p) \cup (receipts' \ receipts)
      /\ \A q \in Process : q # p => Held(q)' = Held(q)
  BY ClaimCallHold DEF RuntimeInv
<1>4. proc' = proc /\ faults' = faults /\ Running(p)
  BY DEF ClaimCall, AtSelect, Running
<1> SUFFICES ASSUME faults = 0, NEW i \in P!Active'
             PROVE  \E q \in Process : Owner(q, i)'
  BY <1>4 DEF Owned
<1>5. CASE \E c \in receipts' \ receipts : c.id = i /\ P!Live(c)'
  <2>1. PICK c \in receipts' \ receipts : c.id = i /\ P!Live(c)'
    BY <1>5
  <2>2. c \in Held(p)' /\ Running(p)'
    BY <1>3, <1>4, <2>1 DEF Running
  <2> QED
    BY <2>1, <2>2 DEF Owner
<1>6. CASE i \in P!Active /\ job'[i].generation = job[i].generation
  <2>1. PICK q \in Process : Owner(q, i)
    BY <1>6 DEF OwnerInv, Owned
  <2>2. PICK c \in Held(q) : Running(q) /\ c.id = i /\ P!Live(c)
    BY <2>1 DEF Owner
  <2>3. c \in Held(q)' /\ Running(q)'
    BY <1>3, <1>4, <2>2 DEF Running
  <2>4. P!Live(c)'
    BY <1>6, <2>2 DEF P!Live
  <2> QED
    BY <2>2, <2>3, <2>4 DEF Owner
<1> QED
  BY <1>2, <1>5, <1>6

\* A receipt the queue refuses is of no active row, so giving it up orphans none.
LEMMA RefusedOwned ==
    ASSUME RuntimeInv, OwnerInv, NEW p \in Process, NEW c \in DOMAIN tasks[p],
           tasks[p][c].phase \in HeldPhase, ~Q!Live(c), Q!Abandon({c}),
           Enter(p, c, "error"), UNCHANGED <<proc, reply, faults>>
    PROVE  Owned'
<1>1. job' = job /\ receipts' = receipts \ {c} /\ ~P!Live(c)
  BY SameLive DEF Q!Abandon
<1>2. \A q \in Process : Held(q)' = Held(q) \ {c}
  BY <1>1, EnterEnded DEF RuntimeInv, HeldPhase, Outcome
<1> QED
  BY <1>1, <1>2, OwnersStayInPlace DEF OwnerInv, Running

\* Every step without a fault leaves every valid lease with an owner.
LEMMA NextOwned ==
    ASSUME RuntimeInv, OwnerInv, [Next]_vars
    PROVE  Owned'
<1>0. ASSUME faults' > 0 PROVE Owned'
  BY <1>0 DEF Owned
<1>1. ASSUME \/ \E k \in Kind, delay \in RunAt : P!Enqueue(k, delay)
             \/ \E c \in receipts : P!Heartbeat(c) \/ P!Checkpoint(c) \/ P!Settle(c)
             \/ P!Tick
      PROVE  \A i \in P!Active' : i \in P!Active /\ job'[i].generation = job[i].generation
  BY <1>1, QueueAssumption, P!ActiveStays
     DEF RuntimeInv, Q!IdentityAssumption, Q!BoundAssumption
<1>2. CASE Enqueue
  <2>1. \E k \in Kind, delay \in RunAt : P!Enqueue(k, delay)
    BY <1>2, SameEnqueue DEF Enqueue
  <2>2. \A p \in Process : Held(p)' = Held(p)
    BY <1>2, SameHold DEF Enqueue, Q!Enqueue, RuntimeInv
  <2>3. proc' = proc /\ faults' = faults
    BY <1>2 DEF Enqueue
  <2> QED
    BY <1>1, <2>1, <2>2, <2>3, OwnersStay DEF OwnerInv, Running
<1>3. CASE Tick
  <2>1. \A p \in Process : Held(p)' = Held(p)
    BY <1>3, TickHold DEF RuntimeInv
  <2>2. proc' = proc /\ faults' = faults
    BY <1>3 DEF Tick
  <2>3. CASE Q!Tick
    BY <1>1, <2>1, <2>2, <2>3, SameTick, OwnersStay DEF OwnerInv, Running
  <2>4. CASE job' = job
    BY <2>1, <2>2, <2>4, OwnersStayInPlace DEF OwnerInv, Running
  <2> QED
    BY <1>3, <2>3, <2>4 DEF Tick, queueVars
<1>4. ASSUME NEW p \in Process, ClaimCall(p) PROVE Owned'
  BY <1>4, ClaimCallOwned
<1>5. ASSUME NEW p \in Process, Loop(p) PROVE Owned'
  <2>1. CASE ClaimReply(p)
    <3>1. job' = job /\ proc' = proc /\ faults' = faults
      BY <2>1 DEF ClaimReply, queueVars
    <3>2. \A q \in Process : Held(q)' = Held(q)
      BY <2>1, ClaimReplyHold DEF RuntimeInv
    <3> QED
      BY <3>1, <3>2, OwnersStayInPlace DEF OwnerInv, Running
  <2>2. CASE ClaimReplyLost(p) \/ LaneFails(p)
    BY <1>0, <2>2 DEF ClaimReplyLost, LaneFails, OwnerInv, ProcOK
  <2>3. CASE Stop(p)
    <3>1. Held(p) = {}
      BY <2>3 DEF Stop, AtSelect, Held, InPhase
    <3>2. \A q \in Process : Held(q)' = Held(q)
      BY <2>3, SameHold DEF Stop, queueVars, RuntimeInv
    <3>3. \A q \in Process : q # p => proc'[q] = proc[q]
      BY <2>3 DEF Stop, OwnerInv, ProcOK
    <3>4. job' = job /\ faults' = faults
      BY <2>3 DEF Stop, queueVars
    <3> QED
      BY <3>1, <3>2, <3>3, <3>4, OwnersStayInPlace DEF OwnerInv, Running
  <2>4. CASE Restart(p)
    <3>1. \A q \in Process : Held(q)' = Held(q)
      BY <2>4, SameHold DEF Restart, queueVars, RuntimeInv
    <3>2. \A q \in Process : proc'[q] = "up" \/ proc'[q] = proc[q]
      BY <2>4 DEF Restart, OwnerInv, ProcOK
    <3>3. job' = job /\ faults' = faults
      BY <2>4 DEF Restart, queueVars
    <3> QED
      BY <3>1, <3>2, <3>3, OwnersStayInPlace DEF OwnerInv, Running
  <2>5. ASSUME NEW c \in DOMAIN tasks[p], Reap(p, c) PROVE Owned'
    <3>1. job' = job /\ proc' = proc /\ faults' = faults
      BY <2>5 DEF Reap, queueVars
    <3>2. \A q \in Process : Held(q)' = Held(q)
      BY <2>5, ReapHold DEF RuntimeInv
    <3> QED
      BY <3>1, <3>2, OwnersStayInPlace DEF OwnerInv, Running
  <2> QED
    BY <1>5, <2>1, <2>2, <2>3, <2>4, <2>5 DEF Loop
<1>6. ASSUME NEW p \in Process, Dies(p) PROVE Owned'
  BY <1>0, <1>6 DEF Dies, OwnerInv, ProcOK
<1>7. ASSUME NEW p \in Process, Shutdown(p) PROVE Owned'
  <2>1. \A q \in Process : Held(q)' = Held(q)
    BY <1>7, SameHold DEF Shutdown, queueVars, RuntimeInv
  <2>2. \A q \in Process : proc'[q] = "draining" \/ proc'[q] = proc[q]
    BY <1>7 DEF Shutdown, OwnerInv, ProcOK
  <2>3. job' = job /\ faults' = faults
    BY <1>7 DEF Shutdown, queueVars
  <2> QED
    BY <2>1, <2>2, <2>3, OwnersStayInPlace DEF OwnerInv, Running
<1>8. ASSUME NEW p \in Process, NEW c \in DOMAIN tasks[p], Handler(p, c) PROVE Owned'
  <2>1. CASE HandlerCheckpoints(p, c)
    <3>1. P!Checkpoint(c) /\ c \in receipts
      BY <2>1, SameCheckpoint, HeldAlone DEF HandlerCheckpoints, RuntimeInv, HeldPhase
    <3>2. \A q \in Process : Held(q)' = Held(q)
      BY <2>1, SameHold DEF HandlerCheckpoints, Q!Checkpoint, RuntimeInv
    <3>3. proc' = proc /\ faults' = faults
      BY <2>1 DEF HandlerCheckpoints
    <3> QED
      BY <1>1, <3>1, <3>2, <3>3, OwnersStay DEF OwnerInv, Running
  <2>2. ASSUME NEW outcome \in Outcome, HandlerEnds(p, c, outcome) PROVE Owned'
    <3>1. job' = job /\ proc' = proc /\ faults' = faults
      BY <2>2 DEF HandlerEnds, queueVars
    <3>2. \A q \in Process : Held(q)' = Held(q)
      BY <2>2, EnterHeldPhase DEF HandlerEnds, HeldPhase, queueVars, RuntimeInv
    <3> QED
      BY <3>1, <3>2, OwnersStayInPlace DEF OwnerInv, Running
  <2> QED
    BY <1>8, <2>1, <2>2 DEF Handler
<1>9. ASSUME NEW p \in Process, NEW c \in DOMAIN tasks[p], Beat(p, c) PROVE Owned'
  <2>1. CASE BeatAccepted(p, c)
    <3>1. P!Heartbeat(c) /\ c \in receipts
      BY <2>1, SameHeartbeat, HeldAlone DEF BeatAccepted, BeatDue, RuntimeInv, HeldPhase
    <3>2. \A q \in Process : Held(q)' = Held(q)
      BY <2>1, EnterHeldPhase DEF BeatAccepted, BeatDue, Q!Heartbeat, HeldPhase, RuntimeInv
    <3>3. proc' = proc /\ faults' = faults
      BY <2>1 DEF BeatAccepted
    <3> QED
      BY <1>1, <3>1, <3>2, <3>3, OwnersStay DEF OwnerInv, Running
  <2>2. CASE BeatRefused(p, c)
    BY <2>2, RefusedOwned DEF BeatRefused, BeatDue, HeldPhase
  <2>3. CASE BeatUnavailable(p, c)
    BY <1>0, <2>3 DEF BeatUnavailable, OwnerInv, ProcOK
  <2> QED
    BY <1>9, <2>1, <2>2, <2>3 DEF Beat
<1>10. ASSUME NEW p \in Process, NEW c \in DOMAIN tasks[p], Acknowledge(p, c) PROVE Owned'
  <2>1. CASE AnswerAccepted(p, c)
    <3>1. /\ tasks[p][c].phase \in HeldPhase /\ c \in receipts
          /\ P!FinishCompleted(c) \/ P!FinishFailed(c) \/ P!Defer(c)
      BY <2>1, AnswerLeases DEF AnswerAccepted
    <3>2. c.id \notin P!Active'
      BY <3>1, QueueAssumption, P!AnsweredInactive
         DEF RuntimeInv, Q!IdentityAssumption, Q!BoundAssumption
    <3>3. P!Settle(c)
      BY <3>1 DEF P!Settle
    <3>4. \A q \in Process : Held(q)' = Held(q) \ {c}
      BY <2>1, <3>1, AnswerTakes, EnterEnded DEF AnswerAccepted, HeldPhase, Outcome, RuntimeInv
    <3>5. proc' = proc /\ faults' = faults
      BY <2>1 DEF AnswerAccepted
    <3> QED
      BY <1>1, <3>1, <3>2, <3>3, <3>4, <3>5, OwnersStay DEF OwnerInv, Running
  <2>2. CASE AnswerReplyLost(p, c) \/ AnswerUnavailable(p, c)
    BY <1>0, <2>2 DEF AnswerReplyLost, AnswerUnavailable, OwnerInv, ProcOK
  <2>3. CASE AnswerRefused(p, c)
    BY <2>3, RefusedOwned DEF AnswerRefused, HeldPhase
  <2> QED
    BY <1>10, <2>1, <2>2, <2>3 DEF Acknowledge
<1>11. CASE UNCHANGED vars
  <2>1. \A p \in Process : Held(p)' = Held(p)
    BY <1>11, SameHold DEF vars, queueVars, RuntimeInv
  <2> QED
    BY <1>11, <2>1, OwnersStayInPlace DEF OwnerInv, Running, vars, queueVars
<1> QED
  BY <1>2, <1>3, <1>4, <1>5, <1>6, <1>7, <1>8, <1>9, <1>10, <1>11 DEF Next

\* Every step keeps the processes a function and counts the faults.
LEMMA NextProc == ProcOK /\ [Next]_vars => ProcOK'
<1> SUFFICES ASSUME ProcOK, [Next]_vars PROVE ProcOK'
  OBVIOUS
<1>1. /\ \/ proc' = proc
         \/ \E p \in Process : \E s : proc' = [proc EXCEPT ![p] = s]
      /\ faults' \in {faults, faults + 1, 1}
  <2>1. CASE Enqueue \/ Tick \/ UNCHANGED vars
    BY <2>1 DEF Enqueue, Tick, vars
  <2>2. ASSUME NEW p \in Process, ClaimCall(p) \/ Loop(p) \/ Dies(p) \/ Shutdown(p)
        PROVE  /\ \/ proc' = proc
                  \/ \E s : proc' = [proc EXCEPT ![p] = s]
               /\ faults' \in {faults, faults + 1, 1}
    BY <2>2 DEF ClaimCall, Loop, ClaimReply, ClaimReplyLost, LaneFails, Drop, Stop,
       Restart, Reap, Dies, Shutdown
  <2>3. ASSUME NEW p \in Process, NEW c \in DOMAIN tasks[p],
               Handler(p, c) \/ Beat(p, c) \/ Acknowledge(p, c)
        PROVE  proc' = proc /\ faults' \in {faults, faults + 1}
    BY <2>3 DEF Handler, HandlerCheckpoints, HandlerEnds, Beat, BeatAccepted, BeatRefused,
       BeatUnavailable, Acknowledge, AnswerAccepted, AnswerReplyLost, AnswerRefused,
       AnswerUnavailable
  <2> QED
    BY <2>1, <2>2, <2>3 DEF Next
<1> QED
  BY <1>1 DEF ProcOK

\* Without a fault no lease is left behind: every row that is leased belongs to a
\* task or an unread claim of a process that runs, through any number of
\* shutdowns, stops and restarts (run_lane drains before it returns).
THEOREM NoLeaseOrphaned == Spec => []NoOrphanedLease
<1>1. Init => OwnerInv
  BY DEF Init, OwnerInv, ProcOK, Owned, Q!Init, P!Active
<1>2. Spec => []RuntimeInv
  BY RuntimeInvariant
<1>3. RuntimeInv /\ OwnerInv /\ [Next]_vars => OwnerInv'
  BY NextOwned, NextProc DEF OwnerInv
<1>4. OwnerInv => NoOrphanedLease
  BY SameLive DEF OwnerInv, Owned, Owner, Running, NoOrphanedLease
<1> QED
  BY <1>1, <1>2, <1>3, <1>4, PTL DEF Spec
=============================================================================
