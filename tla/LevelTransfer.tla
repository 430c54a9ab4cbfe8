---------------------------- MODULE LevelTransfer ----------------------------
(***************************************************************************)
(* The transfer of levels in one host session of a managed room            *)
(* (crates/lobby-host: transfer.rs, and its callers in runtime.rs,         *)
(* runtime/receipt.rs and runtime/connection.rs).                          *)
(*                                                                         *)
(* t is the LevelTransfer behind the session's mutex; a step is what one   *)
(* holder of the lock does.  Its holders are the callers of activate and   *)
(* update_playlist, the receipt task, which reads the server's packets,    *)
(* the transfer worker, which loads and uploads the levels they ask for,   *)
(* and whoever ends the session.  Between two steps a holder waits.        *)
(*                                                                         *)
(* Init is the session after its seed, the packet start_session makes of   *)
(* the room's timing.  The server's packets are arbitrary, except that it  *)
(* sends its own initial packet only before the session.                   *)
(***************************************************************************)
EXTENDS Integers, Sequences

CONSTANTS
    Uid,            \* level identities: uid and workshop id
    Content,        \* contents a level of one identity may have
    Playlist,       \* playlists, as sets of identities
    None,
    MaxActivations, \* bound: activations of the session
    MaxUpdates,     \* bound: updates of the playlist
    MaxLoadedAt,    \* bound: times at which the server loads a level
    MaxJobs         \* bound: level transfers queued

Level == [uid : Uid, content : Content]
Timing == [uid : Uid, at : 0..MaxLoadedAt]
Id == 1..MaxActivations
Revision == 0..(MaxActivations + MaxUpdates)

\* PlayState 0 is "playing".
PlayState == {0, 2}

Activation == [id : Id, level : Level, before : 0..MaxLoadedAt \cup {None},
               props : BOOLEAN, playing : BOOLEAN]

Packet ==
    [type : {"LevelRequest"}, uid : Uid]
      \cup [type : {"GameProperties"}, uid : Uid, at : 0..MaxLoadedAt, valid : BOOLEAN]
      \cup [type : {"GameState"}, state : PlayState]
      \cup [type : {"Other"}]

\* Named work answers a level request with an upload.
Work == [generation : 0..MaxActivations, playlist : Playlist \cup {None},
         fallback : Level \cup {None}, uid : Uid, named : BOOLEAN]

ASSUME BoundAssumption ==
    /\ MaxActivations \in Nat /\ MaxUpdates \in Nat
    /\ MaxLoadedAt \in Nat /\ MaxJobs \in Nat
    /\ Playlist \subseteq SUBSET Uid

ASSUME NoneAssumption ==
    /\ None \notin Level /\ None \notin Playlist /\ None \notin Activation
    /\ None \notin Timing /\ None \notin Packet /\ None \notin 0..MaxLoadedAt
    /\ None \notin {"ok", "error"}

VARIABLES
    t,          \* the LevelTransfer
    caller,     \* activation id -> its caller: phase, and the answer it was sent
    host,       \* the session's authority flag
    packet,     \* a packet observed, for which no work has been prepared yet
    jobs,       \* the queue of the transfer worker
    worker,     \* the transfer worker: phase, work, level
    updates,    \* playlist updates whose packet is being sent
    heard,      \* history: what the server reported on since the last activation
    origin,     \* history: the generation that made the pending level pending
    installed   \* history: the revision of the playlist that is installed

vars == <<t, caller, host, packet, jobs, worker, updates, heard, origin, installed>>

Idle == [phase |-> "idle", work |-> None, level |-> None]

Init ==
    /\ \E uid \in Uid, state \in PlayState :
          t = [active |-> None, pending |-> None, previous |-> None,
               playlist |-> None, activation |-> None, nextId |-> 0, revision |-> 0,
               timing |-> [uid |-> uid, at |-> 0], gameState |-> state,
               closed |-> FALSE]
    /\ caller = [c \in Id |-> [phase |-> "idle", answer |-> None]]
    /\ host = TRUE
    /\ packet = None
    /\ jobs = <<>>
    /\ worker = Idle
    /\ updates = {}
    /\ heard = {}
    /\ origin = 0
    /\ installed = 0

-----------------------------------------------------------------------------
\* The callers of activate.

\* The receiver of the caller's answer has not been dropped.
Listening(c) == caller[c].phase \in {"sending", "waiting"}

\* Mutant: a late cancellation takes the activation of another caller.
CancelAny(s, c) == [s EXCEPT !.activation = None, !.pending = None]

CancelActivation(s, c) ==
    IF s.activation # None /\ s.activation.id = c
    THEN [s EXCEPT !.activation = None, !.pending = None]
    ELSE s

\* Mutant: nobody looks whether the caller still listens.
DropGoneNever(s) == s

\* An activation whose caller has gone is cancelled before anything else.
DropGone(s) ==
    IF s.activation # None /\ ~Listening(s.activation.id)
    THEN CancelActivation(s, s.activation.id)
    ELSE s

\* When the level was last loaded, if the server plays it already.
LoadedAt(s, level) == IF s.timing.uid = level.uid THEN s.timing.at ELSE None

\* prepare_activation.  It is refused while another activation is pending, and
\* for a level that is not on its playlist.
Activate(level, playlist) ==
    LET s == DropGone(t)
        id == s.nextId + 1
        refused == s.activation # None \/ (playlist # None /\ level.uid \notin playlist)
    IN  /\ host /\ ~t.closed
        /\ \/ /\ refused
              /\ t' = s
              /\ UNCHANGED <<caller, heard, origin, installed>>
           \/ /\ ~refused
              /\ id \in Id
              /\ t' = [s EXCEPT
                         !.activation = [id |-> id, level |-> level,
                                         before |-> LoadedAt(s, level),
                                         props |-> FALSE, playing |-> FALSE],
                         !.pending = level, !.playlist = playlist,
                         !.nextId = id, !.revision = @ + 1]
              /\ caller' = [caller EXCEPT ![id].phase = "sending"]
              /\ heard' = {}
              /\ origin' = id
              /\ installed' = t'.revision
        /\ UNCHANGED <<host, packet, jobs, worker, updates>>

\* The playlist and the skip have been sent.
PacketsSent(c) ==
    /\ caller[c].phase = "sending"
    /\ host
    /\ caller' = [caller EXCEPT ![c].phase = "waiting"]
    /\ UNCHANGED <<t, host, packet, jobs, worker, updates, heard, origin, installed>>

Succeed(c) ==
    /\ caller[c].phase = "waiting"
    /\ caller[c].answer = "ok"
    /\ host
    /\ caller' = [caller EXCEPT ![c] = [phase |-> "ended", answer |-> None]]
    /\ UNCHANGED <<t, host, packet, jobs, worker, updates, heard, origin, installed>>

\* Mutant: the attempt is not retired.
GiveUpForgets(c) ==
    /\ Listening(c)
    /\ caller' = [caller EXCEPT ![c] = [phase |-> "ended", answer |-> None]]
    /\ UNCHANGED <<t, host, packet, jobs, worker, updates, heard, origin, installed>>

\* The caller times out, cannot send, is told of the end, or is aborted.  From
\* here on it no longer listens, and its lease is about to cancel.
GiveUp(c) ==
    /\ Listening(c)
    /\ caller' = [caller EXCEPT ![c] = [phase |-> "gone", answer |-> None]]
    /\ UNCHANGED <<t, host, packet, jobs, worker, updates, heard, origin, installed>>

Cancel(c) ==
    /\ caller[c].phase = "gone"
    /\ t' = CancelActivation(t, c)
    /\ caller' = [caller EXCEPT ![c].phase = "ended"]
    /\ UNCHANGED <<host, packet, jobs, worker, updates, heard, origin, installed>>

-----------------------------------------------------------------------------
\* The receipt task.

\* Mutant: a level that only ends its game is taken for played.
ConfirmedByTiming(s) ==
    IF s.activation # None
    THEN s.activation.props /\ s.activation.playing
    ELSE s.pending # None /\ s.timing.uid = s.pending.uid

Confirmed(s) ==
    IF s.activation # None
    THEN s.activation.props /\ s.activation.playing
    ELSE /\ s.gameState = 0
         /\ s.pending # None
         /\ s.timing.uid = s.pending.uid

ConfirmPending(s) ==
    IF Confirmed(s) /\ s.pending # None
    THEN [s EXCEPT !.previous = s.active, !.active = s.pending,
                   !.pending = None, !.activation = None]
    ELSE s

\* What the caller of activation c is told once s has become s2.
Answered(s, s2, answer) ==
    [c \in Id |->
       IF /\ s.activation # None /\ s.activation.id = c /\ s2.activation = None
          /\ Listening(c)
       THEN [caller[c] EXCEPT !.answer = answer]
       ELSE caller[c]]

\* Mutant: the load of the level before the activation counts for it.
PropertiesOfLevel(a, p) == p.uid = a.level.uid

PropertiesConfirm(a, p) ==
    /\ p.uid = a.level.uid
    /\ a.before # None => p.at > a.before

Noted(s, p) ==
    IF p.type = "GameProperties" /\ p.valid
    THEN [s EXCEPT !.timing = [uid |-> p.uid, at |-> p.at],
                   !.activation = IF @ = None THEN None
                                  ELSE [@ EXCEPT !.props = PropertiesConfirm(s.activation, p)]]
    ELSE IF p.type = "GameState"
    THEN [s EXCEPT !.gameState = p.state,
                   !.activation = IF @ = None THEN None
                                  ELSE [@ EXCEPT !.playing = (p.state = 0)]]
    ELSE s

\* observe_received, for a packet that finds the session in authority.
Receive(p) ==
    LET s == Noted(DropGone(t), p)
    IN  /\ host /\ ~t.closed
        /\ packet = None
        /\ Len(jobs) < MaxJobs
        /\ t' = ConfirmPending(s)
        /\ caller' = Answered(s, t', "ok")
        /\ packet' = IF p.type \in {"LevelRequest", "GameProperties"} THEN p ELSE None
        /\ heard' = IF p.type = "GameState" \/ (p.type = "GameProperties" /\ p.valid)
                    THEN heard \cup {p.type} ELSE heard
        /\ UNCHANGED <<host, jobs, worker, updates, origin, installed>>

Held == <<t.pending, t.active, t.previous>>

\* The first of the levels at hand that is the one asked for.
Fallback(uid) ==
    LET known == {i \in 1..3 : Held[i] # None /\ Held[i].uid = uid}
    IN  IF known = {} THEN None
        ELSE Held[CHOOSE i \in known : \A j \in known : i <= j]

\* The server asks for a level, or has moved on to another by itself.
Wanted(p) ==
    \/ p.type = "LevelRequest"
    \/ /\ p.type = "GameProperties"
       /\ t.activation = None /\ t.pending = None /\ t.playlist # None
       /\ t.active # None => t.active.uid # p.uid

\* prepare_work takes the lock again, and the work joins the worker's queue.
PrepareWork ==
    /\ packet # None
    /\ packet' = None
    /\ jobs' = IF t.closed \/ ~Wanted(packet) THEN jobs
               ELSE Append(jobs, [generation |-> t.nextId, playlist |-> t.playlist,
                                  fallback |-> Fallback(packet.uid), uid |-> packet.uid,
                                  named |-> packet.type = "LevelRequest"])
    /\ UNCHANGED <<t, caller, host, worker, updates, heard, origin, installed>>

-----------------------------------------------------------------------------
\* The transfer worker.

Current(work) == ~t.closed /\ t.nextId = work.generation

\* The next job, unless it is out of date; without authority the worker ends.
TakeWork ==
    /\ worker.phase = "idle"
    /\ jobs # <<>>
    /\ jobs' = Tail(jobs)
    /\ worker' = IF ~host THEN [Idle EXCEPT !.phase = "ended"]
                 ELSE IF Current(Head(jobs))
                 THEN [phase |-> "loading", work |-> Head(jobs), level |-> None]
                 ELSE Idle
    /\ UNCHANGED <<t, caller, host, packet, updates, heard, origin, installed>>

\* What loading can end with: the playlist's level, of whatever content it has
\* by now, or else the fallback.
Loadable(work) ==
    {l \in Level : l.uid = work.uid /\ work.playlist # None /\ work.uid \in work.playlist}
      \cup ({work.fallback} \ {None})

\* The level is loaded; the work may be out of date by now.
Load(level) ==
    /\ worker.phase = "loading"
    /\ level \in Loadable(worker.work)
    /\ worker' = IF Current(worker.work)
                 THEN [worker EXCEPT !.phase = "loaded", !.level = level]
                 ELSE Idle
    /\ UNCHANGED <<t, caller, host, packet, jobs, updates, heard, origin, installed>>

\* The level is unknown or cannot be read, or the upload fails.
WorkFails ==
    /\ worker.phase = "loading" \/ (worker.phase = "loaded" /\ worker.work.named)
    /\ worker' = [Idle EXCEPT !.phase = "ended"]
    /\ UNCHANGED <<t, caller, host, packet, jobs, updates, heard, origin, installed>>

\* Mutant: a level that was asked for replaces the one being activated.
CommittedOver(s, level) ==
    IF s.active = level THEN s ELSE ConfirmPending([s EXCEPT !.pending = level])

\* The level asked for becomes the pending one, unless it is played already or
\* an activation decides what is pending.
Committed(s, level) ==
    IF s.activation # None \/ s.active = level THEN s
    ELSE ConfirmPending([s EXCEPT !.pending = level])

\* The upload is sent and commit_work takes the lock, in which the work may be
\* out of date once more.
Commit ==
    /\ worker.phase = "loaded"
    /\ IF Current(worker.work)
       THEN /\ t' = Committed(t, worker.level)
            /\ origin' = IF t.activation = None /\ t.active # worker.level
                         THEN worker.work.generation ELSE origin
       ELSE UNCHANGED <<t, origin>>
    /\ worker' = Idle
    /\ UNCHANGED <<caller, host, packet, jobs, updates, heard, installed>>

-----------------------------------------------------------------------------
\* Playlist updates and the end of the session.

PreparePlaylist(playlist) ==
    /\ host /\ ~t.closed
    /\ t.revision + 1 \in Revision
    /\ t.revision - t.nextId < MaxUpdates
    /\ t' = [t EXCEPT !.revision = @ + 1]
    /\ updates' = updates \cup {[revision |-> t'.revision, playlist |-> playlist]}
    /\ UNCHANGED <<caller, host, packet, jobs, worker, heard, origin, installed>>

\* Mutant: the update that is sent last is installed.
InstallsWhenOpen(u) == ~t.closed

Installs(u) == ~t.closed /\ t.revision = u.revision

\* The update's packet is sent and its playlist installed, if it is the newest.
CommitPlaylist(u) ==
    /\ updates' = updates \ {u}
    /\ IF Installs(u)
       THEN t' = [t EXCEPT !.playlist = u.playlist] /\ installed' = u.revision
       ELSE UNCHANGED <<t, installed>>
    /\ UNCHANGED <<caller, host, packet, jobs, worker, heard, origin>>

\* Its packet cannot be sent, or its caller is aborted.
DropPlaylist(u) ==
    /\ updates' = updates \ {u}
    /\ UNCHANGED <<t, caller, host, packet, jobs, worker, heard, origin, installed>>

\* The authority ends first: ownership is lost, the session fails or is stopped.
LoseAuthority ==
    /\ host
    /\ host' = FALSE
    /\ UNCHANGED <<t, caller, packet, jobs, worker, updates, heard, origin, installed>>

Close ==
    /\ ~host /\ ~t.closed
    /\ t' = [t EXCEPT !.closed = TRUE, !.activation = None, !.pending = None,
                      !.previous = None, !.active = None, !.playlist = None,
                      !.timing = None, !.gameState = None]
    /\ caller' = Answered(t, t', "error")
    /\ UNCHANGED <<host, packet, jobs, worker, updates, heard, origin, installed>>

-----------------------------------------------------------------------------

Next ==
    \/ \E level \in Level, playlist \in Playlist \cup {None} : Activate(level, playlist)
    \/ \E c \in Id : PacketsSent(c) \/ Succeed(c) \/ GiveUp(c) \/ Cancel(c)
    \/ \E p \in Packet : Receive(p)
    \/ PrepareWork
    \/ TakeWork
    \/ \E level \in Level : Load(level)
    \/ WorkFails
    \/ Commit
    \/ \E playlist \in Playlist : PreparePlaylist(playlist)
    \/ \E u \in updates : CommitPlaylist(u) \/ DropPlaylist(u)
    \/ LoseAuthority
    \/ Close

Spec == Init /\ [][Next]_vars

\* The timeout of activate and the task its lease leaves behind.
FairSpec == Spec /\ \A c \in Id : WF_vars(GiveUp(c)) /\ WF_vars(Cancel(c))

-----------------------------------------------------------------------------

Phase == {"idle", "sending", "waiting", "gone", "ended"}

Transfer ==
    [active : Level \cup {None}, pending : Level \cup {None},
     previous : Level \cup {None}, playlist : Playlist \cup {None},
     activation : Activation \cup {None}, nextId : 0..MaxActivations,
     revision : Revision, timing : Timing \cup {None},
     gameState : PlayState \cup {None}, closed : BOOLEAN]

Caller == [phase : Phase, answer : {None, "ok", "error"}]

Worker == [phase : {"idle", "loading", "loaded", "ended"},
           work : Work \cup {None}, level : Level \cup {None}]

\* The type invariant; a fallback is a level of the identity asked for.
TypeOK ==
    /\ t \in Transfer
    /\ caller \in [Id -> Caller]
    /\ host \in BOOLEAN
    /\ packet \in Packet \cup {None}
    /\ jobs \in Seq(Work)
    /\ \A i \in DOMAIN jobs :
          jobs[i].fallback # None => jobs[i].fallback.uid = jobs[i].uid
    /\ worker \in Worker
    /\ updates \subseteq [revision : Revision, playlist : Playlist]
    /\ heard \subseteq {"GameProperties", "GameState"}
    /\ origin \in 0..MaxActivations
    /\ installed \in Revision

\* While an activation is under way its level is the pending one, whatever
\* levels the server asks for and whatever work finishes late.
ActivationOwnsPending ==
    t.activation # None => t.pending = t.activation.level

\* No caller waits in vain: as long as it listens and has no answer, the
\* activation under way is its own, however late other callers' cancellations
\* arrive.
NoLostWaiter ==
    \A c \in Id : Listening(c) /\ caller[c].answer = None =>
        t.activation # None /\ t.activation.id = c

\* A level becomes active only when the server last reported that level, and
\* that it is being played.
ActiveIsPlayed ==
    [][t'.active \notin {t.active, None} =>
          /\ t'.timing # None /\ t'.timing.uid = t'.active.uid
          /\ t'.gameState = 0]_vars

\* A caller is told "ok" only if, since it asked, the server has reported that
\* it loaded this level, later than before, and that it is being played.
ConfirmedSinceAsked ==
    [][\A c \in Id :
          caller'[c].answer = "ok" /\ caller[c].answer = None =>
             /\ heard' = {"GameProperties", "GameState"}
             /\ t'.timing.uid = t'.active.uid
             /\ t.activation.before # None => t'.timing.at > t.activation.before
             /\ t'.gameState = 0]_vars

\* An activation whose caller has gone is never completed.
AbandonedNeverActive ==
    [][\A c \in Id : ~Listening(c) /\ t.activation # None /\ t.activation.id = c =>
          t'.active \in {t.active, None}]_vars

\* What is pending was asked for in the current generation: no work from before
\* the last activation leaves a level pending.
PendingOfThisGeneration == t.pending # None => origin = t.nextId

\* The installed playlist is never replaced by one prepared before it.
PlaylistNeverGoesBack == [][installed' >= installed]_vars

\* An attempt ends, and does not stay in the way of the next.
ActivationEnds ==
    \A c \in Id : Listening(c) ~>
        /\ caller[c].phase = "ended"
        /\ t.activation # None => t.activation.id # c
=============================================================================
