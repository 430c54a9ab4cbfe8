------------------------ MODULE LevelTransfer_proofs ------------------------
(***************************************************************************)
(* Proofs about LevelTransfer.  First what each operator on the transfer's *)
(* state does to it, then the inductive invariant, one lemma per action    *)
(* that touches it, and the theorems.                                      *)
(***************************************************************************)
EXTENDS LevelTransfer, TLAPS

\* Dropping an abandoned activation leaves the rest of the state alone.
LEMMA DropGoneEffect ==
  ASSUME NEW s \in Transfer
  PROVE  \/ DropGone(s) = s
         \/ /\ s.activation # None /\ ~Listening(s.activation.id)
            /\ DropGone(s) = [s EXCEPT !.activation = None, !.pending = None]
BY DEF DropGone, CancelActivation, Transfer

\* After it no abandoned activation is left.
LEMMA DropGoneListens ==
  ASSUME NEW s \in Transfer
  PROVE  DropGone(s).activation # None =>
             DropGone(s).activation = s.activation /\ Listening(s.activation.id)
BY DEF DropGone, CancelActivation, Transfer

\* Dropping an abandoned activation keeps the type.
LEMMA DropGoneType ==
  ASSUME NEW s \in Transfer
  PROVE  DropGone(s) \in Transfer
BY DropGoneEffect DEF Transfer

\* Noting a packet keeps the type.
LEMMA NotedType ==
  ASSUME NEW s \in Transfer, NEW p \in Packet
  PROVE  Noted(s, p) \in Transfer
<1>1. PropertiesConfirm(s.activation, p) \in BOOLEAN
  BY Zenon DEF PropertiesConfirm
<1>2. CASE p.type = "GameProperties" /\ p.valid
  <2>1. p.uid \in Uid /\ p.at \in 0..MaxLoadedAt
    BY <1>2 DEF Packet
  <2>2. s.activation # None =>
          [s.activation EXCEPT !.props = PropertiesConfirm(s.activation, p)] \in Activation
    BY <1>1 DEF Transfer, Activation
  <2>. QED BY <1>2, <2>1, <2>2 DEF Noted, Transfer, Timing
<1>3. CASE p.type = "GameState"
  <2>1. p.state \in PlayState
    BY <1>3 DEF Packet
  <2>2. s.activation # None =>
          [s.activation EXCEPT !.playing = (p.state = 0)] \in Activation
    BY DEF Transfer, Activation
  <2>. QED BY <1>3, <2>1, <2>2 DEF Noted, Transfer
<1>. QED BY <1>2, <1>3 DEF Noted

\* Confirming the pending level keeps the type.
LEMMA ConfirmType ==
  ASSUME NEW s \in Transfer
  PROVE  ConfirmPending(s) \in Transfer
BY DEF ConfirmPending, Transfer

\* A packet changes only the server's report and the flags of the activation.
LEMMA NotedEffect ==
  ASSUME NEW s \in Transfer, NEW p \in Packet
  PROVE  /\ Noted(s, p).active = s.active
         /\ Noted(s, p).pending = s.pending
         /\ Noted(s, p).nextId = s.nextId
         /\ Noted(s, p).revision = s.revision
         /\ Noted(s, p).closed = s.closed
         /\ s.activation = None => Noted(s, p).activation = None
         /\ s.activation # None =>
              /\ Noted(s, p).activation # None
              /\ Noted(s, p).activation.id = s.activation.id
              /\ Noted(s, p).activation.level = s.activation.level
              /\ Noted(s, p).activation.before = s.activation.before
<1>1. PropertiesConfirm(s.activation, p) \in BOOLEAN
  BY Zenon DEF PropertiesConfirm
<1>2. CASE p.type = "GameProperties" /\ p.valid
  <2>1. s.activation # None =>
          [s.activation EXCEPT !.props = PropertiesConfirm(s.activation, p)] \in Activation
    BY <1>1 DEF Transfer, Activation
  <2>. QED BY <1>2, <2>1, NoneAssumption DEF Noted, Transfer, Activation
<1>3. CASE p.type = "GameState"
  <2>1. s.activation # None =>
          [s.activation EXCEPT !.playing = (p.state = 0)] \in Activation
    BY DEF Transfer, Activation
  <2>. QED BY <1>3, <2>1, NoneAssumption DEF Noted, Transfer, Activation
<1>. QED BY <1>2, <1>3 DEF Noted

\* The pending level becomes active, and its activation is over.
LEMMA ConfirmEffect ==
  ASSUME NEW s \in Transfer
  PROVE  \/ ConfirmPending(s) = s
         \/ /\ Confirmed(s) /\ s.pending # None
            /\ ConfirmPending(s).active = s.pending
            /\ ConfirmPending(s).pending = None
            /\ ConfirmPending(s).activation = None
            /\ ConfirmPending(s).timing = s.timing
            /\ ConfirmPending(s).closed = s.closed
            /\ ConfirmPending(s).gameState = s.gameState
            /\ ConfirmPending(s).nextId = s.nextId
            /\ ConfirmPending(s).revision = s.revision
BY DEF ConfirmPending, Transfer

-----------------------------------------------------------------------------
\* Types.  An open session knows what the server plays, and every revision is
\* an activation's or an update's.
Typed ==
    /\ TypeOK
    /\ ~t.closed => t.timing # None
    /\ t.revision <= t.nextId + MaxUpdates

\* The seeded session has the types.
LEMMA InitTyped == Init => Typed
<1>. SUFFICES ASSUME Init PROVE Typed
  OBVIOUS
<1>1. 0 \in 0..MaxActivations /\ 0 \in Revision /\ 0 \in 0..MaxLoadedAt
  BY BoundAssumption DEF Revision
<1>2. t \in Transfer /\ t.timing \in Timing /\ t.revision = 0 /\ t.nextId = 0
  BY <1>1 DEF Init, Transfer, Timing
<1>3. caller \in [Id -> Caller]
  BY DEF Init, Caller, Phase
<1>4. jobs \in Seq(Work) /\ DOMAIN jobs = {}
  BY DEF Init
<1>5. worker \in Worker
  BY DEF Init, Idle, Worker
<1>6. t.timing # None
  BY <1>2, NoneAssumption DEF Timing
<1>. QED BY <1>1, <1>2, <1>3, <1>4, <1>5, <1>6, BoundAssumption DEF Init, Typed, TypeOK

\* activate preserves the types, refused or not.
LEMMA ActivateTyped ==
  ASSUME Typed, NEW level \in Level, NEW playlist \in Playlist \cup {None},
         Activate(level, playlist)
  PROVE  Typed'
<1>. DEFINE s == DropGone(t)
            id == s.nextId + 1
<1>1. /\ s \in Transfer /\ s.nextId = t.nextId /\ s.revision = t.revision
      /\ s.timing = t.timing /\ s.closed = t.closed
  BY DropGoneType, DropGoneEffect DEF Typed, TypeOK, Transfer
<1>2. CASE t' = s /\ UNCHANGED <<caller, heard, origin, installed>>
  BY <1>1, <1>2 DEF Typed, TypeOK, Activate
<1>3. CASE ~(t' = s /\ UNCHANGED <<caller, heard, origin, installed>>)
  <2>. DEFINE a == [id |-> id, level |-> level, before |-> LoadedAt(s, level),
                    props |-> FALSE, playing |-> FALSE]
              revision == s.revision + 1
  <2>1. /\ id \in Id
        /\ t' = [s EXCEPT !.activation = a, !.pending = level, !.playlist = playlist,
                          !.nextId = id, !.revision = revision]
        /\ caller' = [caller EXCEPT ![id].phase = "sending"]
        /\ heard' = {} /\ origin' = id /\ installed' = t'.revision
        /\ ~t.closed
    BY <1>3 DEF Activate
  <2>2. a \in Activation
    <3>1. LoadedAt(s, level) \in 0..MaxLoadedAt \cup {None}
      BY <1>1, <2>1 DEF LoadedAt, Transfer, Timing, Typed
    <3>. QED BY <2>1, <3>1 DEF Activation
  <2>3. revision \in Revision /\ revision <= id + MaxUpdates
    BY <1>1, <2>1, BoundAssumption DEF Revision, Typed, Transfer, Id
  <2>4. id \in 0..MaxActivations
    BY <2>1, BoundAssumption DEF Id
  <2>. HIDE DEF s, a, id, revision
  <2>5. t' \in Transfer /\ t'.timing = s.timing /\ t'.revision = revision /\ t'.nextId = id
    BY <1>1, <2>1, <2>2, <2>3, <2>4 DEF Transfer
  <2>6. caller' \in [Id -> Caller]
    BY <2>1 DEF Typed, TypeOK, Caller, Phase
  <2>. QED BY <1>1, <2>1, <2>3, <2>4, <2>5, <2>6 DEF Typed, TypeOK, Activate
<1>. QED BY <1>2, <1>3

\* The other steps of a caller preserve the types.
LEMMA CallerTyped ==
  ASSUME Typed, NEW c \in Id, PacketsSent(c) \/ Succeed(c) \/ GiveUp(c) \/ Cancel(c)
  PROVE  Typed'
<1>1. caller' \in [Id -> Caller]
  BY DEF Typed, TypeOK, PacketsSent, Succeed, GiveUp, Cancel, Caller, Phase
<1>2. CancelActivation(t, c) \in Transfer
  BY DEF CancelActivation, Transfer, Typed, TypeOK
<1>3. /\ t' \in Transfer /\ t'.timing = t.timing /\ t'.closed = t.closed
      /\ t'.revision = t.revision /\ t'.nextId = t.nextId
  BY <1>2 DEF Typed, TypeOK, PacketsSent, Succeed, GiveUp, Cancel, CancelActivation, Transfer
<1>. QED BY <1>1, <1>3 DEF Typed, TypeOK, PacketsSent, Succeed, GiveUp, Cancel

\* Answering an activation keeps the callers' type.
LEMMA AnsweredType ==
  ASSUME TypeOK, NEW s, NEW s2, NEW answer \in {"ok", "error"}
  PROVE  Answered(s, s2, answer) \in [Id -> Caller]
BY DEF TypeOK, Answered, Caller

\* observe_received preserves the types, and an open session knows a timing.
LEMMA ReceiveTyped ==
  ASSUME Typed, NEW p \in Packet, Receive(p)
  PROVE  Typed'
<1>. DEFINE d == DropGone(t)
            s == Noted(d, p)
<1>1. /\ d \in Transfer /\ d.nextId = t.nextId /\ d.revision = t.revision
      /\ d.timing = t.timing /\ d.closed = t.closed
  BY DropGoneType, DropGoneEffect DEF Typed, TypeOK, Transfer
<1>. HIDE DEF d
<1>2. /\ s \in Transfer /\ s.nextId = t.nextId /\ s.revision = t.revision
      /\ s.closed = t.closed
  BY <1>1, NotedType, NotedEffect
<1>3. s.timing # None
  <2>1. ~t.closed
    BY DEF Receive
  <2>2. d.timing # None
    BY <1>1, <2>1 DEF Typed
  <2>3. CASE p.type = "GameProperties" /\ p.valid
    <3>1. s.timing = [uid |-> p.uid, at |-> p.at] /\ p.uid \in Uid /\ p.at \in 0..MaxLoadedAt
      BY <1>1, <2>3 DEF Noted, Transfer, Packet
    <3>. QED BY <3>1, NoneAssumption DEF Timing
  <2>. QED BY <1>1, <2>2, <2>3 DEF Noted, Transfer
<1>. HIDE DEF s
<1>4. /\ t' \in Transfer /\ t'.nextId = t.nextId /\ t'.revision = t.revision
      /\ t'.closed = t.closed /\ t'.timing = s.timing
  <2>1. t' = ConfirmPending(s)
    BY DEF Receive, s, d
  <2>. QED BY <1>2, <2>1, ConfirmType DEF ConfirmPending, Transfer
<1>5. caller' \in [Id -> Caller]
  BY AnsweredType DEF Receive, Typed
<1>6. packet' \in Packet \cup {None} /\ heard' \subseteq {"GameProperties", "GameState"}
  BY DEF Receive, Typed, TypeOK
<1>. QED BY <1>3, <1>4, <1>5, <1>6 DEF Receive, Typed, TypeOK

\* The fallback is a level of the identity asked for.
LEMMA FallbackType ==
  ASSUME TypeOK, NEW uid \in Uid
  PROVE  /\ Fallback(uid) \in Level \cup {None}
         /\ Fallback(uid) # None => Fallback(uid).uid = uid
<1>. DEFINE known == {i \in 1..3 : Held[i] # None /\ Held[i].uid = uid}
            first == CHOOSE i \in known : \A j \in known : i <= j
<1>1. \A i \in 1..3 : Held[i] \in Level \cup {None}
  BY DEF Held, TypeOK, Transfer
<1>2. known # {} => first \in known
  <2>1. known # {} => \E i \in known : \A j \in known : i <= j
    OBVIOUS
  <2>. QED BY <2>1
<1>3. Fallback(uid) = IF known = {} THEN None ELSE Held[first]
  BY DEF Fallback
<1>. QED BY <1>1, <1>2, <1>3

\* prepare_work preserves the types.
LEMMA PrepareWorkTyped ==
  ASSUME Typed, PrepareWork
  PROVE  Typed'
<1>. DEFINE work == [generation |-> t.nextId, playlist |-> t.playlist,
                     fallback |-> Fallback(packet.uid), uid |-> packet.uid,
                     named |-> packet.type = "LevelRequest"]
<1>1. CASE jobs' = jobs
  BY <1>1 DEF PrepareWork, Typed, TypeOK
<1>2. CASE jobs' # jobs
  <2>1. packet \in Packet /\ jobs' = Append(jobs, work) /\ Wanted(packet)
    BY <1>2 DEF PrepareWork, Typed, TypeOK
  <2>2. packet.uid \in Uid
    BY <2>1 DEF Wanted, Packet
  <2>3. work \in Work /\ (work.fallback # None => work.fallback.uid = work.uid)
    BY <2>2, FallbackType DEF Work, Typed, TypeOK, Transfer
  <2>. HIDE DEF work
  <2>4. /\ jobs' \in Seq(Work)
        /\ \A i \in DOMAIN jobs' : jobs'[i] = IF i = Len(jobs) + 1 THEN work ELSE jobs[i]
        /\ \A i \in DOMAIN jobs' : i # Len(jobs) + 1 => i \in DOMAIN jobs
    BY <2>1, <2>3 DEF Typed, TypeOK
  <2>5. \A i \in DOMAIN jobs' :
          jobs'[i].fallback # None => jobs'[i].fallback.uid = jobs'[i].uid
    BY <2>3, <2>4 DEF Typed, TypeOK
  <2>. QED BY <2>4, <2>5 DEF PrepareWork, Typed, TypeOK
<1>. QED BY <1>1, <1>2

\* The worker's steps preserve the types.
LEMMA WorkerTyped ==
  ASSUME Typed, TakeWork \/ (\E level \in Level : Load(level)) \/ WorkFails \/ Commit
  PROVE  Typed'
<1>1. CASE TakeWork
  <2>1. Head(jobs) \in Work /\ jobs' \in Seq(Work) /\ Len(jobs) > 0
    BY <1>1 DEF TakeWork, Typed, TypeOK
  <2>2. \A i \in DOMAIN jobs' : i + 1 \in DOMAIN jobs /\ jobs'[i] = jobs[i + 1]
    BY <1>1, <2>1 DEF TakeWork, Typed, TypeOK
  <2>3. worker' \in Worker
    BY <1>1, <2>1 DEF TakeWork, Worker, Idle
  <2>. QED BY <1>1, <2>1, <2>2, <2>3 DEF TakeWork, Typed, TypeOK
<1>2. CASE \E level \in Level : Load(level)
  <2>1. PICK level \in Level : Load(level)
    BY <1>2
  <2>2. Idle \in Worker /\ [worker EXCEPT !.phase = "loaded", !.level = level] \in Worker
    BY DEF Worker, Idle, Typed, TypeOK
  <2>3. worker' \in Worker
    BY <2>1, <2>2 DEF Load
  <2>. QED BY <2>1, <2>3 DEF Load, Typed, TypeOK
<1>3. CASE WorkFails
  <2>1. worker' \in Worker
    BY <1>3 DEF WorkFails, Worker, Idle
  <2>. QED BY <1>3, <2>1 DEF WorkFails, Typed, TypeOK
<1>4. CASE Commit
  <2>1. worker' \in Worker
    BY <1>4 DEF Commit, Worker, Idle
  <2>2. CASE UNCHANGED <<t, origin>>
    BY <1>4, <2>1, <2>2 DEF Commit, Typed, TypeOK
  <2>3. CASE ~UNCHANGED <<t, origin>>
    <3>. DEFINE s == [t EXCEPT !.pending = worker.level]
    <3>1. t' = Committed(t, worker.level)
      BY <1>4, <2>3 DEF Commit
    <3>2. worker.level \in Level \cup {None} /\ worker.work \in Work \cup {None}
      BY DEF Typed, TypeOK, Worker
    <3>3. s \in Transfer /\ t \in Transfer
      BY <3>2 DEF Typed, TypeOK, Transfer
    <3>4. /\ t' \in Transfer /\ t'.timing = t.timing /\ t'.closed = t.closed
          /\ t'.revision = t.revision /\ t'.nextId = t.nextId
      <4>1. t' \in {t, ConfirmPending(s)}
        BY <3>1 DEF Committed
      <4>2. /\ s.timing = t.timing /\ s.closed = t.closed
            /\ s.revision = t.revision /\ s.nextId = t.nextId
        BY <3>3 DEF Transfer
      <4>. HIDE DEF s
      <4>3. /\ ConfirmPending(s) \in Transfer
            /\ ConfirmPending(s).timing = s.timing /\ ConfirmPending(s).closed = s.closed
            /\ ConfirmPending(s).revision = s.revision /\ ConfirmPending(s).nextId = s.nextId
        BY <3>3, ConfirmType, ConfirmEffect
      <4>. QED BY <3>3, <4>1, <4>2, <4>3
    <3>5. origin' \in 0..MaxActivations
      BY <1>4, <2>3 DEF Commit, Current, Typed, TypeOK, Transfer
    <3>. QED BY <1>4, <2>1, <3>4, <3>5 DEF Commit, Typed, TypeOK
  <2>. QED BY <2>2, <2>3
<1>. QED BY <1>1, <1>2, <1>3, <1>4

\* Playlist updates preserve the types and the bound on revisions.
LEMMA PlaylistTyped ==
  ASSUME Typed,
         \/ \E playlist \in Playlist : PreparePlaylist(playlist)
         \/ \E u \in updates : CommitPlaylist(u) \/ DropPlaylist(u)
  PROVE  Typed'
<1>1. CASE \E playlist \in Playlist : PreparePlaylist(playlist)
  <2>1. PICK playlist \in Playlist : PreparePlaylist(playlist)
    BY <1>1
  <2>2. /\ t' \in Transfer /\ t'.timing = t.timing /\ t'.closed = t.closed
        /\ t'.revision = t.revision + 1 /\ t'.nextId = t.nextId
        /\ t'.revision \in Revision
    BY <2>1 DEF PreparePlaylist, Transfer, Typed, TypeOK
  <2>3. t.revision \in Int /\ t.nextId \in Int /\ t.revision - t.nextId < MaxUpdates
    BY <2>1, BoundAssumption DEF PreparePlaylist, Typed, TypeOK, Transfer, Revision
  <2>4. t'.revision <= t'.nextId + MaxUpdates
    BY <2>2, <2>3, BoundAssumption
  <2>. QED BY <2>1, <2>2, <2>4 DEF PreparePlaylist, Typed, TypeOK
<1>2. CASE \E u \in updates : CommitPlaylist(u) \/ DropPlaylist(u)
  <2>1. PICK u \in updates : CommitPlaylist(u) \/ DropPlaylist(u)
    BY <1>2
  <2>2. u.revision \in Revision /\ u.playlist \in Playlist
    BY DEF Typed, TypeOK
  <2>3. /\ t' \in Transfer /\ t'.timing = t.timing /\ t'.closed = t.closed
        /\ t'.revision = t.revision /\ t'.nextId = t.nextId
        /\ installed' \in Revision
    BY <2>1, <2>2 DEF CommitPlaylist, DropPlaylist, Transfer, Typed, TypeOK
  <2>. QED BY <2>1, <2>3 DEF CommitPlaylist, DropPlaylist, Typed, TypeOK
<1>. QED BY <1>1, <1>2

\* The end of the session preserves the types.
LEMMA EndTyped ==
  ASSUME Typed, LoseAuthority \/ Close
  PROVE  Typed'
<1>1. CASE LoseAuthority
  BY <1>1 DEF LoseAuthority, Typed, TypeOK
<1>2. CASE Close
  <2>1. /\ t' \in Transfer /\ t'.closed = TRUE
        /\ t'.revision = t.revision /\ t'.nextId = t.nextId
    BY <1>2 DEF Close, Transfer, Typed, TypeOK
  <2>2. caller' \in [Id -> Caller]
    BY <1>2, AnsweredType DEF Close, Typed
  <2>. QED BY <1>2, <2>1, <2>2 DEF Close, Typed, TypeOK
<1>. QED BY <1>1, <1>2

\* Every step preserves the types.
LEMMA NextTyped == Typed /\ [Next]_vars => Typed'
<1>. SUFFICES ASSUME Typed, [Next]_vars PROVE Typed'
  OBVIOUS
<1>1. CASE UNCHANGED vars
  BY <1>1 DEF vars, Typed, TypeOK
<1>2. CASE Next
  BY <1>2, ActivateTyped, CallerTyped, ReceiveTyped, PrepareWorkTyped, WorkerTyped,
     PlaylistTyped, EndTyped DEF Next
<1>. QED BY <1>1, <1>2

-----------------------------------------------------------------------------
\* The inductive invariant.  The flags of an activation stand for what the
\* server reported since it was asked for, and still reports.
FlagsHeard ==
    t.activation # None =>
        /\ t.activation.props =>
              /\ "GameProperties" \in heard
              /\ t.timing.uid = t.activation.level.uid
              /\ t.activation.before # None => t.timing.at > t.activation.before
        /\ t.activation.playing => "GameState" \in heard /\ t.gameState = 0

Inv ==
    /\ ActivationOwnsPending
    /\ NoLostWaiter
    /\ PendingOfThisGeneration
    /\ FlagsHeard
    /\ installed <= t.revision

\* The seeded session satisfies the invariant: nothing is pending.
LEMMA InitInv == Init => Inv
<1>. SUFFICES ASSUME Init PROVE Inv
  OBVIOUS
<1>1. t.activation = None /\ t.pending = None /\ t.revision = 0 /\ installed = 0
  BY DEF Init
<1>2. \A c \in Id : ~Listening(c)
  BY DEF Init, Listening
<1>. QED BY <1>1, <1>2 DEF Inv, ActivationOwnsPending, NoLostWaiter,
               PendingOfThisGeneration, FlagsHeard

\* activate preserves the invariant: it is refused while a caller waits.
LEMMA ActivateInv ==
  ASSUME Typed, Inv, NEW level \in Level, NEW playlist \in Playlist \cup {None},
         Activate(level, playlist)
  PROVE  Inv'
<1>. DEFINE s == DropGone(t)
            id == s.nextId + 1
<1>1. /\ s \in Transfer /\ s.nextId = t.nextId /\ s.revision = t.revision
      /\ s.timing = t.timing /\ s.gameState = t.gameState
      /\ \/ s = t
         \/ /\ t.activation # None /\ ~Listening(t.activation.id)
            /\ s.activation = None /\ s.pending = None
  BY DropGoneType, DropGoneEffect DEF Typed, TypeOK, Transfer
<1>2. CASE t' = s /\ UNCHANGED <<caller, heard, origin, installed>>
  <2>1. NoLostWaiter'
    BY <1>1, <1>2 DEF Inv, NoLostWaiter, Listening
  <2>2. (ActivationOwnsPending /\ PendingOfThisGeneration /\ FlagsHeard)'
    BY <1>1, <1>2 DEF Inv, ActivationOwnsPending, PendingOfThisGeneration, FlagsHeard
  <2>. QED BY <1>1, <1>2, <2>1, <2>2 DEF Inv
<1>3. CASE ~(t' = s /\ UNCHANGED <<caller, heard, origin, installed>>)
  <2>. DEFINE a == [id |-> id, level |-> level, before |-> LoadedAt(s, level),
                    props |-> FALSE, playing |-> FALSE]
              revision == s.revision + 1
  <2>1. /\ id \in Id /\ s.activation = None
        /\ t' = [s EXCEPT !.activation = a, !.pending = level, !.playlist = playlist,
                          !.nextId = id, !.revision = revision]
        /\ caller' = [caller EXCEPT ![id].phase = "sending"]
        /\ origin' = id /\ installed' = t'.revision
    BY <1>3 DEF Activate
  <2>2. /\ a.id = id /\ a.level = level /\ ~a.props /\ ~a.playing /\ a # None
    <3>1. ~t.closed
      BY DEF Activate
    <3>2. LoadedAt(s, level) \in 0..MaxLoadedAt \cup {None}
      BY <1>1, <3>1 DEF LoadedAt, Transfer, Timing, Typed
    <3>3. a \in Activation
      BY <2>1, <3>2 DEF Activation
    <3>. QED BY <3>3, NoneAssumption
  <2>3. \A c \in Id : ~(Listening(c) /\ caller[c].answer = None)
    BY <1>1, <2>1 DEF Inv, NoLostWaiter
  <2>. HIDE DEF s, a, id, revision
  <2>4. t'.activation = a /\ t'.pending = level /\ t'.nextId = id /\ t'.revision = revision
    BY <1>1, <2>1 DEF Transfer
  <2>5. NoLostWaiter'
    <3>. SUFFICES ASSUME NEW c \in Id, Listening(c)', caller'[c].answer = None, c # id
                  PROVE  FALSE
      BY <2>2, <2>4 DEF NoLostWaiter
    <3>1. caller'[c] = caller[c]
      BY <2>1 DEF Typed, TypeOK
    <3>. QED BY <2>3, <3>1 DEF Listening
  <2>6. (ActivationOwnsPending /\ PendingOfThisGeneration /\ FlagsHeard)'
    BY <2>1, <2>2, <2>4 DEF ActivationOwnsPending, PendingOfThisGeneration, FlagsHeard
  <2>7. (installed <= t.revision)'
    BY <1>1, <2>1, <2>4, BoundAssumption DEF revision, Transfer, Revision
  <2>. QED BY <2>5, <2>6, <2>7 DEF Inv
<1>. QED BY <1>2, <1>3

\* A caller's own steps preserve the invariant: it only stops waiting.
LEMMA CallerInv ==
  ASSUME Typed, Inv, NEW c \in Id, PacketsSent(c) \/ Succeed(c) \/ GiveUp(c)
  PROVE  Inv'
<1>1. \A d \in Id : Listening(d)' /\ caller'[d].answer = None =>
                      Listening(d) /\ caller[d].answer = None
  BY DEF PacketsSent, Succeed, GiveUp, Listening, Typed, TypeOK, Caller
<1>2. UNCHANGED <<t, heard, origin, installed>>
  BY DEF PacketsSent, Succeed, GiveUp
<1>3. NoLostWaiter'
  BY <1>1, <1>2 DEF Inv, NoLostWaiter
<1>. QED BY <1>2, <1>3 DEF Inv, ActivationOwnsPending, PendingOfThisGeneration, FlagsHeard

\* A cancellation preserves the invariant: it takes its own activation only.
LEMMA CancelInv ==
  ASSUME Typed, Inv, NEW c \in Id, Cancel(c)
  PROVE  Inv'
<1>1. \/ t' = t
      \/ /\ t.activation # None /\ t.activation.id = c
         /\ t'.activation = None /\ t'.pending = None /\ t'.revision = t.revision
  BY DEF Cancel, CancelActivation, Typed, TypeOK, Transfer
<1>2. \A d \in Id : Listening(d)' => d # c /\ Listening(d) /\ caller'[d] = caller[d]
  BY DEF Cancel, Listening, Typed, TypeOK, Caller
<1>3. UNCHANGED <<heard, origin, installed>>
  BY DEF Cancel
<1>4. NoLostWaiter'
  BY <1>1, <1>2 DEF Inv, NoLostWaiter
<1>. QED BY <1>1, <1>3, <1>4
     DEF Inv, ActivationOwnsPending, PendingOfThisGeneration, FlagsHeard

\* A packet sets a flag of the activation only with the report behind it.
LEMMA NotedFlags ==
  ASSUME Typed, NEW p \in Packet, NEW s \in Transfer, s.timing # None,
         NEW h \in SUBSET {"GameProperties", "GameState"},
         NEW h2, h2 = IF p.type = "GameState" \/ (p.type = "GameProperties" /\ p.valid)
                      THEN h \cup {p.type} ELSE h,
         NEW s2, s2 = Noted(s, p), s2.activation # None,
         s.activation # None /\ s.activation.props =>
            /\ "GameProperties" \in h
            /\ s.timing.uid = s.activation.level.uid
            /\ s.activation.before # None => s.timing.at > s.activation.before,
         s.activation # None /\ s.activation.playing => "GameState" \in h /\ s.gameState = 0
  PROVE  /\ s2.activation.props =>
              /\ "GameProperties" \in h2
              /\ s2.timing.uid = s2.activation.level.uid
              /\ s2.activation.before # None => s2.timing.at > s2.activation.before
         /\ s2.activation.playing => "GameState" \in h2 /\ s2.gameState = 0
<1>. DEFINE ok == PropertiesConfirm(s.activation, p)
<1>0. s.activation # None /\ s.activation \in Activation /\ ok \in BOOLEAN
  BY NotedEffect, Zenon DEF Transfer, PropertiesConfirm
<1>1. CASE p.type = "GameProperties" /\ p.valid
  <2>1. /\ s2.timing = [uid |-> p.uid, at |-> p.at] /\ s2.gameState = s.gameState
        /\ s2.activation = [s.activation EXCEPT !.props = ok]
    BY <1>0, <1>1 DEF Noted, Transfer
  <2>. HIDE DEF ok
  <2>2. /\ s2.activation.props = ok /\ s2.activation.playing = s.activation.playing
        /\ s2.activation.level = s.activation.level
        /\ s2.activation.before = s.activation.before
    BY <1>0, <2>1 DEF Activation
  <2>3. ok => p.uid = s.activation.level.uid
              /\ (s.activation.before # None => p.at > s.activation.before)
    BY DEF ok, PropertiesConfirm
  <2>. QED BY <1>0, <1>1, <2>1, <2>2, <2>3
<1>2. CASE p.type = "GameState"
  <2>1. /\ s2.timing = s.timing /\ s2.gameState = p.state
        /\ s2.activation = [s.activation EXCEPT !.playing = (p.state = 0)]
    BY <1>0, <1>2 DEF Noted, Transfer
  <2>2. /\ s2.activation.props = s.activation.props
        /\ s2.activation.playing = (p.state = 0)
        /\ s2.activation.level = s.activation.level
        /\ s2.activation.before = s.activation.before
    BY <1>0, <2>1 DEF Activation
  <2>. QED BY <1>0, <1>2, <2>1, <2>2
<1>3. CASE ~(p.type = "GameProperties" /\ p.valid) /\ p.type # "GameState"
  BY <1>0, <1>3 DEF Noted
<1>. QED BY <1>1, <1>2, <1>3

\* observe_received preserves the invariant: who waits is answered.
LEMMA ReceiveInv ==
  ASSUME Typed, Inv, NEW p \in Packet, Receive(p)
  PROVE  Inv'
<1>. DEFINE d == DropGone(t)
            s == Noted(d, p)
<1>1. /\ d \in Transfer /\ d.nextId = t.nextId /\ d.revision = t.revision
      /\ d.timing = t.timing /\ d.gameState = t.gameState
      /\ \/ d = t
         \/ /\ t.activation # None /\ ~Listening(t.activation.id)
            /\ d.activation = None /\ d.pending = None
      /\ t.timing # None
  BY DropGoneType, DropGoneEffect DEF Receive, Typed, TypeOK, Transfer
<1>2. t' = ConfirmPending(s) /\ caller' = Answered(s, t', "ok")
  BY DEF Receive
<1>. HIDE DEF d
<1>3. /\ s \in Transfer /\ s.nextId = t.nextId /\ s.revision = t.revision
      /\ s.pending = d.pending
      /\ d.activation = None => s.activation = None
      /\ d.activation # None => s.activation # None /\ s.activation.id = d.activation.id
                                 /\ s.activation.level = d.activation.level
  BY <1>1, NotedType, NotedEffect
<1>4. s.activation # None =>
        /\ s.activation.props =>
              /\ "GameProperties" \in heard'
              /\ s.timing.uid = s.activation.level.uid
              /\ s.activation.before # None => s.timing.at > s.activation.before
        /\ s.activation.playing => "GameState" \in heard' /\ s.gameState = 0
  <2>1. heard \in SUBSET {"GameProperties", "GameState"}
    BY DEF Typed, TypeOK
  <2>2. heard' = IF p.type = "GameState" \/ (p.type = "GameProperties" /\ p.valid)
                 THEN heard \cup {p.type} ELSE heard
    BY DEF Receive
  <2>3. /\ d.activation # None /\ d.activation.props =>
             /\ "GameProperties" \in heard
             /\ d.timing.uid = d.activation.level.uid
             /\ d.activation.before # None => d.timing.at > d.activation.before
        /\ d.activation # None /\ d.activation.playing =>
             "GameState" \in heard /\ d.gameState = 0
    BY <1>1 DEF Inv, FlagsHeard
  <2>. QED BY <1>1, <2>1, <2>2, <2>3, NotedFlags
<1>. HIDE DEF s
<1>5. \/ t' = s
      \/ /\ t'.pending = None /\ t'.activation = None
         /\ t'.nextId = s.nextId /\ t'.revision = s.revision
  BY <1>2, <1>3, ConfirmEffect
<1>6. NoLostWaiter'
  <2>. SUFFICES ASSUME NEW c \in Id, Listening(c)', caller'[c].answer = None
                PROVE  t'.activation # None /\ t'.activation.id = c
    BY DEF NoLostWaiter
  <2>1. caller'[c].phase = caller[c].phase /\ caller[c] \in Caller
    BY <1>2 DEF Answered, Typed, TypeOK, Caller
  <2>2. Listening(c) /\ ~(s.activation # None /\ s.activation.id = c /\ t'.activation = None)
        /\ caller[c].answer = None
    BY <1>2, <2>1, NoneAssumption DEF Answered, Listening, Caller
  <2>3. t.activation # None /\ t.activation.id = c
    BY <2>2 DEF Inv, NoLostWaiter
  <2>4. d = t
    BY <1>1, <2>2, <2>3
  <2>. QED BY <1>3, <1>5, <2>2, <2>3, <2>4
<1>7. ActivationOwnsPending'
  BY <1>1, <1>3, <1>5 DEF Inv, ActivationOwnsPending
<1>8. PendingOfThisGeneration'
  BY <1>1, <1>3, <1>5 DEF Receive, Inv, PendingOfThisGeneration
<1>9. FlagsHeard'
  BY <1>4, <1>5 DEF FlagsHeard
<1>10. (installed <= t.revision)'
  BY <1>3, <1>5 DEF Receive, Inv
<1>. QED BY <1>6, <1>7, <1>8, <1>9, <1>10 DEF Inv

\* Finished work preserves the invariant: it touches no activation.
LEMMA CommitInv ==
  ASSUME Typed, Inv, Commit
  PROVE  Inv'
<1>0. UNCHANGED <<caller, heard, installed>>
  BY DEF Commit
<1>1. CASE UNCHANGED <<t, origin>>
  BY <1>0, <1>1 DEF Inv, ActivationOwnsPending, NoLostWaiter, Listening,
                    PendingOfThisGeneration, FlagsHeard
<1>2. CASE ~UNCHANGED <<t, origin>>
  <2>. DEFINE s == [t EXCEPT !.pending = worker.level]
  <2>1. /\ t' = Committed(t, worker.level) /\ worker.work.generation = t.nextId
        /\ origin' = IF t.activation = None /\ t.active # worker.level
                     THEN worker.work.generation ELSE origin
    BY <1>2 DEF Commit, Current
  <2>2. t.activation = None /\ t.active # worker.level
    BY <1>2, <2>1 DEF Committed
  <2>3. t' = ConfirmPending(s) /\ origin' = t.nextId
    BY <2>1, <2>2 DEF Committed
  <2>4. s \in Transfer /\ s.activation = None /\ s.nextId = t.nextId
        /\ s.revision = t.revision
    BY <2>2 DEF Typed, TypeOK, Transfer, Worker
  <2>. HIDE DEF s
  <2>5. t'.activation = None /\ t'.nextId = t.nextId /\ t'.revision = t.revision
    BY <2>3, <2>4, ConfirmEffect
  <2>6. NoLostWaiter'
    BY <1>0, <2>2 DEF Inv, NoLostWaiter, Listening
  <2>. QED BY <1>0, <2>3, <2>5, <2>6
       DEF Inv, ActivationOwnsPending, PendingOfThisGeneration, FlagsHeard
<1>. QED BY <1>1, <1>2

\* Playlist updates preserve the invariant.
LEMMA PlaylistInv ==
  ASSUME Typed, Inv,
         \/ \E playlist \in Playlist : PreparePlaylist(playlist)
         \/ \E u \in updates : CommitPlaylist(u) \/ DropPlaylist(u)
  PROVE  Inv'
<1>1. /\ t'.activation = t.activation /\ t'.pending = t.pending /\ t'.nextId = t.nextId
      /\ t'.timing = t.timing /\ t'.gameState = t.gameState
      /\ UNCHANGED <<caller, heard, origin>>
  BY DEF PreparePlaylist, CommitPlaylist, DropPlaylist, Typed, TypeOK, Transfer
<1>2. (installed <= t.revision)'
  <2>1. t.revision \in Int /\ installed <= t.revision /\ installed \in Int
    BY BoundAssumption DEF Typed, TypeOK, Transfer, Revision, Inv
  <2>2. CASE \E playlist \in Playlist : PreparePlaylist(playlist)
    BY <2>1, <2>2 DEF PreparePlaylist, Typed, TypeOK, Transfer
  <2>3. CASE \E u \in updates : CommitPlaylist(u) \/ DropPlaylist(u)
    BY <2>1, <2>3 DEF CommitPlaylist, DropPlaylist, Installs, Typed, TypeOK, Transfer
  <2>. QED BY <2>2, <2>3
<1>. QED BY <1>1, <1>2 DEF Inv, ActivationOwnsPending, NoLostWaiter, Listening,
                           PendingOfThisGeneration, FlagsHeard

\* The end of the session preserves the invariant: who waits is answered.
LEMMA CloseInv ==
  ASSUME Typed, Inv, Close
  PROVE  Inv'
<1>1. t'.activation = None /\ t'.pending = None /\ t'.revision = t.revision
  BY DEF Close, Typed, TypeOK, Transfer
<1>2. NoLostWaiter'
  <2>. SUFFICES ASSUME NEW c \in Id, Listening(c)', caller'[c].answer = None
                PROVE  FALSE
    BY DEF NoLostWaiter
  <2>1. /\ caller[c] \in Caller
        /\ caller'[c] = IF t.activation # None /\ t.activation.id = c /\ Listening(c)
                        THEN [caller[c] EXCEPT !.answer = "error"] ELSE caller[c]
    BY <1>1 DEF Close, Answered, Typed, TypeOK
  <2>2. ~(t.activation # None /\ t.activation.id = c /\ Listening(c))
    BY <2>1, NoneAssumption DEF Caller, Listening
  <2>. QED BY <2>1, <2>2 DEF Inv, NoLostWaiter, Listening
<1>. QED BY <1>1, <1>2 DEF Close, Inv, ActivationOwnsPending,
                           PendingOfThisGeneration, FlagsHeard

\* Every step preserves the invariant.
LEMMA NextInv == Typed /\ Inv /\ [Next]_vars => Inv'
<1>. SUFFICES ASSUME Typed, Inv, [Next]_vars PROVE Inv'
  OBVIOUS
<1>1. CASE UNCHANGED <<t, caller, heard, origin, installed>>
  BY <1>1 DEF Inv, ActivationOwnsPending, NoLostWaiter, Listening,
              PendingOfThisGeneration, FlagsHeard
<1>2. CASE UNCHANGED vars \/ PrepareWork \/ TakeWork \/ WorkFails \/ LoseAuthority
           \/ \E level \in Level : Load(level)
  BY <1>1, <1>2 DEF vars, PrepareWork, TakeWork, WorkFails, LoseAuthority, Load
<1>3. CASE \E c \in Id : PacketsSent(c) \/ Succeed(c) \/ GiveUp(c) \/ Cancel(c)
  BY <1>3, CallerInv, CancelInv
<1>. QED BY <1>2, <1>3, ActivateInv, ReceiveInv, CommitInv, PlaylistInv, CloseInv DEF Next

-----------------------------------------------------------------------------
\* Theorems.

\* The types and the invariant hold throughout.
LEMMA Invariance == Spec => [](Typed /\ Inv)
<1>1. Init => Typed /\ Inv
  BY InitTyped, InitInv
<1>2. Typed /\ Inv /\ [Next]_vars => (Typed /\ Inv)'
  BY NextTyped, NextInv
<1>. QED BY <1>1, <1>2, PTL DEF Spec

\* The session's state keeps its types, and a fallback is a level of the
\* identity the server asked for.
THEOREM TypeCorrect == Spec => []TypeOK
<1>1. Typed => TypeOK
  BY DEF Typed
<1>. QED BY <1>1, Invariance, PTL

\* An activation under way always owns the pending level.
THEOREM ActivationKeepsItsLevel == Spec => []ActivationOwnsPending
<1>1. Inv => ActivationOwnsPending
  BY DEF Inv
<1>. QED BY <1>1, Invariance, PTL

\* A caller that still waits waits for the activation under way.
THEOREM NobodyWaitsInVain == Spec => []NoLostWaiter
<1>1. Inv => NoLostWaiter
  BY DEF Inv
<1>. QED BY <1>1, Invariance, PTL

\* No work from before the last activation leaves a level pending.
THEOREM StaleWorkIsDropped == Spec => []PendingOfThisGeneration
<1>1. Inv => PendingOfThisGeneration
  BY DEF Inv
<1>. QED BY <1>1, Invariance, PTL

\* A level that is confirmed is the one last reported, and it is played.
LEMMA ConfirmIsPlayed ==
  ASSUME NEW s \in Transfer, s.timing # None,
         s.activation # None => s.pending = s.activation.level,
         s.activation # None /\ s.activation.props =>
            s.timing.uid = s.activation.level.uid,
         s.activation # None /\ s.activation.playing => s.gameState = 0,
         ConfirmPending(s) # s
  PROVE  /\ ConfirmPending(s).timing = s.timing
         /\ ConfirmPending(s).timing.uid = ConfirmPending(s).active.uid
         /\ ConfirmPending(s).gameState = 0
<1>1. /\ Confirmed(s) /\ ConfirmPending(s).active = s.pending
      /\ ConfirmPending(s).timing = s.timing
      /\ ConfirmPending(s).gameState = s.gameState
  BY ConfirmEffect
<1>2. s.gameState = 0 /\ s.timing.uid = s.pending.uid
  BY <1>1 DEF Confirmed
<1>. QED BY <1>1, <1>2

\* What a packet leads to, from the invariant: the flags stand for reports,
\* and only an activation whose caller listens is left to confirm.
LEMMA ReceiveConfirms ==
  ASSUME Typed, Inv, NEW p \in Packet, Receive(p), NEW s,
         s = Noted(DropGone(t), p)
  PROVE  /\ s \in Transfer /\ s.timing # None /\ s.active = t.active
         /\ t' = ConfirmPending(s) /\ caller' = Answered(s, t', "ok")
         /\ s.activation # None =>
              /\ s.pending = s.activation.level
              /\ t.activation # None /\ Listening(t.activation.id)
              /\ s.activation.id = t.activation.id
              /\ s.activation.before = t.activation.before
              /\ s.activation.props =>
                    /\ "GameProperties" \in heard'
                    /\ s.timing.uid = s.activation.level.uid
                    /\ s.activation.before # None => s.timing.at > s.activation.before
              /\ s.activation.playing => "GameState" \in heard' /\ s.gameState = 0
         /\ t.activation # None /\ ~Listening(t.activation.id) => s.pending = None
<1>. DEFINE d == DropGone(t)
<1>1. /\ d \in Transfer /\ d.timing = t.timing /\ d.gameState = t.gameState
      /\ d.active = t.active
      /\ \/ d = t
         \/ /\ t.activation # None /\ ~Listening(t.activation.id)
            /\ d.activation = None /\ d.pending = None
      /\ t.timing # None
  BY DropGoneType, DropGoneEffect DEF Receive, Typed, TypeOK, Transfer
<1>2. /\ d.activation # None => d.activation = t.activation /\ Listening(t.activation.id)
      /\ t.activation # None /\ ~Listening(t.activation.id) => d.pending = None
  BY DropGoneListens, <1>1 DEF Typed, TypeOK, DropGone, CancelActivation, Transfer
<1>3. t' = ConfirmPending(s) /\ caller' = Answered(s, t', "ok")
  BY DEF Receive
<1>. HIDE DEF d
<1>4. s = Noted(d, p)
  BY DEF d
<1>5. /\ s \in Transfer /\ s.pending = d.pending /\ s.active = d.active
      /\ d.activation = None => s.activation = None
      /\ d.activation # None => s.activation # None /\ s.activation.id = d.activation.id
                                 /\ s.activation.level = d.activation.level
                                 /\ s.activation.before = d.activation.before
  BY <1>1, <1>4, NotedType, NotedEffect
<1>6. s.timing # None
  <2>1. CASE p.type = "GameProperties" /\ p.valid
    <3>1. s.timing = [uid |-> p.uid, at |-> p.at] /\ p.uid \in Uid /\ p.at \in 0..MaxLoadedAt
      BY <1>1, <1>4, <2>1 DEF Noted, Transfer, Packet
    <3>. QED BY <3>1, NoneAssumption DEF Timing
  <2>. QED BY <1>1, <1>4, <2>1 DEF Noted, Transfer
<1>7. s.activation # None =>
        /\ s.activation.props =>
              /\ "GameProperties" \in heard'
              /\ s.timing.uid = s.activation.level.uid
              /\ s.activation.before # None => s.timing.at > s.activation.before
        /\ s.activation.playing => "GameState" \in heard' /\ s.gameState = 0
  <2>1. heard \in SUBSET {"GameProperties", "GameState"}
    BY DEF Typed, TypeOK
  <2>2. heard' = IF p.type = "GameState" \/ (p.type = "GameProperties" /\ p.valid)
                 THEN heard \cup {p.type} ELSE heard
    BY DEF Receive
  <2>3. /\ d.activation # None /\ d.activation.props =>
             /\ "GameProperties" \in heard
             /\ d.timing.uid = d.activation.level.uid
             /\ d.activation.before # None => d.timing.at > d.activation.before
        /\ d.activation # None /\ d.activation.playing =>
             "GameState" \in heard /\ d.gameState = 0
    BY <1>1 DEF Inv, FlagsHeard
  <2>. QED BY <1>1, <1>4, <2>1, <2>2, <2>3, NotedFlags
<1>8. ASSUME s.activation # None
      PROVE  /\ s.pending = s.activation.level
             /\ t.activation # None /\ Listening(t.activation.id)
             /\ s.activation.id = t.activation.id
             /\ s.activation.before = t.activation.before
  <2>1. d.activation # None
    BY <1>5, <1>8
  <2>2. d = t /\ Listening(t.activation.id)
    BY <1>1, <1>2, <2>1
  <2>. QED BY <1>5, <2>1, <2>2 DEF Inv, ActivationOwnsPending
<1>9. t.activation # None /\ ~Listening(t.activation.id) => s.pending = None
  BY <1>2, <1>5
<1>. QED BY <1>1, <1>3, <1>5, <1>6, <1>7, <1>8, <1>9

\* The steps that can make a level active.
LEMMA OnlyTwoActivate ==
  ASSUME Typed, [Next]_vars, t'.active \notin {t.active, None}
  PROVE  (\E p \in Packet : Receive(p)) \/ Commit
<1>1. \A level \in Level, playlist \in Playlist \cup {None} :
         Activate(level, playlist) => t'.active = t.active
  <2>. SUFFICES ASSUME NEW level \in Level, NEW playlist \in Playlist \cup {None},
                       Activate(level, playlist)
                PROVE  t'.active = t.active
    OBVIOUS
  <2>1. DropGone(t) \in Transfer /\ DropGone(t).active = t.active
    BY DropGoneType, DropGoneEffect DEF Typed, TypeOK, Transfer
  <2>. QED BY <2>1 DEF Activate, Transfer
<1>2. \A c \in Id : Cancel(c) => t'.active = t.active
  BY DEF Cancel, CancelActivation, Typed, TypeOK, Transfer
<1>3. Close => t'.active = None
  BY DEF Close, Typed, TypeOK, Transfer
<1>4. (\E playlist \in Playlist : PreparePlaylist(playlist)) => t'.active = t.active
  BY DEF PreparePlaylist, Typed, TypeOK, Transfer
<1>5. (\E u \in updates : CommitPlaylist(u) \/ DropPlaylist(u)) => t'.active = t.active
  BY DEF CommitPlaylist, DropPlaylist, Typed, TypeOK, Transfer
<1>6. UNCHANGED t => t'.active = t.active
  OBVIOUS
<1>. QED BY <1>1, <1>2, <1>3, <1>4, <1>5, <1>6
     DEF Next, vars, PacketsSent, Succeed, GiveUp, PrepareWork, TakeWork, Load,
         WorkFails, LoseAuthority

\* Work that finishes makes a level active only between activations.
LEMMA CommitConfirms ==
  ASSUME Typed, Inv, Commit, t'.active \notin {t.active, None}
  PROVE  /\ t.activation = None /\ UNCHANGED caller
         /\ t'.timing # None /\ t'.timing.uid = t'.active.uid /\ t'.gameState = 0
<1>. DEFINE s == [t EXCEPT !.pending = worker.level]
<1>1. t' = Committed(t, worker.level) /\ ~t.closed /\ UNCHANGED caller
  BY DEF Commit, Current
<1>2. t.activation = None /\ t' = ConfirmPending(s)
  BY <1>1 DEF Committed
<1>3. /\ s \in Transfer /\ s.activation = None /\ s.timing = t.timing
      /\ s.active = t.active
  BY <1>2 DEF Typed, TypeOK, Transfer, Worker
<1>. HIDE DEF s
<1>4. s.timing # None /\ t' # s
  BY <1>1, <1>2, <1>3 DEF Typed
<1>. QED BY <1>1, <1>2, <1>3, <1>4, ConfirmIsPlayed

\* A level becomes active only while the server plays it.
THEOREM ActiveOnlyWhenPlayed == Spec => ActiveIsPlayed
<1>. DEFINE Played == t'.active \notin {t.active, None} =>
                        /\ t'.timing # None /\ t'.timing.uid = t'.active.uid
                        /\ t'.gameState = 0
<1>1. Typed /\ Inv /\ [Next]_vars => [Played]_vars
  <2>. SUFFICES ASSUME Typed, Inv, [Next]_vars, t'.active \notin {t.active, None}
                PROVE  /\ t'.timing # None /\ t'.timing.uid = t'.active.uid
                       /\ t'.gameState = 0
    OBVIOUS
  <2>1. CASE \E p \in Packet : Receive(p)
    <3>1. PICK p \in Packet : Receive(p)
      BY <2>1
    <3>. DEFINE s == Noted(DropGone(t), p)
    <3>2. /\ s \in Transfer /\ s.timing # None /\ s.active = t.active
          /\ t' = ConfirmPending(s)
          /\ s.activation # None =>
               /\ s.pending = s.activation.level
               /\ s.activation.props => s.timing.uid = s.activation.level.uid
               /\ s.activation.playing => s.gameState = 0
      BY <3>1, ReceiveConfirms
    <3>. HIDE DEF s
    <3>. QED BY <3>2, ConfirmIsPlayed
  <2>2. CASE Commit
    BY <2>2, CommitConfirms
  <2>. QED BY <2>1, <2>2, OnlyTwoActivate
<1>. QED BY <1>1, Invariance, PTL DEF Spec, ActiveIsPlayed

\* An activation whose caller has gone is never completed.
THEOREM AbandonedIsNeverCompleted == Spec => AbandonedNeverActive
<1>. DEFINE Kept == \A c \in Id :
                      ~Listening(c) /\ t.activation # None /\ t.activation.id = c =>
                         t'.active \in {t.active, None}
<1>1. Typed /\ Inv /\ [Next]_vars => [Kept]_vars
  <2>. SUFFICES ASSUME Typed, Inv, [Next]_vars, t.activation # None,
                       ~Listening(t.activation.id), t'.active \notin {t.active, None}
                PROVE  FALSE
    OBVIOUS
  <2>1. CASE \E p \in Packet : Receive(p)
    <3>1. PICK p \in Packet : Receive(p)
      BY <2>1
    <3>. DEFINE s == Noted(DropGone(t), p)
    <3>2. /\ s \in Transfer /\ s.active = t.active /\ s.pending = None
          /\ t' = ConfirmPending(s)
      BY <3>1, ReceiveConfirms
    <3>. HIDE DEF s
    <3>. QED BY <3>2 DEF ConfirmPending
  <2>2. CASE Commit
    BY <2>2, CommitConfirms
  <2>. QED BY <2>1, <2>2, OnlyTwoActivate
<1>. QED BY <1>1, Invariance, PTL DEF Spec, AbandonedNeverActive

\* A caller is told "ok" only after the reports it waits for.
THEOREM OkIsConfirmed == Spec => ConfirmedSinceAsked
<1>. DEFINE Heard == \A c \in Id :
                       caller'[c].answer = "ok" /\ caller[c].answer = None =>
                         /\ heard' = {"GameProperties", "GameState"}
                         /\ t'.timing.uid = t'.active.uid
                         /\ t.activation.before # None =>
                               t'.timing.at > t.activation.before
                         /\ t'.gameState = 0
<1>1. Typed /\ Inv /\ [Next]_vars => [Heard]_vars
  <2>. SUFFICES ASSUME Typed, Inv, [Next]_vars, NEW c \in Id,
                       caller'[c].answer = "ok", caller[c].answer = None
                PROVE  /\ heard' = {"GameProperties", "GameState"}
                       /\ t'.timing.uid = t'.active.uid
                       /\ t.activation.before # None =>
                             t'.timing.at > t.activation.before
                       /\ t'.gameState = 0
    OBVIOUS
  <2>1. caller \in [Id -> Caller] /\ caller[c] \in Caller /\ None # "ok"
    BY NoneAssumption DEF Typed, TypeOK
  <2>2. \E p \in Packet : Receive(p)
    <3>1. ~UNCHANGED caller
      BY <2>1
    <3>2. \A level \in Level, playlist \in Playlist \cup {None} :
             ~Activate(level, playlist)
      BY <2>1 DEF Activate, Caller
    <3>3. \A d \in Id : ~(PacketsSent(d) \/ Succeed(d) \/ GiveUp(d) \/ Cancel(d))
      BY <2>1 DEF PacketsSent, Succeed, GiveUp, Cancel, Caller
    <3>4. ~Close
      BY <2>1 DEF Close, Answered, Caller
    <3>. QED BY <3>1, <3>2, <3>3, <3>4
         DEF Next, vars, PrepareWork, TakeWork, Load, WorkFails, Commit,
             PreparePlaylist, CommitPlaylist, DropPlaylist, LoseAuthority
  <2>3. PICK p \in Packet : Receive(p)
    BY <2>2
  <2>. DEFINE s == Noted(DropGone(t), p)
  <2>4. /\ s \in Transfer /\ s.timing # None
        /\ t' = ConfirmPending(s) /\ caller' = Answered(s, t', "ok")
        /\ s.activation # None =>
             /\ s.pending = s.activation.level
             /\ s.activation.before = t.activation.before
             /\ s.activation.props =>
                   /\ "GameProperties" \in heard'
                   /\ s.timing.uid = s.activation.level.uid
                   /\ s.activation.before # None => s.timing.at > s.activation.before
             /\ s.activation.playing => "GameState" \in heard' /\ s.gameState = 0
    BY <2>3, ReceiveConfirms
  <2>5. heard' \subseteq {"GameProperties", "GameState"}
    BY <2>3 DEF Receive, Typed, TypeOK
  <2>. HIDE DEF s
  <2>6. s.activation # None /\ t'.activation = None
    BY <2>1, <2>4 DEF Answered
  <2>7. /\ Confirmed(s) /\ ConfirmPending(s) # s
        /\ ConfirmPending(s).timing = s.timing
    BY <2>4, <2>6, ConfirmEffect
  <2>8. s.activation.props /\ s.activation.playing
    BY <2>6, <2>7 DEF Confirmed
  <2>9. t'.timing = s.timing /\ t'.timing.uid = t'.active.uid /\ t'.gameState = 0
    BY <2>4, <2>7, ConfirmIsPlayed
  <2>. QED BY <2>4, <2>5, <2>6, <2>8, <2>9
<1>. QED BY <1>1, Invariance, PTL DEF Spec, ConfirmedSinceAsked

\* The playlist of an older revision never replaces a newer one.
THEOREM NewestPlaylistStays == Spec => PlaylistNeverGoesBack
<1>1. Typed /\ Inv /\ [Next]_vars => [installed' >= installed]_vars
  <2>. SUFFICES ASSUME Typed, Inv, [Next]_vars PROVE installed' >= installed
    OBVIOUS
  <2>1. installed \in Int /\ t.revision \in Int /\ installed <= t.revision
    BY BoundAssumption DEF Typed, TypeOK, Transfer, Revision, Inv
  <2>2. ASSUME NEW level \in Level, NEW playlist \in Playlist \cup {None},
               Activate(level, playlist)
        PROVE  installed' >= installed
    <3>1. DropGone(t) \in Transfer /\ DropGone(t).revision = t.revision
      BY DropGoneType, DropGoneEffect DEF Typed, TypeOK, Transfer
    <3>2. installed' = installed \/ installed' = t.revision + 1
      BY <2>2, <3>1 DEF Activate, Transfer
    <3>. QED BY <2>1, <3>2
  <2>3. ASSUME NEW u \in updates, CommitPlaylist(u)
        PROVE  installed' >= installed
    BY <2>1, <2>3 DEF CommitPlaylist, Installs
  <2>4. CASE UNCHANGED installed
    BY <2>1, <2>4
  <2>. QED BY <2>2, <2>3, <2>4
       DEF Next, vars, PacketsSent, Succeed, GiveUp, Cancel, Receive, PrepareWork,
           TakeWork, Load, WorkFails, Commit, PreparePlaylist, DropPlaylist,
           LoseAuthority, Close
<1>. QED BY <1>1, Invariance, PTL DEF Spec, PlaylistNeverGoesBack
=============================================================================
