---------------------------- MODULE PlaylistTabs ----------------------------
(***************************************************************************)
(* The playlist editor of the web site in several tabs of one browser      *)
(* (packages/web, stores/playlists.ts and playlistDatabase.client.ts).     *)
(* Each tab edits a copy of the playlists and saves it 350 ms later into   *)
(* an IndexedDB database the tabs share; a save tells the other tabs by a  *)
(* BroadcastChannel, and they merge what is stored into their copies.      *)
(*                                                                         *)
(* A version of a playlist is the sequence of the edits that led to it, a  *)
(* negative one being its deletion.  The code compares whole records, and  *)
(* two records differ exactly if their versions do, since every edit       *)
(* stamps the record.                                                      *)
(***************************************************************************)
EXTENDS Integers, FiniteSets, SequencesExt

CONSTANTS
    Tab,
    Playlist,       \* playlist ids
    Initially,      \* the playlists stored at first
    None,           \* no active playlist
    MaxEdits,       \* bound: edits of the user, over all tabs
    MaxFaults,      \* bound: IndexedDB requests that fail and tabs that close
    MaxMail         \* bound: broadcasts waiting in a tab

ASSUME TabsAssumption ==
    /\ None \notin Playlist /\ Initially \subseteq Playlist
    /\ MaxEdits \in Nat /\ MaxFaults \in Nat /\ MaxMail \in Nat \ {0}

VARIABLES
    db,         \* the two object stores: rec, active
    tab,        \* the Pinia store and PlaylistDatabase of each tab
    edits,      \* edits so far
    faults,     \* failures and closings so far
    untold      \* history: tabs a stored save was never broadcast to

tabVars == <<db, tab, edits, faults, untold>>

Version == UNION {[1..n -> (-MaxEdits)..MaxEdits] : n \in 0..MaxEdits + 1}

Absent(v) == v = <<>> \/ Last(v) < 0

\* JSON.stringify of two records is equal.
Same(v, w) == v = w \/ (Absent(v) /\ Absent(w))

Stored == [rec : [Playlist -> Version], active : Playlist \cup {None}]

Nothing == [rec |-> [p \in Playlist |-> <<>>], active |-> None]

\* baseline is PlaylistDatabase.baseline, view the store's playlists and active
\* id, queue the operations chained on saveQueue with job where the first one
\* is, and held what that one carries: the snapshot of a save, the records read
\* for a refresh or a load.
Closed == [life |-> "closed", view |-> Nothing, baseline |-> Nothing.rec, status |-> "idle",
           timer |-> FALSE, queue |-> <<>>, job |-> "none", held |-> Nothing,
           listening |-> FALSE, mail |-> 0]

Listed(rec) == {p \in Playlist : ~Absent(rec[p])}

\* What the active id may fall back to: another playlist, if there is one.
Fallback(rec) == IF Listed(rec) = {} THEN {None} ELSE Listed(rec)

TabsInit ==
    /\ db = [rec |-> [p \in Playlist |-> IF p \in Initially THEN <<0>> ELSE <<>>], active |-> None]
    /\ tab = [t \in Tab |-> Closed]
    /\ edits = 0
    /\ faults = 0
    /\ untold = {}

-----------------------------------------------------------------------------
(* hydrate: a page of the site opens, loads the playlists and subscribes.  *)

Open(t) ==
    /\ tab[t].life = "closed"
    /\ tab' = [tab EXCEPT ![t].life = "loading", ![t].status = "loading"]
    /\ UNCHANGED <<db, edits, faults, untold>>

LoadRead(t) ==
    /\ tab[t].life = "loading"
    /\ tab' = [tab EXCEPT ![t].life = "loaded", ![t].held = db]
    /\ UNCHANGED <<db, edits, faults, untold>>

Hydrate(t) ==
    /\ tab[t].life = "loaded"
    /\ LET stored == tab[t].held
           choices == IF stored.active \in Listed(stored.rec) THEN {stored.active}
                                                              ELSE Fallback(stored.rec)
       IN \E active \in choices :
              tab' = [tab EXCEPT ![t] = [@ EXCEPT !.life = "ready", !.status = "saved",
                                                  !.view = [stored EXCEPT !.active = active],
                                                  !.baseline = stored.rec, !.held = Nothing,
                                                  !.listening = TRUE]]
    /\ UNCHANGED <<db, edits, faults, untold>>

HydrateFails(t) ==
    /\ tab[t].life = "loading"
    /\ faults < MaxFaults
    /\ faults' = faults + 1
    /\ tab' = [tab EXCEPT ![t].life = "ready", ![t].status = "error"]
    /\ UNCHANGED <<db, edits, untold>>

\* The tab is closed.  A save that is stored but not yet finished is broadcast
\* to nobody.
Close(t) ==
    /\ tab[t].life # "closed"
    /\ faults < MaxFaults
    /\ faults' = faults + 1
    /\ untold' = (IF tab[t].job = "stored" THEN {u \in Tab : tab[u].life # "closed"} ELSE untold)
                     \ {t}
    /\ tab' = [tab EXCEPT ![t] = Closed]
    /\ UNCHANGED <<db, edits>>

-----------------------------------------------------------------------------
(* The user's edits.  The editor is shown once the store is hydrated.      *)

\* Mutant: a save that is under way is taken to cover this edit too.
ScheduleSaveUnlessSaving(s) ==
    IF s.status = "saving" THEN s ELSE [s EXCEPT !.status = "saving", !.timer = TRUE]

ScheduleSave(s) == [s EXCEPT !.status = "saving", !.timer = TRUE]

CanEdit(t) == tab[t].life = "ready" /\ edits < MaxEdits

\* What an edit makes of the tab's playlists and active id; every edit schedules
\* a save.
Shows(t, rec, active) ==
    tab' = [tab EXCEPT ![t] = ScheduleSave([tab[t] EXCEPT !.view = [rec |-> rec,
                                                                    active |-> active]])]

\* createPlaylist: a new id, made active.
Create(t, p) ==
    /\ CanEdit(t)
    /\ db.rec[p] = <<>>
    /\ \A u \in Tab : tab[u].view.rec[p] = <<>> /\ tab[u].held.rec[p] = <<>>
    /\ edits' = edits + 1
    /\ Shows(t, [tab[t].view.rec EXCEPT ![p] = <<edits + 1>>], p)
    /\ UNCHANGED <<db, faults, untold>>

Duplicate(t, p) == Listed(tab[t].view.rec) # {} /\ Create(t, p)

Import(t, p) == Create(t, p)

\* renamePlaylist, setRoundLength, setShuffle.
Edit(t, p) ==
    /\ CanEdit(t)
    /\ p \in Listed(tab[t].view.rec)
    /\ edits' = edits + 1
    /\ Shows(t, [tab[t].view.rec EXCEPT ![p] = Append(@, edits + 1)], tab[t].view.active)
    /\ UNCHANGED <<db, faults, untold>>

\* addLevel, which makes a playlist if none is active.
AddLevel(t, p) ==
    IF tab[t].view.active = None THEN Create(t, p) ELSE p = tab[t].view.active /\ Edit(t, p)

\* addStoredLevel, removeLevel, moveLevel, setLevelOrder.
EditLevels(t, p) == p = tab[t].view.active /\ Edit(t, p)

Delete(t, p) ==
    /\ CanEdit(t)
    /\ p \in Listed(tab[t].view.rec)
    /\ edits' = edits + 1
    /\ LET rec == [tab[t].view.rec EXCEPT ![p] = Append(@, -(edits + 1))]
           choices == IF tab[t].view.active = p THEN Fallback(rec) ELSE {tab[t].view.active}
       IN \E active \in choices : Shows(t, rec, active)
    /\ UNCHANGED <<db, faults, untold>>

SetActive(t, p) ==
    /\ CanEdit(t)
    /\ p \in Listed(tab[t].view.rec)
    /\ edits' = edits + 1
    /\ Shows(t, tab[t].view.rec, p)
    /\ UNCHANGED <<db, faults, untold>>

-----------------------------------------------------------------------------
(* The queue of a tab: saves and refreshes, one at a time.                 *)

\* persistNow, when the timer fires.
PersistNow(t) ==
    /\ tab[t].timer
    /\ tab' = [tab EXCEPT ![t].timer = FALSE, ![t].queue = Append(@, "save")]
    /\ UNCHANGED <<db, edits, faults, untold>>

\* synchronize, when a broadcast arrives.
Synchronize(t) ==
    /\ tab[t].mail > 0
    /\ tab' = [tab EXCEPT ![t].mail = @ - 1, ![t].queue = Append(@, "refresh")]
    /\ UNCHANGED <<db, edits, faults, untold>>

Next1(t, operation) == tab[t].queue # <<>> /\ Head(tab[t].queue) = operation

Ended(s) == [s EXCEPT !.queue = Tail(@), !.job = "none", !.held = Nothing]

\* database.save(snapshot()): the snapshot is taken when the save's turn comes.
SaveBegins(t) ==
    /\ Next1(t, "save") /\ tab[t].job = "none"
    /\ tab' = [tab EXCEPT ![t].job = "saving", ![t].held = tab[t].view]
    /\ UNCHANGED <<db, edits, faults, untold>>

Changed(s) == {p \in Playlist : ~Same(s.baseline[p], s.held.rec[p])}

\* What another tab has stored since this one last read it.
Conflicts(s) == {p \in Changed(s) : ~Same(db.rec[p], s.baseline[p])}

\* The readwrite transaction: compare, write and commit, in one go.
SaveStores(t) ==
    /\ tab[t].job = "saving"
    /\ Conflicts(tab[t]) = {}
    /\ db' = [rec |-> [p \in Playlist |-> IF p \in Changed(tab[t]) THEN tab[t].held.rec[p]
                                                                    ELSE db.rec[p]],
              active |-> tab[t].held.active]
    /\ tab' = [tab EXCEPT ![t].job = "stored"]
    /\ UNCHANGED <<edits, faults, untold>>

\* The transaction finds a conflict, or the database fails; it is aborted.
SaveAborts(t) ==
    /\ tab[t].job = "saving"
    /\ \/ Conflicts(tab[t]) # {} /\ UNCHANGED faults
       \/ faults < MaxFaults /\ faults' = faults + 1
    /\ tab' = [tab EXCEPT ![t] = [Ended(@) EXCEPT !.status = "error"]]
    /\ UNCHANGED <<db, edits, untold>>

\* Mutant: the tab that saved is not told.
ToldOthers(t) == {u \in Tab \ {t} : tab[u].listening}

\* Who receives the broadcast of t's save: every subscribed tab, t included,
\* since it posts on a channel of its own.
Told(t) == {u \in Tab : tab[u].listening}

\* save resumes after `await done`: the new baseline, the broadcast, the status.
SaveEnds(t) ==
    /\ tab[t].job = "stored"
    /\ \A u \in Told(t) : tab[u].mail < MaxMail
    /\ tab' = [u \in Tab |->
                  LET s == IF u # t THEN tab[u]
                           ELSE [Ended(tab[t]) EXCEPT !.baseline = tab[t].held.rec,
                                                      !.status = "saved"]
                  IN IF u \in Told(t) THEN [s EXCEPT !.mail = @ + 1] ELSE s]
    /\ untold' = untold \cup {u \in Tab : tab[u].life = "loaded"}
    /\ UNCHANGED <<db, edits, faults>>

\* A refresh is skipped in the error state.
RefreshSkipped(t) ==
    /\ Next1(t, "refresh") /\ tab[t].job = "none"
    /\ tab[t].status = "error"
    /\ tab' = [tab EXCEPT ![t] = Ended(@)]
    /\ UNCHANGED <<db, edits, faults, untold>>

RefreshBegins(t) ==
    /\ Next1(t, "refresh") /\ tab[t].job = "none"
    /\ tab[t].status # "error"
    /\ tab' = [tab EXCEPT ![t].job = "reading"]
    /\ UNCHANGED <<db, edits, faults, untold>>

RefreshReads(t) ==
    /\ tab[t].job = "reading"
    /\ tab' = [tab EXCEPT ![t].job = "read", ![t].held = db]
    /\ untold' = untold \ {t}
    /\ UNCHANGED <<db, edits, faults>>

RefreshFails(t) ==
    /\ tab[t].job = "reading"
    /\ faults < MaxFaults
    /\ faults' = faults + 1
    /\ tab' = [tab EXCEPT ![t] = [Ended(@) EXCEPT !.status = "error"]]
    /\ UNCHANGED <<db, edits, untold>>

\* Mutant: only the playlists this tab still has can be pending.
PendingListed(s) == {p \in Listed(s.view.rec) : ~Same(s.baseline[p], s.view.rec[p])}

\* The records with local edits that are not saved yet.
Pending(s) == {p \in Playlist : ~Same(s.baseline[p], s.view.rec[p])}

\* Mutant: the baseline follows the database whatever is pending.
RebasedAll(s) == s.held.rec

\* The baseline after a refresh: what was read, except for pending records.
Rebased(s) == [p \in Playlist |-> IF p \in Pending(s) THEN s.baseline[p] ELSE s.held.rec[p]]

\* refresh resumes with the local state as it is by now, and synchronize
\* assigns what it returns.
RefreshEnds(t) ==
    /\ tab[t].job = "read"
    /\ LET s == tab[t]
           merged == [p \in Playlist |-> IF p \in Pending(s) THEN s.view.rec[p] ELSE s.held.rec[p]]
           choices == IF s.view.active \in Listed(merged) THEN {s.view.active}
                      ELSE IF s.held.active \in Listed(merged) THEN {s.held.active}
                      ELSE Fallback(merged)
       IN \E active \in choices :
              tab' = [tab EXCEPT ![t] = [Ended(s) EXCEPT !.baseline = Rebased(s),
                                                         !.view = [rec |-> merged,
                                                                   active |-> active]]]
    /\ UNCHANGED <<db, edits, faults, untold>>

-----------------------------------------------------------------------------

\* What the browser and the event loop do of their own accord.
Work(t) ==
    \/ LoadRead(t) \/ Hydrate(t)
    \/ PersistNow(t) \/ Synchronize(t)
    \/ SaveBegins(t) \/ SaveStores(t) \/ SaveEnds(t)
    \/ tab[t].job = "saving" /\ Conflicts(tab[t]) # {} /\ SaveAborts(t)
    \/ RefreshSkipped(t) \/ RefreshBegins(t) \/ RefreshReads(t) \/ RefreshEnds(t)

TabStep(t) ==
    \/ Open(t) \/ LoadRead(t) \/ Hydrate(t) \/ HydrateFails(t) \/ Close(t)
    \/ \E p \in Playlist :
          \/ Create(t, p) \/ Duplicate(t, p) \/ Import(t, p) \/ Delete(t, p)
          \/ Edit(t, p) \/ AddLevel(t, p) \/ EditLevels(t, p) \/ SetActive(t, p)
    \/ PersistNow(t) \/ Synchronize(t)
    \/ SaveBegins(t) \/ SaveStores(t) \/ SaveAborts(t) \/ SaveEnds(t)
    \/ RefreshSkipped(t) \/ RefreshBegins(t) \/ RefreshReads(t) \/ RefreshFails(t)
    \/ RefreshEnds(t)

TabsNext == \E t \in Tab : TabStep(t)

TabsSpec == TabsInit /\ [][TabsNext]_tabVars

TabsFairness == \A t \in Tab : WF_tabVars(Work(t))

TabsFairSpec == TabsSpec /\ TabsFairness

-----------------------------------------------------------------------------

TabsTypeOK ==
    /\ db \in Stored
    /\ edits \in 0..MaxEdits /\ faults \in 0..MaxFaults
    /\ untold \subseteq Tab

\* w keeps the edits of v, if there is a playlist left to hold them.
Extends(w, v) == IsPrefix(v, w) \/ (Absent(v) /\ Absent(w))

\* A save only ever extends the version it replaces: the edits another tab has
\* stored are never overwritten by a tab that has not seen them.
NoEditOverwritten == [][\A p \in Playlist : Extends(db'.rec[p], db.rec[p])]_tabVars

\* What the user sees of a playlist never loses an edit: merging the stored
\* playlists in keeps the edits made while they were being read.
NoEditDropped ==
    [][\A t \in Tab : tab[t].life = "ready" /\ tab'[t].life = "ready" =>
           \A p \in Playlist : Extends(tab'[t].view.rec[p], tab[t].view.rec[p])]_tabVars

AtRest(t) ==
    /\ tab[t].listening /\ tab[t].status = "saved" /\ ~tab[t].timer
    /\ tab[t].queue = <<>> /\ tab[t].mail = 0
    /\ \A u \in Tab : tab[u].job # "stored"

\* A tab at rest that shows "saved" shows what is stored, unless the broadcast
\* of a save did not go out to it.
SavedIsCurrent ==
    \A t \in Tab : AtRest(t) /\ t \notin untold =>
        \A p \in Playlist : Same(tab[t].view.rec[p], db.rec[p])

Unsaved(t, p) == tab[t].life = "ready" /\ ~Extends(db.rec[p], tab[t].view.rec[p])

\* Every edit is stored in the end, unless the tab shows an error or is closed.
EditSettles ==
    \A t \in Tab, p \in Playlist : Unsaved(t, p) ~> ~Unsaved(t, p) \/ tab[t].status = "error"
=============================================================================
