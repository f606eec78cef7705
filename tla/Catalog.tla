------------------------------- MODULE Catalog -------------------------------
(* What the panel has been told by the backend, and the layers which follow    *)
(* it: Connect, the choice of a history track, the valid-time view, the        *)
(* caller's permission, layers loaded and re-pointed (plugin.py, layers.py,    *)
(* transitions.py, access.py, core/tracks.py, tasks.py).                       *)
(*                                                                             *)
(* Handlers run on QGIS's main thread, one at a time. A request runs on a      *)
(* worker; its answer is a handler too, delivered whenever the main thread is  *)
(* free, or never when the person cancels the task or the sign-in could not be *)
(* renewed. In between the person goes on: a handler may be called while       *)
(* requests of others are out. A change of the view is written out step by     *)
(* step, because each of its steps may raise.                                  *)
EXTENDS Integers, FiniteSets

CONSTANTS
    Tracks,      \* names of history tracks
    NoTrack,     \* "" in the settings, None as a resolved track
    Backends,    \* API addresses
    Accounts,    \* Google accounts
    Nobody,      \* signed out
    Layers,      \* places for layers in the project
    Absent,      \* no layer in a place
    Dates,       \* valid-time views
    Latest,      \* the one which the program starts with
    Deployments, \* what the backends may answer Connect with
    Projects,    \* what the project file may hold
    Loads,       \* how collections may be loaded: "live", "reading"
    Faults,      \* which calls may fail
    MaxReads     \* bound: requests out at a time

FaultKinds == {"cancel", "upgrade", "check", "repoint", "store", "restore", "disable",
               "unstore"}
Names == Tracks \cup {NoTrack}
Callers == Accounts \cup {Nobody}

\* "" and None are one value, and so are the names of tracks and their records: of a
\* record (core/tracks.py) its name, is_default and archived are kept.
Offers == [names : SUBSET Tracks, archived : SUBSET Tracks, default : Names]
NothingOffered == [names |-> {}, archived |-> {}, default |-> NoTrack]

\* A layer of the project: what its data source names; its edit buffer; "live", "reading"
\* for a read-only copy of a live one, or "dated"; whether it opened, could not be opened,
\* or was disabled; the provider; QGIS's read-only flag, and whether LayerAccess set it.
LayerRecords == [track : Names, url : Backends, date : Dates, edit : {"no", "open", "dirty"},
                 view : {"live", "reading", "dated"}, state : {"open", "broken", "off"},
                 provider : {"oapif", "class"}, readOnly : BOOLEAN, locked : BOOLEAN]
Places == [Layers -> LayerRecords \cup {Absent}]

\* A request remembers what it was made for, and whether the session, the choice of a
\* track (_track_change_serial) and the registry object are still the ones it was made in.
Reads ==
    [kind : {"connect", "track", "pull", "dated", "access"}, track : Names, to : Names,
     url : Backends, who : Callers, session : BOOLEAN, choice : BOOLEAN, same : BOOLEAN]
Swaps ==
    [phase : {"swap", "undo"}, kind : {"track", "date"}, track : Names, to : Names,
     date : Dates, todo : SUBSET Layers, touched : SUBSET Layers, saved : Places,
     was : [url : Backends, track : Names, date : Dates], started : BOOLEAN, unsafe : BOOLEAN]

\* What a layer shows of the data, as far as a change of the view is concerned.
Views == [track : Names, date : Dates, follows : BOOLEAN]

\* A layer as its project is opened: nothing is being edited, the flag which an earlier
\* reader left was given back (_on_project_read), views are marked, and all show one date.
Opened(r) ==
    /\ r.edit = "no" /\ ~r.locked
    /\ r.view # "live" => r.readOnly
    /\ r.view # "dated" => r.date = Latest

ASSUME CatalogAssumption ==
    /\ Latest \in Dates /\ NoTrack \notin Tracks /\ Nobody \notin Accounts
    /\ Absent \notin LayerRecords \cup Swaps \cup Views
    /\ Deployments \subseteq [url : Backends, offer : Offers, native : BOOLEAN]
    /\ \A d \in Deployments : d.offer.archived \subseteq d.offer.names
    /\ \A p \in Projects : p \in Places /\ \A l \in Layers : p[l] # Absent => Opened(p[l])
    /\ Loads \subseteq {"live", "reading"}
    /\ Faults \subseteq FaultKinds
    /\ MaxReads \in Nat

VARIABLES
    settings,   \* api_base_url, track and the as-of date
    who,        \* the account signed in, in this session
    pending,    \* _registry_pending: "no", "yes", or "lost" if what would end it was dropped
    offered,    \* tracks, as the last discovery left them
    registry,   \* the class registry: what it was read for, or Absent
    native,     \* collections: the last list read has class layers
    connected,  \* dock._connected
    access,     \* _write_access, _access_context: where the caller is known to be a
                \* reader, or Absent
    watched,    \* _access_edit_watches
    preview,    \* the track which the open publish preview was opened for, or Absent
    publishing, \* the track which a publish under way was started for, or Absent
    layer,      \* the layers of the project
    reads,      \* requests whose answer was not delivered yet
    swap,       \* transition(): where it is, or Absent
    warned      \* history: "View recovery is incomplete" was said

toldVars == <<offered, registry, native, connected>>
accessVars == <<access, watched>>
publishVars == <<preview, publishing>>
vars == <<settings, who, pending, toldVars, accessVars, publishVars, layer, reads, swap,
          warned>>

TypeOK ==
    /\ settings \in [url : Backends, track : Names, date : Dates]
    /\ who \in Callers
    /\ pending \in {"no", "yes", "lost"} /\ native \in BOOLEAN /\ connected \in BOOLEAN
    /\ offered \in Offers
    /\ registry \in [track : Names, url : Backends, who : Callers] \cup {Absent}
    /\ access \in Backends \cup {Absent}
    /\ watched \subseteq Layers
    /\ preview \in Names \cup {Absent} /\ publishing \in Names \cup {Absent}
    /\ layer \in Places
    /\ reads \subseteq Reads
    /\ swap \in Swaps \cup {Absent}
    /\ warned \in BOOLEAN

-----------------------------------------------------------------------------
(* Tracks (core/tracks.py).                                                 *)

\* Mutant: a track which is not offered is no name at all.
ResolveOrNothing(o, name) ==
    LET wanted == IF name = NoTrack THEN o.default ELSE name
    IN  IF wanted \in o.names THEN wanted ELSE Absent

\* An empty name is the default which the deployment declares, unless it is archived. A
\* name which is not offered is None, and never the default.
\* resolve, default_track, find
Resolve(o, name) ==
    LET wanted == IF name = NoTrack THEN o.default ELSE name
    IN  IF wanted \notin o.names \/ (name = NoTrack /\ wanted \in o.archived)
        THEN NoTrack ELSE wanted

\* current_track, _track_name
CurrentTrack == Resolve(offered, settings.track)

-----------------------------------------------------------------------------
(* Layers (layers.py).                                                      *)

Here(l) == layer[l] # Absent
Follows(r) == r # Absent /\ r.view # "dated"
Belongs(r, url) == r # Absent /\ r.state # "off" /\ r.url = url
Dirty == {l \in Layers : Here(l) /\ layer[l].edit = "dirty"}

\* One which is not open shows nothing.
Visible(r) ==
    IF r = Absent \/ r.state # "open" THEN Absent
    ELSE [track |-> r.track, date |-> r.date, follows |-> r.view # "dated"]
Showing(f) == [l \in Layers |-> Visible(f[l])]

\* Mutant: the flag is left to the new provider.
RepointedOnly(r, track, url, date) ==
    [r EXCEPT !.track = track, !.url = url, !.date = date, !.state = "open", !.edit = "no",
              !.readOnly = FALSE]

\* setDataSource builds the provider anew: the edit buffer is gone, and the read-only flag
\* is what the provider says. The properties of the layer stay; read-only views and
\* pinned layers are marked again.
\* repoint_for, repoint_layer
Repointed(r, track, url, date) ==
    [r EXCEPT !.track = track, !.url = url, !.date = date, !.state = "open", !.edit = "no",
              !.readOnly = (r.view # "live")]

\* create_layer and what load_collections and _add_date_layers do with its result
Created(track, date, view) ==
    [track |-> track, url |-> settings.url, date |-> date, edit |-> "no", view |-> view,
     state |-> "open", provider |-> IF native THEN "class" ELSE "oapif",
     readOnly |-> view # "live", locked |-> FALSE]

-----------------------------------------------------------------------------
(* The caller's permission (access.py).                                     *)

\* _current_write_access
IsReader == access = settings.url

\* Mutant: only those who may write give the flag back.
HeldForGood(r, reader) ==
    IF r = Absent \/ r.view # "live" \/ ~reader \/ r.edit # "no" THEN r
    ELSE [r EXCEPT !.readOnly = TRUE, !.locked = TRUE]

\* A reader's layers are held read-only, by a flag which is taken back when the caller is
\* no longer known to be a reader. A layer being edited is left for its editingStopped.
\* LayerAccess.apply
Held(r, reader) ==
    IF r = Absent THEN r
    ELSE IF r.view # "live" THEN [r EXCEPT !.locked = FALSE]
    ELSE IF reader
         THEN IF r.edit # "no" \/ (~r.locked /\ r.readOnly) THEN r
              ELSE [r EXCEPT !.readOnly = TRUE, !.locked = TRUE]
    ELSE IF r.locked
         THEN [r EXCEPT !.readOnly = (@ /\ r.edit # "no"), !.locked = FALSE]
    ELSE r

AllHeld(f, reader) == [l \in Layers |-> Held(f[l], reader)]

\* Those it left are watched from then on.
Watches(f, reader) ==
    {l \in Layers : reader /\ f[l] # Absent /\ f[l].view = "live" /\ f[l].edit # "no"}

\* _apply_access
ApplyAccess(f, reader) ==
    /\ layer' = AllHeld(f, reader)
    /\ watched' = watched \cup Watches(f, reader)

-----------------------------------------------------------------------------
(* Requests (plugin.py _run_read_task, tasks.py).                           *)

\* The main thread is in no change of the view. After a recovery which stayed incomplete
\* the person is told to remove layers and reconnect; nothing is modelled from there on.
Idle == swap = Absent /\ ~warned

\* The person can reach the window.
Free == Idle /\ preview = Absent

Room == Cardinality(reads) < MaxReads

Read(kind, name, to) ==
    [kind |-> kind, track |-> name, to |-> to, url |-> settings.url, who |-> who,
     session |-> TRUE, choice |-> TRUE, same |-> TRUE]

\* A read belongs to the session it was captured in, and one which was chosen to its choice.
Current(r) == r.session /\ (r.choice \/ r.kind = "access")
\* Requests whose end ends `pending`.
Ends(r) == r.kind \in {"connect", "track", "pull"}
Busy == \E r \in reads : r.kind # "access"

\* What a request was made for does not matter once its answer will be dropped.
Stale(r) == [r EXCEPT !.track = NoTrack, !.to = NoTrack, !.choice = FALSE, !.same = FALSE]

SameChoice(R) == R \* mutant: the serial is not advanced

\* _track_change_serial was advanced; _advance_session, which advances it too, was called;
\* the registry is another object, so that a date view asked for with the old is not added.
Outchosen(R) == {IF r.kind = "access" THEN r ELSE Stale(r) : r \in R}
Ended(R) == {[Stale(r) EXCEPT !.session = FALSE] : r \in R}
Outdated(R) == {[r EXCEPT !.same = (@ /\ r.kind # "dated")] : r \in R}

\* _refresh_access: the permission is asked for unless nobody is signed in.
AccessRead(a) ==
    IF a = Nobody THEN {} ELSE {[Read("access", NoTrack, NoTrack) EXCEPT !.who = a]}

Init ==
    /\ layer \in Projects
    /\ \E u \in Backends, t \in Names : settings = [url |-> u, track |-> t, date |-> Latest]
    /\ who \in Callers
    /\ pending = "no"
    /\ offered = NothingOffered /\ registry = Absent
    /\ native = FALSE /\ connected = FALSE
    /\ access = Absent /\ watched = {}
    /\ preview = Absent /\ publishing = Absent
    /\ reads = {} /\ swap = Absent
    /\ warned = FALSE

-----------------------------------------------------------------------------
(* Connect.                                                                 *)

\* What a request is waited for with: nothing publishes, loads or pulls until it ends.
Wait(before, read) ==
    /\ Room
    /\ pending' = "yes"
    /\ reads' = before \cup {read}

\* connect_backend: the URL in the field is saved first, which ends the session of another.
Connect ==
    \E u \in Backends :
        LET moved == u # settings.url
        IN  /\ Free
            /\ settings' = [settings EXCEPT !.url = u]
            /\ registry' = IF moved THEN Absent ELSE registry
            /\ ApplyAccess(layer, access = u)
            /\ Wait(IF moved THEN Ended(reads) ELSE Outchosen(reads),
                    [Read("connect", settings.track, NoTrack) EXCEPT !.url = u])
            /\ UNCHANGED <<who, offered, native, connected, access, publishVars, swap, warned>>

\* The track whose registry, collections and capabilities Connect reads.
Discovered(o, name) == LET t == Resolve(o, name)
                       IN  IF t # NoTrack THEN t ELSE Resolve(o, NoTrack)

\* Layers of this backend and of the track just read which are due for the class provider.
Upgradable(f, style) ==
    {l \in Layers : /\ Belongs(f[l], settings.url) /\ f[l].track = style
                    /\ f[l].view # "dated" /\ f[l].provider = "oapif" /\ f[l].edit = "no"}

Upgraded(r, track) == [Repointed(r, track, settings.url, settings.date) EXCEPT !.provider = "class"]

Broken(r) == [r EXCEPT !.state = "broken", !.provider = "class"]

Moved(f, track, good, bad) ==
    [l \in Layers |-> IF l \in good THEN Upgraded(f[l], track)
                      ELSE IF l \in bad THEN Broken(f[l]) ELSE f[l]]

\* _apply_current_catalog: with class layers offered, clean layers change provider. One
\* which cannot be opened ends the handler, and the rest keep theirs.
Catalogued(f, style, track, classes, done) ==
    LET due == IF classes THEN Upgradable(f, style) ELSE {}
    IN  \/ done /\ layer' = Moved(f, track, due, {})
        \/ /\ "upgrade" \in Faults /\ ~done
           /\ \E good \in SUBSET due, bad \in due : layer' = Moved(f, track, good \ {bad}, {bad})

\* The request is over, for a task is answered once.
Answered(r) == Idle /\ r \in reads
Rest(r) == reads \ {r}

\* _on_connected: the tracks' auth configs, then everything which was read, then the
\* permission, then the layers.
ConnectAnswered ==
    \E r \in reads, d \in Deployments, reader \in BOOLEAN :
        LET style == Discovered(d.offer, r.track)
            track == Resolve(d.offer, settings.track)
        IN  /\ r.kind = "connect" /\ Current(r) /\ d.url = r.url
            /\ Answered(r) /\ reads' = Outdated(Rest(r))
            /\ pending' = "no"
            /\ offered' = d.offer /\ native' = d.native
            /\ registry' = [track |-> style, url |-> r.url, who |-> r.who]
            /\ access' = IF reader THEN settings.url ELSE Absent
            /\ watched' = watched \cup Watches(layer, reader)
            /\ \E done \in BOOLEAN :
                  /\ Catalogued(AllHeld(layer, reader), style, track, d.native, done)
                  /\ connected' = (connected \/ done)
            /\ UNCHANGED <<settings, who, publishVars, swap, warned>>

\* No auth config could be stored for a track, or a request failed: after discovery the
\* tracks are kept, so that another one can be chosen.
ConnectFailed ==
    \E r \in reads :
        /\ r.kind = "connect" /\ Current(r)
        /\ Answered(r) /\ reads' = Outdated(Rest(r))
        /\ pending' = "no" /\ registry' = Absent /\ connected' = FALSE
        /\ offered' \in {offered} \cup {d.offer : d \in {e \in Deployments : e.url = r.url}}
        /\ UNCHANGED <<settings, who, native, accessVars, publishVars, layer, swap, warned>>

\* An answer which is not current is dropped, and so are both callbacks of a task which
\* the person cancelled or whose renewal failed.
Dropped ==
    \E r \in reads :
        /\ Answered(r) /\ reads' = Rest(r)
        /\ ~Current(r) \/ "cancel" \in Faults
        /\ pending' = IF Current(r) /\ Ends(r) /\ pending = "yes" THEN "lost" ELSE pending
        /\ UNCHANGED <<settings, who, toldVars, accessVars, publishVars, layer, swap, warned>>

-----------------------------------------------------------------------------
(* The choice of a track.                                                   *)

Choices == offered.names \cup {NoTrack}

\* A track is chosen again, or the choice is refused: what was asked for before is not
\* waited for any more.
ChoiceRefused ==
    \E name \in Names :
        /\ Free
        /\ \/ name = settings.track
           \/ Dirty # {}
           \/ name \notin Choices
           \/ publishing # Absent
        /\ reads' = Outchosen(reads)
        /\ pending' = "no"
        /\ UNCHANGED <<settings, who, toldVars, accessVars, publishVars, layer, swap, warned>>

\* Mutant: a publish under way does not matter.
AlwaysChoosable(name) == Free /\ name # settings.track /\ Dirty = {} /\ name \in Choices

Choosable(name) ==
    Free /\ name # settings.track /\ Dirty = {} /\ name \in Choices /\ publishing = Absent

\* Before Connect succeeded there is no registry to move layers with. Connect follows, at
\* once or behind a renewal, which Connect then is the end of.
ChooseUnconnected ==
    \E name \in Names :
        /\ Choosable(name) /\ registry = Absent
        /\ settings' = [settings EXCEPT !.track = name]
        /\ \/ /\ Wait(Outchosen(reads), Read("connect", name, NoTrack))
              /\ ApplyAccess(layer, IsReader)
           \/ /\ pending' = "no"
              /\ reads' = Outchosen(reads)
              /\ UNCHANGED <<layer, watched>>
        /\ UNCHANGED <<who, toldVars, access, publishVars, swap, warned>>

ChooseTrack ==
    \E name \in Names :
        /\ Choosable(name) /\ registry # Absent
        /\ Wait(Outchosen(reads), Read("track", name, Resolve(offered, name)))
        /\ UNCHANGED <<settings, who, toldVars, accessVars, publishVars, layer, swap, warned>>

\* transition() captures the layers it changes and opens a detached copy of each on the
\* new view. Nothing was touched when that fails.
Begin(kind, name, to, date, targets) ==
    swap' = [phase |-> "swap", kind |-> kind, track |-> name, to |-> to, date |-> date,
             todo |-> targets, touched |-> {}, saved |-> layer, was |-> settings,
             started |-> FALSE, unsafe |-> FALSE]

\* Mutant: the edits are looked at when the track is chosen, and not again.
CheckedBefore ==
    \E r \in reads :
        /\ r.kind = "track" /\ Current(r) /\ Answered(r) /\ reads' = Rest(r)
        /\ Begin("track", r.track, r.to, settings.date,
                 {l \in Layers : Belongs(layer[l], settings.url) /\ Follows(layer[l])})
        /\ UNCHANGED <<settings, who, pending, toldVars, accessVars, publishVars, layer, warned>>

\* Editing may have begun while the registry was read.
\* set_track's ready
TrackAnswered ==
    \E r \in reads :
        /\ r.kind = "track" /\ Current(r) /\ Answered(r) /\ reads' = Rest(r)
        /\ \/ /\ Dirty # {} \/ "check" \in Faults
              /\ pending' = "no" /\ UNCHANGED swap
           \/ /\ Dirty = {}
              /\ Begin("track", r.track, r.to, settings.date,
                       {l \in Layers : Belongs(layer[l], settings.url) /\ Follows(layer[l])})
              /\ UNCHANGED pending
        /\ UNCHANGED <<settings, who, toldVars, accessVars, publishVars, layer, warned>>

\* Mutant: a failure says so, and nothing else.
FailedSilently ==
    \E r \in reads :
        /\ r.kind \in {"track", "pull"} /\ Current(r) /\ Answered(r) /\ reads' = Rest(r)
        /\ UNCHANGED <<settings, who, pending, toldVars, accessVars, publishVars, layer, swap, warned>>

\* The registry could not be read; nor could what a refresh asks for.
ReadFailed ==
    \E r \in reads :
        /\ r.kind \in {"track", "pull"} /\ Current(r) /\ Answered(r) /\ reads' = Rest(r)
        /\ pending' = "no"
        /\ UNCHANGED <<settings, who, toldVars, accessVars, publishVars, layer, swap, warned>>

-----------------------------------------------------------------------------
(* The valid-time view.                                                     *)

\* Every layer but a date view, whichever track and backend it is of.
\* apply_as_of
ApplyAsOf ==
    \E date \in Dates :
        /\ Free /\ connected /\ Dirty = {}
        /\ Begin("date", settings.track, CurrentTrack, date, {l \in Layers : Follows(layer[l])})
        /\ UNCHANGED <<settings, who, pending, toldVars, accessVars, publishVars, layer, reads,
                       warned>>

-----------------------------------------------------------------------------
(* transition() (transitions.py).                                           *)

swapRest == <<who, offered, native, connected, publishVars>>
outside == <<registry, accessVars, pending, reads>>

\* Mutant: a layer counts as touched once it was re-pointed.
TouchedAfter ==
    /\ swap # Absent /\ swap.phase = "swap"
    /\ \E l \in swap.todo :
          \/ /\ swap' = [swap EXCEPT !.todo = @ \ {l}, !.touched = @ \cup {l}]
             /\ layer' = [layer EXCEPT ![l] = Repointed(@, swap.to, settings.url, swap.date)]
          \/ /\ "repoint" \in Faults
             /\ swap' = [swap EXCEPT !.phase = "undo"]
             /\ layer' = [layer EXCEPT ![l] = Repointed(@, swap.to, settings.url, swap.date)]
    /\ UNCHANGED <<swapRest, outside, settings, warned>>

\* A layer is touched before it is re-pointed: a provider which raises half way may have
\* replaced its source already.
SwapLayer ==
    /\ swap # Absent /\ swap.phase = "swap"
    /\ \E l \in swap.todo :
          \/ /\ swap' = [swap EXCEPT !.todo = @ \ {l}, !.touched = @ \cup {l}]
             /\ layer' = [layer EXCEPT ![l] = Repointed(@, swap.to, settings.url, swap.date)]
          \/ /\ "repoint" \in Faults
             /\ swap' = [swap EXCEPT !.phase = "undo", !.touched = @ \cup {l}]
             /\ \/ layer' = [layer EXCEPT ![l].state = "broken", ![l].edit = "no"]
                \/ layer' = [layer EXCEPT ![l] = Repointed(@, swap.to, settings.url, swap.date)]
    /\ UNCHANGED <<swapRest, outside, settings, warned>>

Viewed == [settings EXCEPT !.track = swap.track, !.date = swap.date]

\* The settings are the last to change. With them a new track brings its registry, and the
\* permission is asked for again; a new date holds the layers of a reader again.
SwapStored ==
    /\ swap # Absent /\ swap.phase = "swap" /\ swap.todo = {}
    /\ settings' = Viewed
    /\ swap' = Absent
    /\ IF swap.kind = "track"
       THEN /\ registry' = [track |-> swap.to, url |-> settings.url, who |-> who]
            /\ pending' = "no"
            /\ access' = Absent
            /\ ApplyAccess(layer, FALSE)
            /\ reads' = Outdated(reads) \cup AccessRead(who)
       ELSE /\ ApplyAccess(layer, IsReader)
            /\ UNCHANGED <<registry, pending, access, reads>>
    /\ UNCHANGED <<swapRest, warned>>

StoreFailed ==
    /\ swap # Absent /\ swap.phase = "swap" /\ swap.todo = {} /\ "store" \in Faults
    /\ settings' \in {settings, Viewed}
    /\ swap' = [swap EXCEPT !.phase = "undo", !.started = TRUE]
    /\ UNCHANGED <<swapRest, outside, layer, warned>>

\* LayerState.restore; LayerState.disable
Restored(r) == [r EXCEPT !.edit = "no"]
Disabled(r) == [r EXCEPT !.state = "off", !.edit = "no", !.readOnly = TRUE]

\* Each touched layer gets back what it showed, or shows nothing. One which showed
\* nothing before cannot be opened again.
SwapUndone ==
    /\ swap # Absent /\ swap.phase = "undo"
    /\ \E l \in swap.touched :
          \/ /\ swap.saved[l].state = "open"
             /\ layer' = [layer EXCEPT ![l] = Restored(swap.saved[l])]
             /\ swap' = [swap EXCEPT !.touched = @ \ {l}]
          \/ /\ "restore" \in Faults \/ swap.saved[l].state # "open"
             /\ layer' = [layer EXCEPT ![l] = Disabled(@)]
             /\ swap' = [swap EXCEPT !.touched = @ \ {l}]
          \/ /\ "disable" \in Faults
             /\ swap' = [swap EXCEPT !.touched = @ \ {l}, !.unsafe = TRUE]
             /\ UNCHANGED layer
    /\ UNCHANGED <<swapRest, outside, settings, warned>>

\* Settings which were set are set back. The handler which asked for the change is told.
SettingsUndone ==
    /\ swap # Absent /\ swap.phase = "undo" /\ swap.touched = {}
    /\ \/ settings' = swap.was /\ warned' = (warned \/ swap.unsafe)
       \/ /\ swap.started /\ "unstore" \in Faults
          /\ warned' = TRUE
          /\ UNCHANGED settings
    /\ swap' = Absent
    /\ pending' = IF swap.kind = "track" THEN "no" ELSE pending
    /\ UNCHANGED <<swapRest, registry, accessVars, reads, layer>>

Transition == SwapLayer \/ SwapStored \/ StoreFailed \/ SwapUndone \/ SettingsUndone

-----------------------------------------------------------------------------
(* Loading layers.                                                          *)

Loadable == Free /\ pending = "no" /\ registry # Absent /\ (native => CurrentTrack # NoTrack)

\* One layer of a kind is loaded of a backend and track, and held if the caller reads only.
\* load_collections, create_layer
LoadLayer ==
    \E l \in Layers, view \in Loads :
        /\ Loadable /\ ~Here(l)
        /\ \A m \in Layers : ~ /\ Belongs(layer[m], settings.url) /\ layer[m].view = view
                               /\ layer[m].track = CurrentTrack
        /\ ApplyAccess([layer EXCEPT ![l] = Created(CurrentTrack, settings.date, view)],
                       IsReader)
        /\ UNCHANGED <<settings, who, pending, toldVars, access, publishVars, reads, swap,
                       warned>>

Snapshot(l) == \E d \in Dates : layer' = [layer EXCEPT ![l] = Created(CurrentTrack, d, "dated")]

\* A server without class layers needs no request for a date view.
\* _open_date_layers, _add_date_layers
OpenDateLayers ==
    /\ Loadable
    /\ \/ /\ native /\ Room
          /\ reads' = reads \cup {Read("dated", CurrentTrack, CurrentTrack)}
          /\ UNCHANGED layer
       \/ /\ ~native
          /\ \E l \in Layers : ~Here(l) /\ Snapshot(l)
          /\ UNCHANGED reads
    /\ UNCHANGED <<settings, who, pending, toldVars, accessVars, publishVars, swap, warned>>

\* Added only if neither the track, nor the registry, nor a choice under way differs.
DateLayersRead ==
    \E r \in reads, l \in Layers :
        /\ r.kind = "dated" /\ Current(r) /\ Answered(r) /\ reads' = Rest(r)
        /\ IF CurrentTrack = r.to /\ r.same /\ pending = "no"
           THEN ~Here(l) /\ Snapshot(l) ELSE UNCHANGED layer
        /\ UNCHANGED <<settings, who, pending, toldVars, accessVars, publishVars, swap, warned>>

\* pull_all_remote: the number of the choice is not advanced, only waited with.
Pull ==
    /\ Free /\ ~Busy /\ pending = "no" /\ publishing = Absent
    /\ registry # Absent /\ who # Nobody /\ CurrentTrack # NoTrack
    /\ Wait(reads, Read("pull", settings.track, CurrentTrack))
    /\ UNCHANGED <<settings, who, toldVars, accessVars, publishVars, layer, swap, warned>>

\* The layers' own data is read again, which nothing here depends on; those with edits
\* are left.
\* pull_all_remote's ready, _finish_pull_all_remote
PullAnswered ==
    \E r \in reads, d \in Deployments :
        /\ r.kind = "pull" /\ Current(r) /\ r.to = CurrentTrack /\ d.url = r.url
        /\ Answered(r) /\ reads' = Outdated(Rest(r))
        /\ pending' = "no"
        /\ registry' = [track |-> r.to, url |-> r.url, who |-> r.who]
        /\ native' = d.native
        /\ \E done \in BOOLEAN : Catalogued(layer, r.to, CurrentTrack, d.native, done)
        /\ UNCHANGED <<settings, who, offered, connected, accessVars, publishVars, swap, warned>>

-----------------------------------------------------------------------------
(* The account.                                                             *)

\* _store_credential; a person with an open edit session must sign out first.
SignIn ==
    \E a \in Accounts :
        /\ Idle /\ Room
        /\ who \notin {a, Nobody} => \A l \in Layers : Here(l) => layer[l].edit = "no"
        /\ who' = a
        /\ pending' = "no" /\ registry' = Absent
        /\ access' = Absent
        /\ ApplyAccess(layer, FALSE)
        /\ reads' = Ended(reads) \cup AccessRead(a)
        /\ UNCHANGED <<settings, offered, native, connected, publishVars, swap, warned>>

SignOut ==
    /\ Free /\ who # Nobody
    /\ who' = Nobody
    /\ pending' = "no" /\ registry' = Absent
    /\ access' = Absent
    /\ ApplyAccess(layer, FALSE)
    /\ reads' = Ended(reads)
    /\ UNCHANGED <<settings, offered, native, connected, publishVars, swap, warned>>

\* A project was read, or a sign-in renewed.
\* _on_project_read, _refresh_access
RefreshAccess ==
    /\ Idle /\ Room
    /\ access' = Absent
    /\ ApplyAccess(layer, FALSE)
    /\ reads' = reads \cup AccessRead(who)
    /\ UNCHANGED <<settings, who, pending, toldVars, publishVars, swap, warned>>

AccessAnswered ==
    \E r \in reads, reader \in BOOLEAN :
        /\ r.kind = "access" /\ Current(r) /\ Answered(r) /\ reads' = Rest(r)
        /\ access' = IF reader THEN r.url ELSE Absent
        /\ ApplyAccess(layer, reader)
        /\ UNCHANGED <<settings, who, pending, toldVars, publishVars, swap, warned>>

-----------------------------------------------------------------------------
(* The person edits and publishes.                                          *)

\* startEditing is refused for a read-only layer.
Edit ==
    \E l \in Layers :
        /\ Free /\ Here(l) /\ layer[l].state = "open"
        /\ \/ /\ layer[l].edit = "no" /\ ~layer[l].readOnly
              /\ layer' = [layer EXCEPT ![l].edit = "open"]
           \/ /\ layer[l].edit = "open"
              /\ layer' = [layer EXCEPT ![l].edit = "dirty"]
        /\ UNCHANGED <<settings, who, pending, toldVars, accessVars, publishVars, reads, swap,
                       warned>>

\* Saved or discarded. A watched layer has the permission applied once more.
StopEditing ==
    \E l \in Layers :
        LET f == [layer EXCEPT ![l].edit = "no"]
        IN  /\ Free /\ Here(l) /\ layer[l].edit # "no"
            /\ IF l \in watched
               THEN ApplyAccess(f, IsReader)
               ELSE layer' = f /\ UNCHANGED watched
            /\ UNCHANGED <<settings, who, pending, toldVars, access, publishVars, reads, swap,
                           warned>>

\* publish_local_layers up to its preview, a modal dialog: answers are delivered while it is
\* open, and a sign-in may come back from the browser.
\* _require_track
PreviewPublish ==
    /\ Free /\ publishing = Absent /\ registry # Absent /\ pending = "no"
    /\ ~IsReader
    /\ CurrentTrack # NoTrack /\ CurrentTrack \notin offered.archived
    /\ preview' = settings.track
    /\ UNCHANGED <<settings, who, pending, toldVars, accessVars, publishing, layer, reads, swap,
                   warned>>

\* The dialog was rejected, or accepted without a registry, which then raises; or a run of
\* requests starts.
EndPreview ==
    /\ Idle /\ preview # Absent
    /\ preview' = Absent
    /\ \/ UNCHANGED publishing
       \/ registry # Absent /\ publishing' = preview
    /\ UNCHANGED <<settings, who, pending, toldVars, accessVars, layer, reads, swap, warned>>

\* _end_publish; new styles of the classes published make a new registry (_on_published).
EndPublish ==
    /\ Idle /\ publishing # Absent
    /\ publishing' = Absent
    /\ ApplyAccess(layer, IsReader)
    /\ \/ UNCHANGED reads
       \/ registry # Absent /\ reads' = Outdated(reads)
    /\ UNCHANGED <<settings, who, pending, toldVars, access, preview, swap, warned>>

Next ==
    \/ Connect \/ ConnectAnswered \/ ConnectFailed \/ Dropped
    \/ ChoiceRefused \/ ChooseUnconnected \/ ChooseTrack \/ TrackAnswered \/ ReadFailed
    \/ ApplyAsOf \/ Transition
    \/ LoadLayer \/ OpenDateLayers \/ DateLayersRead \/ Pull \/ PullAnswered
    \/ SignIn \/ SignOut \/ RefreshAccess \/ AccessAnswered
    \/ Edit \/ StopEditing \/ PreviewPublish \/ EndPreview \/ EndPublish

Spec == Init /\ [][Next]_vars

-----------------------------------------------------------------------------
(* Properties.                                                              *)

\* The class registry, which styles layers and checks labels, is the one of the track the
\* panel names, read at this address in this session: no late answer, failed change of the
\* track, sign-in, sign-out or other address leaves it with anything else.
RegistryIsCurrent ==
    (Idle /\ registry # Absent) =>
        /\ registry.url = settings.url /\ registry.who = who
        /\ CurrentTrack # NoTrack => registry.track = CurrentTrack

\* _registry_pending stands for a request which will end it, unless that was cancelled or
\* its sign-in could not be renewed.
PendingIsUnderway ==
    (pending = "yes" /\ Idle) => \E r \in reads : Current(r) /\ Ends(r)

\* Nobody is locked out by a permission which is not known to be missing: the plugin's own
\* read-only flag is on a layer only while the caller is known to be a reader.
UnknownIsUnlocked ==
    \A l \in Layers :
        (Here(l) /\ layer[l].locked /\ Idle) => IsReader

\* The track which the preview of a publish named stays the selected one until its run has
\* ended, whatever is answered while the dialog is open.
PublishKeepsTrack ==
    Idle => /\ preview \in {Absent, settings.track}
            /\ publishing \in {Absent, settings.track}

\* Read-only copies and date views cannot be edited, whatever is done to the others.
ViewsStayReadOnly ==
    \A l \in Layers :
        (Here(l) /\ layer[l].view # "live" /\ Idle) => layer[l].readOnly /\ layer[l].edit = "no"

\* No step of the program's own ends an editing session with unsaved edits.
NoEditLost ==
    [][\A l \in Layers : (Here(l) /\ layer[l].edit = "dirty") =>
          \/ layer'[l] # Absent /\ layer'[l].edit = "dirty" /\ layer'[l].track = layer[l].track
          \/ StopEditing /\ layer'[l].edit = "no"]_vars

\* A layer moves to another track only when the person chooses one.
LayersKeepTheirTrack ==
    [][\A l \in Layers : (Here(l) /\ layer'[l] # Absent /\ layer'[l].track # layer[l].track) =>
          swap # Absent /\ swap.kind = "track"]_vars

\* While a change of the view is under way, what counts is what it would go back to.
View == INSTANCE ViewChange WITH
    Nothing <- Absent,
    date <- (IF swap = Absent THEN settings.date ELSE swap.was.date),
    shown <- Showing(IF swap = Absent THEN layer ELSE swap.saved),
    warned <- warned

\* What the person sees is of one track and one date: a change of either reaches all
\* layers that follow it and the settings, or none of them, and where it cannot be undone
\* it says so (transition).
ViewIsWhole == View!Spec
=============================================================================
