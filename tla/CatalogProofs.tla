---------------------------- MODULE CatalogProofs ----------------------------
(* Theorems about Catalog: its type correctness, and what the panel knows of  *)
(* the backend, for any numbers of addresses, tracks, layers, accounts and    *)
(* requests, and any faults of a change of the view.                          *)
EXTENDS Catalog, TLAPS

\* A change of the view touches layers which are there, and were there.
Targets ==
    swap # Absent => \A l \in swap.todo \cup swap.touched :
                        layer[l] # Absent /\ swap.saved[l] # Absent

\* The settings, or those which a change of the view that fails goes back to.
Kept == IF swap = Absent THEN settings ELSE swap.was

\* A request of this session was made for this address and account. While its answer would
\* still be used, the selected track is the one which Connect reads; a track that is read
\* is resolved by the present list of tracks, and nothing publishes; and the panel waits.
ReadIsOfNow(r) ==
    /\ r.session => r.url = settings.url /\ r.who = who
    /\ Current(r) /\ r.kind = "connect" => r.track = Kept.track
    /\ Current(r) /\ r.kind = "track" =>
          r.to = Resolve(offered, r.track) /\ preview = Absent /\ publishing = Absent
    /\ Current(r) /\ Ends(r) => pending # "no"

\* At most one request will end the wait.
OneWait == \A r, s \in reads : Current(r) /\ Ends(r) /\ Current(s) /\ Ends(s) => r = s
Requests == OneWait /\ \A r \in reads : ReadIsOfNow(r)

\* A change of the view stays at the address; one of the date stays on the track. One of
\* the track began with nothing else to wait for, and nothing published.
ChangeIsAlone ==
    swap # Absent =>
        /\ swap.was.url = settings.url
        /\ swap.kind = "date" => swap.track = swap.was.track
        /\ swap.kind = "track" =>
              /\ swap.to = Resolve(offered, swap.track)
              /\ preview = Absent /\ publishing = Absent
              /\ \A r \in reads : Ends(r) => ~Current(r)

RegistryKept ==
    registry # Absent =>
        /\ registry.url = settings.url /\ registry.who = who
        /\ Resolve(offered, Kept.track) # NoTrack => registry.track = Resolve(offered, Kept.track)

TrackKept == preview \in {Absent, Kept.track} /\ publishing \in {Absent, Kept.track}

WaitsForSomething ==
    pending = "yes" => \/ \E r \in reads : Current(r) /\ Ends(r)
                       \/ swap # Absent /\ swap.kind = "track"

\* The plugin's own flag is on a reader's layers only; views are marked, and not edited.
LayerKept(r) ==
    r # Absent => /\ r.locked => IsReader
                  /\ r.view # "live" => r.readOnly /\ r.edit = "no"
LayersKept == \A l \in Layers : LayerKept(layer[l]) /\ (swap # Absent => LayerKept(swap.saved[l]))

Known == Requests /\ ChangeIsAlone /\ RegistryKept /\ TrackKept /\ WaitsForSomething /\ LayersKept

\* Nothing is promised after a recovery which stayed incomplete.
CatalogInv == TypeOK /\ Targets /\ (warned => swap = Absent) /\ (~warned => Known)

-----------------------------------------------------------------------------
USE DEF toldVars, accessVars, publishVars

\* What a helper does to the requests that are out.
LEMMA OutchosenReads ==
    ASSUME NEW R \in SUBSET Reads
    PROVE  /\ Outchosen(R) \subseteq Reads
           /\ \A x \in Outchosen(R) : Ends(x) => ~Current(x)
           /\ \A x \in Outchosen(R) : \E r \in R :
                 x.kind = r.kind /\ x.session = r.session /\ x.url = r.url /\ x.who = r.who
BY DEF Outchosen, Stale, Reads, Names, Current, Ends

\* Requests of an ended session are of no session, and stay requests.
LEMMA EndedReads ==
    ASSUME NEW R \in SUBSET Reads
    PROVE  Ended(R) \subseteq Reads /\ \A x \in Ended(R) : ~x.session
BY DEF Ended, Stale, Reads, Names

\* A new registry object changes requests for date views only.
LEMMA OutdatedReads ==
    ASSUME NEW R \in SUBSET Reads
    PROVE  /\ Outdated(R) \subseteq Reads
           /\ \A r \in R : r.kind # "dated" => r \in Outdated(R)
           /\ \A x \in Outdated(R) : x.kind # "dated" => x \in R
           /\ \A x \in Outdated(R) : \E r \in R :
                 x.kind = r.kind /\ x.session = r.session /\ x.url = r.url /\ x.who = r.who
<1> DEFINE out(r) == [r EXCEPT !.same = (@ /\ r.kind # "dated")]
<1>1. \A r \in R : /\ out(r) \in Reads
                   /\ r.kind # "dated" => out(r) = r
  BY DEF Reads
<1>2. Outdated(R) = {out(r) : r \in R}
  BY DEF Outdated
<1>3. \A r \in R : LET x == out(r)
                   IN  x.kind = r.kind /\ x.session = r.session /\ x.url = r.url /\ x.who = r.who
  BY DEF Reads
<1> HIDE DEF out
<1>4. \A x \in Outdated(R) : \E r \in R : x = out(r)
  BY <1>2
<1>5. \A r \in R : out(r) \in Outdated(R)
  BY <1>2
<1>6. \A x \in Outdated(R) : x \in Reads /\ (x.kind # "dated" => x \in R)
  BY <1>1, <1>3, <1>4
<1>7. \A r \in R : r.kind # "dated" => r \in Outdated(R)
  BY <1>1, <1>5
<1>8. \A x \in Outdated(R) : \E r \in R :
         x.kind = r.kind /\ x.session = r.session /\ x.url = r.url /\ x.who = r.who
  BY <1>3, <1>4
<1> QED
  BY <1>6, <1>7, <1>8

\* A request which is made is a request.
LEMMA ReadIsTyped ==
    ASSUME TypeOK, NEW kind \in {"connect", "track", "pull", "dated", "access"},
           NEW name \in Names, NEW to \in Names
    PROVE  Read(kind, name, to) \in Reads
BY DEF TypeOK, Read, Reads

\* A track which is resolved is a name.
LEMMA NamesAreTyped ==
    ASSUME NEW o \in Offers, NEW name \in Names
    PROVE  Resolve(o, name) \in Names
BY DEF Offers, Names, Resolve

\* What a helper does to a layer.
LEMMA HeldIsTyped ==
    ASSUME NEW f \in Places, NEW reader \in BOOLEAN
    PROVE  AllHeld(f, reader) \in Places
<1>1. ASSUME NEW r \in LayerRecords
      PROVE  Held(r, reader) \in LayerRecords
  <2>1. (r.readOnly /\ r.edit # "no") \in BOOLEAN
    OBVIOUS
  <2>2. \A x, y \in BOOLEAN : [r EXCEPT !.readOnly = x, !.locked = y] \in LayerRecords
    BY DEF LayerRecords
  <2>3. [r EXCEPT !.locked = FALSE] \in LayerRecords
    BY DEF LayerRecords
  <2> QED
    BY <2>1, <2>2, <2>3 DEF Held
<1>2. Held(Absent, reader) = Absent
  BY DEF Held
<1> QED
  BY <1>1, <1>2 DEF AllHeld, Places

\* A layer which was re-pointed is a layer.
LEMMA RepointedIsTyped ==
    ASSUME NEW r \in LayerRecords, NEW track \in Names, NEW url \in Backends, NEW date \in Dates
    PROVE  Repointed(r, track, url, date) \in LayerRecords
BY DEF LayerRecords, Repointed

\* So is one which was created.
LEMMA CreatedIsTyped ==
    ASSUME TypeOK, NEW track \in Names, NEW date \in Dates, NEW view \in {"live", "reading", "dated"}
    PROVE  Created(track, date, view) \in LayerRecords
BY DEF TypeOK, LayerRecords, Created

\* What _apply_current_catalog makes of a layer: nothing, the class provider's layer, or
\* one which could not be opened.
LEMMA CataloguedLayers ==
    ASSUME TypeOK, NEW f \in Places, NEW style, NEW track \in Names, NEW classes, NEW done,
           Catalogued(f, style, track, classes, done)
    PROVE  /\ layer' \in Places
           /\ \A l \in Layers : \/ layer'[l] = f[l]
                                \/ /\ f[l] # Absent
                                   /\ layer'[l] \in {Upgraded(f[l], track), Broken(f[l])}
<1> DEFINE due == IF classes THEN Upgradable(f, style) ELSE {}
<1>1. \A l \in due : l \in Layers /\ f[l] # Absent
  BY DEF Upgradable, Belongs
<1>2. \A r \in LayerRecords : /\ Upgraded(r, track) \in LayerRecords
                              /\ Broken(r) \in LayerRecords
  BY DEF TypeOK, Upgraded, Repointed, Broken, LayerRecords
<1>3. \E good, bad \in SUBSET due : layer' = Moved(f, track, good, bad)
  <2>1. CASE layer' = Moved(f, track, due, {})
    BY <2>1
  <2>2. ASSUME NEW good \in SUBSET due, NEW bad \in due,
               layer' = Moved(f, track, good \ {bad}, {bad})
        PROVE  \E g, b \in SUBSET due : layer' = Moved(f, track, g, b)
    BY <2>2
  <2> QED
    BY <2>1, <2>2 DEF Catalogued
<1> HIDE DEF due
<1>4. PICK good, bad \in SUBSET due : layer' = Moved(f, track, good, bad)
  BY <1>3
<1>5. \A l \in Layers :
         layer'[l] = IF l \in good THEN Upgraded(f[l], track)
                     ELSE IF l \in bad THEN Broken(f[l]) ELSE f[l]
  BY <1>4 DEF Moved
<1>6. ASSUME NEW l \in Layers
      PROVE  layer'[l] \in LayerRecords \cup {Absent}
  BY <1>1, <1>2, <1>5 DEF Places
<1>7. layer' \in Places
  BY <1>4, <1>6 DEF Places, Moved
<1> QED
  BY <1>1, <1>5, <1>7

-----------------------------------------------------------------------------
(* Type correctness.                                                        *)

\* Every variable has its type to begin with.
LEMMA TypeInit == Init => TypeOK
<1> SUFFICES ASSUME Init PROVE TypeOK
  OBVIOUS
<1>1. settings \in [url : Backends, track : Names, date : Dates]
  BY CatalogAssumption DEF Init
<1>2. offered \in Offers
  BY DEF Init, NothingOffered, Offers, Names
<1>3. layer \in Places
  BY CatalogAssumption DEF Init
<1> QED
  BY <1>1, <1>2, <1>3 DEF Init, TypeOK

\* What is made of the requests that are out are requests.
LEMMA RequestTypes ==
    ASSUME TypeOK
    PROVE  /\ Outchosen(reads) \subseteq Reads /\ Ended(reads) \subseteq Reads
           /\ Outdated(reads) \subseteq Reads
           /\ \A r \in reads : Rest(r) \subseteq Reads /\ Outdated(Rest(r)) \subseteq Reads
           /\ \A a \in Callers : AccessRead(a) \subseteq Reads
<1>1. reads \subseteq Reads /\ \A r \in reads : Rest(r) \subseteq Reads
  BY DEF TypeOK, Rest
<1>2. ASSUME NEW a \in Callers
      PROVE  AccessRead(a) \subseteq Reads
  <2>1. Read("access", NoTrack, NoTrack) \in Reads
    BY ReadIsTyped DEF Names
  <2> QED
    BY <2>1 DEF AccessRead, Reads
<1> QED
  BY <1>1, <1>2, OutchosenReads, EndedReads, OutdatedReads

\* Applying a permission leaves layers.
LEMMA PermissionTypes ==
    ASSUME TypeOK, NEW f \in Places, NEW reader \in BOOLEAN, ApplyAccess(f, reader)
    PROVE  layer' \in Places /\ watched' \subseteq Layers
BY HeldIsTyped DEF TypeOK, ApplyAccess, Watches

\* The selected track is a name, or none.
LEMMA CurrentTrackType == TypeOK => CurrentTrack \in Names
BY NamesAreTyped DEF TypeOK, CurrentTrack

\* A change of the view begins as one.
LEMMA BeginTypes ==
    ASSUME TypeOK, NEW kind \in {"track", "date"}, NEW name \in Names, NEW to \in Names,
           NEW date \in Dates, NEW targets \in SUBSET Layers, Begin(kind, name, to, date, targets)
    PROVE  swap' \in Swaps
BY DEF TypeOK, Begin, Swaps

\* A change of the view that goes on is the same change.
SameChange(s, t) == /\ t.kind = s.kind /\ t.track = s.track /\ t.to = s.to /\ t.date = s.date
                    /\ t.was = s.was /\ t.saved = s.saved

LEMMA ChangeGoesOn ==
    ASSUME TypeOK, SwapLayer \/ StoreFailed \/ SwapUndone
    PROVE  /\ swap \in Swaps /\ swap' \in Swaps /\ swap # Absent /\ swap' # Absent
           /\ SameChange(swap, swap')
           /\ settings'.url = settings.url
           /\ settings' \in [url : Backends, track : Names, date : Dates]
           /\ UNCHANGED <<swapRest, outside, warned>>
<1>1. swap \in Swaps /\ swap # Absent
  BY DEF TypeOK, SwapLayer, StoreFailed, SwapUndone
<1>2. \A T, U \in SUBSET Layers :
         /\ [swap EXCEPT !.todo = T, !.touched = U] \in Swaps
         /\ [swap EXCEPT !.phase = "undo", !.touched = U] \in Swaps
         /\ [swap EXCEPT !.phase = "undo", !.started = TRUE] \in Swaps
         /\ [swap EXCEPT !.touched = U] \in Swaps
         /\ [swap EXCEPT !.touched = U, !.unsafe = TRUE] \in Swaps
  BY <1>1 DEF Swaps
<1>3. CASE SwapLayer
  <2>1. PICK l \in swap.todo :
            \/ swap' = [swap EXCEPT !.todo = @ \ {l}, !.touched = @ \cup {l}]
            \/ swap' = [swap EXCEPT !.phase = "undo", !.touched = @ \cup {l}]
    BY <1>3 DEF SwapLayer
  <2>2. swap.todo \ {l} \in SUBSET Layers /\ swap.touched \cup {l} \in SUBSET Layers
    BY <1>1 DEF Swaps
  <2>3. swap' \in Swaps
    BY <1>2, <2>1, <2>2
  <2>4. SameChange(swap, swap')
    BY <1>1, <2>1 DEF Swaps, SameChange
  <2> QED
    BY <1>1, <1>3, <2>3, <2>4, CatalogAssumption DEF TypeOK, SwapLayer
<1>4. CASE StoreFailed
  <2>1. swap' \in Swaps /\ SameChange(swap, swap')
    <3>1. swap' = [swap EXCEPT !.phase = "undo", !.started = TRUE]
      BY <1>4 DEF StoreFailed
    <3>2. swap' \in Swaps
      BY <1>2, <3>1
    <3> QED
      BY <1>1, <3>1, <3>2 DEF Swaps, SameChange
  <2>2. settings' \in [url : Backends, track : Names, date : Dates] /\ settings'.url = settings.url
    BY <1>1, <1>4 DEF TypeOK, StoreFailed, Viewed, Swaps
  <2> QED
    BY <1>1, <1>4, <2>1, <2>2, CatalogAssumption DEF StoreFailed
<1>5. CASE SwapUndone
  <2>1. PICK l \in swap.touched :
            \/ swap' = [swap EXCEPT !.touched = @ \ {l}]
            \/ swap' = [swap EXCEPT !.touched = @ \ {l}, !.unsafe = TRUE]
    BY <1>5 DEF SwapUndone
  <2>2. swap.touched \ {l} \in SUBSET Layers
    BY <1>1 DEF Swaps
  <2>3. swap' \in Swaps
    BY <1>2, <2>1, <2>2
  <2>4. SameChange(swap, swap')
    BY <1>1, <2>1 DEF Swaps, SameChange
  <2> QED
    BY <1>1, <1>5, <2>3, <2>4, CatalogAssumption DEF TypeOK, SwapUndone
<1> QED
  BY <1>3, <1>4, <1>5

\* Every step keeps the types, and a change of the view its layers.
LEMMA TypeStep == TypeOK /\ Targets /\ [Next]_vars => TypeOK'
<1> SUFFICES ASSUME TypeOK, Targets, [Next]_vars PROVE TypeOK'
  OBVIOUS
<1>1. CASE Connect
  <2>1. PICK u \in Backends :
            /\ settings' = [settings EXCEPT !.url = u]
            /\ registry' \in {Absent, registry}
            /\ ApplyAccess(layer, access = u)
            /\ Wait(IF u # settings.url THEN Ended(reads) ELSE Outchosen(reads),
                    [Read("connect", settings.track, NoTrack) EXCEPT !.url = u])
    BY <1>1 DEF Connect
  <2>2. settings' \in [url : Backends, track : Names, date : Dates]
    BY <2>1 DEF TypeOK
  <2>3. [Read("connect", settings.track, NoTrack) EXCEPT !.url = u] \in Reads
    BY DEF TypeOK, Read, Reads, Names
  <2>4. reads' \subseteq Reads /\ pending' = "yes"
    BY <2>1, <2>3, RequestTypes DEF Wait
  <2>5. layer' \in Places /\ watched' \subseteq Layers
    BY <2>1, PermissionTypes DEF TypeOK
  <2> QED
    BY <1>1, <2>1, <2>2, <2>4, <2>5 DEF TypeOK, Connect
<1>2. CASE ConnectAnswered
  <2> DEFINE style(d, r) == Discovered(d.offer, r.track)
             track(d) == Resolve(d.offer, settings.track)
  <2>1. PICK r \in reads, d \in Deployments, reader \in BOOLEAN, done \in BOOLEAN :
            /\ reads' = Outdated(Rest(r))
            /\ pending' = "no" /\ offered' = d.offer /\ native' = d.native
            /\ registry' = [track |-> style(d, r), url |-> r.url, who |-> r.who]
            /\ access' = IF reader THEN settings.url ELSE Absent
            /\ watched' = watched \cup Watches(layer, reader)
            /\ Catalogued(AllHeld(layer, reader), style(d, r), track(d), d.native, done)
            /\ connected' = (connected \/ done)
            /\ UNCHANGED <<settings, who, publishVars, swap, warned>>
    BY <1>2 DEF ConnectAnswered
  <2>2. r \in Reads /\ d \in [url : Backends, offer : Offers, native : BOOLEAN]
    BY CatalogAssumption DEF TypeOK
  <2>3. style(d, r) \in Names /\ track(d) \in Names
    BY <2>2, NamesAreTyped DEF TypeOK, Reads, Discovered, Names
  <2>4. registry' \in [track : Names, url : Backends, who : Callers]
    BY <2>1, <2>2, <2>3 DEF Reads
  <2>5. AllHeld(layer, reader) \in Places
    BY HeldIsTyped DEF TypeOK
  <2>6. layer' \in Places
    BY <2>1, <2>3, <2>5, CataloguedLayers
  <2>7. watched' \subseteq Layers
    BY <2>1 DEF TypeOK, Watches
  <2>8. reads' \subseteq Reads
    BY <2>1, RequestTypes
  <2>9. connected' \in BOOLEAN /\ access' \in Backends \cup {Absent}
    BY <2>1 DEF TypeOK
  <2> QED
    BY <2>1, <2>2, <2>4, <2>6, <2>7, <2>8, <2>9 DEF TypeOK
<1>3. CASE ConnectFailed
  <2>1. PICK r \in reads :
            /\ reads' = Outdated(Rest(r)) /\ pending' = "no"
            /\ registry' = Absent /\ connected' = FALSE
            /\ offered' \in {offered} \cup {d.offer : d \in {e \in Deployments : e.url = r.url}}
    BY <1>3 DEF ConnectFailed
  <2>2. offered' \in Offers
    BY <2>1, CatalogAssumption DEF TypeOK
  <2> QED
    BY <1>3, <2>1, <2>2, RequestTypes DEF TypeOK, ConnectFailed
<1>4. CASE Dropped
  BY <1>4, RequestTypes DEF TypeOK, Dropped
<1>5. CASE ChoiceRefused
  BY <1>5, RequestTypes DEF TypeOK, ChoiceRefused
<1>6. CASE ChooseUnconnected
  <2>1. PICK name \in Names :
            /\ settings' = [settings EXCEPT !.track = name]
            /\ \/ /\ Wait(Outchosen(reads), Read("connect", name, NoTrack))
                  /\ ApplyAccess(layer, IsReader)
               \/ /\ pending' = "no"
                  /\ reads' = Outchosen(reads)
                  /\ UNCHANGED <<layer, watched>>
    BY <1>6 DEF ChooseUnconnected
  <2>2. settings' \in [url : Backends, track : Names, date : Dates]
    BY <2>1 DEF TypeOK
  <2>3. Read("connect", name, NoTrack) \in Reads
    BY ReadIsTyped DEF Names
  <2>4. reads' \subseteq Reads /\ pending' \in {"no", "yes"}
    BY <2>1, <2>3, RequestTypes DEF Wait
  <2>5. layer' \in Places /\ watched' \subseteq Layers
    BY <2>1, PermissionTypes DEF TypeOK, IsReader
  <2> QED
    BY <1>6, <2>2, <2>4, <2>5 DEF TypeOK, ChooseUnconnected
<1>7. CASE ChooseTrack
  <2>1. PICK name \in Names :
            Wait(Outchosen(reads), Read("track", name, Resolve(offered, name)))
    BY <1>7 DEF ChooseTrack
  <2>2. Read("track", name, Resolve(offered, name)) \in Reads
    BY ReadIsTyped, NamesAreTyped DEF TypeOK
  <2> QED
    BY <1>7, <2>1, <2>2, RequestTypes DEF TypeOK, ChooseTrack, Wait
<1>8. CASE TrackAnswered
  <2>1. PICK r \in reads :
            /\ reads' = Rest(r)
            /\ \/ pending' = "no" /\ UNCHANGED swap
               \/ /\ Begin("track", r.track, r.to, settings.date,
                           {l \in Layers : Belongs(layer[l], settings.url) /\ Follows(layer[l])})
                  /\ UNCHANGED pending
    BY <1>8 DEF TrackAnswered
  <2>2. r \in Reads /\ settings.date \in Dates
    BY DEF TypeOK
  <2>3. {l \in Layers : Belongs(layer[l], settings.url) /\ Follows(layer[l])} \in SUBSET Layers
    OBVIOUS
  <2>4. swap' \in Swaps \cup {Absent}
    BY <2>1, <2>2, <2>3, BeginTypes DEF TypeOK, Reads
  <2> QED
    BY <1>8, <2>1, <2>4, RequestTypes DEF TypeOK, TrackAnswered
<1>9. CASE ReadFailed
  BY <1>9, RequestTypes DEF TypeOK, ReadFailed
<1>10. CASE ApplyAsOf
  <2>1. PICK date \in Dates :
            Begin("date", settings.track, CurrentTrack, date, {l \in Layers : Follows(layer[l])})
    BY <1>10 DEF ApplyAsOf
  <2>2. swap' \in Swaps
    BY <2>1, CurrentTrackType, BeginTypes DEF TypeOK
  <2> QED
    BY <1>10, <2>2 DEF TypeOK, ApplyAsOf
<1>11. CASE SwapLayer
  <2>1. PICK l \in swap.todo :
            /\ \/ swap' = [swap EXCEPT !.todo = @ \ {l}, !.touched = @ \cup {l}]
               \/ swap' = [swap EXCEPT !.phase = "undo", !.touched = @ \cup {l}]
            /\ \/ layer' = [layer EXCEPT ![l].state = "broken", ![l].edit = "no"]
               \/ layer' = [layer EXCEPT ![l] = Repointed(@, swap.to, settings.url, swap.date)]
    BY <1>11 DEF SwapLayer
  <2>2. swap \in Swaps /\ l \in Layers /\ layer[l] \in LayerRecords
    BY <1>11, <2>1 DEF TypeOK, Targets, SwapLayer, Swaps, Places
  <2>3. swap' \in Swaps
    BY <1>11, ChangeGoesOn
  <2>4. /\ Repointed(layer[l], swap.to, settings.url, swap.date) \in LayerRecords
        /\ [layer[l] EXCEPT !.state = "broken", !.edit = "no"] \in LayerRecords
    <3>1. swap.to \in Names /\ swap.date \in Dates /\ settings.url \in Backends
      BY <2>2 DEF TypeOK, Swaps
    <3> QED
      BY <2>2, <3>1, RepointedIsTyped DEF LayerRecords
  <2>5. layer' \in Places
    BY <2>1, <2>2, <2>4 DEF TypeOK, Places
  <2> QED
    BY <1>11, <2>3, <2>5 DEF TypeOK, SwapLayer, swapRest, outside
<1>12. CASE SwapStored
  <2>1. swap \in Swaps
    BY <1>12 DEF TypeOK, SwapStored
  <2>2. settings' \in [url : Backends, track : Names, date : Dates]
    BY <1>12, <2>1 DEF TypeOK, SwapStored, Viewed, Swaps
  <2>3. CASE swap.kind = "track"
    <3>1. /\ registry' = [track |-> swap.to, url |-> settings.url, who |-> who]
          /\ pending' = "no" /\ access' = Absent /\ ApplyAccess(layer, FALSE)
          /\ reads' = Outdated(reads) \cup AccessRead(who)
      BY <1>12, <2>3 DEF SwapStored
    <3>2. registry' \in [track : Names, url : Backends, who : Callers]
      BY <2>1, <3>1 DEF TypeOK, Swaps
    <3>3. layer' \in Places /\ watched' \subseteq Layers
      BY <3>1, PermissionTypes DEF TypeOK
    <3>4. reads' \subseteq Reads
      BY <3>1, RequestTypes DEF TypeOK
    <3> QED
      BY <1>12, <2>2, <3>1, <3>2, <3>3, <3>4 DEF TypeOK, SwapStored, swapRest
  <2>4. CASE swap.kind # "track"
    <3>1. ApplyAccess(layer, IsReader) /\ UNCHANGED <<registry, pending, access, reads>>
      BY <1>12, <2>4 DEF SwapStored
    <3>2. layer' \in Places /\ watched' \subseteq Layers
      BY <3>1, PermissionTypes DEF TypeOK, IsReader
    <3> QED
      BY <1>12, <2>2, <3>1, <3>2 DEF TypeOK, SwapStored, swapRest
  <2> QED
    BY <2>3, <2>4
<1>13. CASE StoreFailed
  BY <1>13, ChangeGoesOn DEF TypeOK, StoreFailed, swapRest, outside
<1>14. CASE SwapUndone
  <2>1. PICK l \in swap.touched :
            /\ \/ swap' = [swap EXCEPT !.touched = @ \ {l}]
               \/ swap' = [swap EXCEPT !.touched = @ \ {l}, !.unsafe = TRUE]
            /\ \/ layer' = [layer EXCEPT ![l] = Restored(swap.saved[l])]
               \/ layer' = [layer EXCEPT ![l] = Disabled(@)]
               \/ UNCHANGED layer
    BY <1>14 DEF SwapUndone
  <2>2. swap \in Swaps
    BY <1>14 DEF TypeOK, SwapUndone
  <2>3. l \in Layers /\ layer[l] \in LayerRecords /\ swap.saved[l] \in LayerRecords
    BY <1>14, <2>1, <2>2 DEF TypeOK, Targets, SwapUndone, Swaps, Places
  <2>4. swap' \in Swaps
    BY <1>14, ChangeGoesOn
  <2>5. Restored(swap.saved[l]) \in LayerRecords /\ Disabled(layer[l]) \in LayerRecords
    BY <2>3 DEF Restored, Disabled, LayerRecords
  <2>6. layer' \in Places
    BY <2>1, <2>3, <2>5 DEF TypeOK, Places
  <2> QED
    BY <1>14, <2>4, <2>6 DEF TypeOK, SwapUndone, swapRest, outside
<1>15. CASE SettingsUndone
  <2>1. swap \in Swaps
    BY <1>15 DEF TypeOK, SettingsUndone
  <2>2. settings' \in [url : Backends, track : Names, date : Dates] /\ warned' \in BOOLEAN
    BY <1>15, <2>1 DEF TypeOK, SettingsUndone, Swaps
  <2>3. pending' \in {"no", "yes", "lost"}
    BY <1>15 DEF TypeOK, SettingsUndone
  <2> QED
    BY <1>15, <2>2, <2>3 DEF TypeOK, SettingsUndone, swapRest
<1>16. CASE LoadLayer
  <2>1. PICK l \in Layers, view \in Loads :
            ApplyAccess([layer EXCEPT ![l] = Created(CurrentTrack, settings.date, view)], IsReader)
    BY <1>16 DEF LoadLayer
  <2>2. Created(CurrentTrack, settings.date, view) \in LayerRecords
    BY CurrentTrackType, CreatedIsTyped, CatalogAssumption DEF TypeOK
  <2>3. [layer EXCEPT ![l] = Created(CurrentTrack, settings.date, view)] \in Places
    BY <2>2 DEF TypeOK, Places
  <2>4. layer' \in Places /\ watched' \subseteq Layers
    BY <2>1, <2>3, PermissionTypes DEF IsReader
  <2> QED
    BY <1>16, <2>4 DEF TypeOK, LoadLayer
<1>17. ASSUME NEW l \in Layers, Snapshot(l)
       PROVE  layer' \in Places
  <2>1. PICK d \in Dates : layer' = [layer EXCEPT ![l] = Created(CurrentTrack, d, "dated")]
    BY <1>17 DEF Snapshot
  <2>2. Created(CurrentTrack, d, "dated") \in LayerRecords
    BY CurrentTrackType, CreatedIsTyped
  <2> QED
    BY <2>1, <2>2 DEF TypeOK, Places
<1>18. CASE OpenDateLayers
  <2>1. layer' \in Places
    BY <1>17, <1>18 DEF TypeOK, OpenDateLayers
  <2>2. reads' \subseteq Reads
    BY <1>18, CurrentTrackType, ReadIsTyped DEF TypeOK, OpenDateLayers
  <2> QED
    BY <1>18, <2>1, <2>2 DEF TypeOK, OpenDateLayers
<1>19. CASE DateLayersRead
  <2>1. PICK r \in reads, l \in Layers : reads' = Rest(r) /\ (Snapshot(l) \/ UNCHANGED layer)
    BY <1>19 DEF DateLayersRead
  <2>2. layer' \in Places
    BY <1>17, <2>1 DEF TypeOK
  <2> QED
    BY <1>19, <2>1, <2>2, RequestTypes DEF TypeOK, DateLayersRead
<1>20. CASE Pull
  <2>1. Read("pull", settings.track, CurrentTrack) \in Reads
    BY CurrentTrackType, ReadIsTyped DEF TypeOK
  <2> QED
    BY <1>20, <2>1 DEF TypeOK, Pull, Wait
<1>21. CASE PullAnswered
  <2>1. PICK r \in reads, d \in Deployments, done \in BOOLEAN :
            /\ r.to = CurrentTrack /\ reads' = Outdated(Rest(r)) /\ pending' = "no"
            /\ registry' = [track |-> r.to, url |-> r.url, who |-> r.who]
            /\ native' = d.native
            /\ Catalogued(layer, r.to, CurrentTrack, d.native, done)
            /\ UNCHANGED <<settings, who, offered, connected, accessVars, publishVars, swap,
                           warned>>
    BY <1>21 DEF PullAnswered
  <2>2. r \in Reads /\ native' \in BOOLEAN
    BY <2>1, CatalogAssumption DEF TypeOK
  <2>3. layer' \in Places
    BY <2>1, CurrentTrackType, CataloguedLayers DEF TypeOK
  <2>4. registry' \in [track : Names, url : Backends, who : Callers]
    BY <2>1, <2>2 DEF Reads
  <2> QED
    BY <2>1, <2>2, <2>3, <2>4, RequestTypes DEF TypeOK
<1>22. ASSUME NEW f \in Places, NEW reader \in BOOLEAN, ApplyAccess(f, reader)
       PROVE  layer' \in Places /\ watched' \subseteq Layers
  BY <1>22, PermissionTypes
<1>23. CASE SignIn
  <2>1. PICK a \in Accounts : who' = a /\ reads' = Ended(reads) \cup AccessRead(a)
    BY <1>23 DEF SignIn
  <2>2. layer' \in Places /\ watched' \subseteq Layers
    BY <1>22, <1>23 DEF TypeOK, SignIn
  <2> QED
    BY <1>23, <2>1, <2>2, RequestTypes DEF TypeOK, SignIn, Callers
<1>24. CASE SignOut
  <2>1. layer' \in Places /\ watched' \subseteq Layers
    BY <1>22, <1>24 DEF TypeOK, SignOut
  <2> QED
    BY <1>24, <2>1, RequestTypes DEF TypeOK, SignOut, Callers
<1>25. CASE RefreshAccess
  <2>1. layer' \in Places /\ watched' \subseteq Layers
    BY <1>22, <1>25 DEF TypeOK, RefreshAccess
  <2> QED
    BY <1>25, <2>1, RequestTypes DEF TypeOK, RefreshAccess
<1>26. CASE AccessAnswered
  <2>1. PICK r \in reads, reader \in BOOLEAN :
            /\ reads' = Rest(r) /\ access' = IF reader THEN r.url ELSE Absent
            /\ ApplyAccess(layer, reader)
    BY <1>26 DEF AccessAnswered
  <2>2. layer' \in Places /\ watched' \subseteq Layers
    BY <1>22, <2>1 DEF TypeOK
  <2>3. access' \in Backends \cup {Absent}
    BY <2>1 DEF TypeOK, Reads
  <2> QED
    BY <1>26, <2>1, <2>2, <2>3, RequestTypes DEF TypeOK, AccessAnswered
<1>27. CASE Edit
  <2>1. PICK l \in Layers :
            /\ layer[l] # Absent
            /\ \/ layer' = [layer EXCEPT ![l].edit = "open"]
               \/ layer' = [layer EXCEPT ![l].edit = "dirty"]
    BY <1>27 DEF Edit, Here
  <2>2. layer' \in Places
    BY <2>1 DEF TypeOK, Places, LayerRecords
  <2> QED
    BY <1>27, <2>2 DEF TypeOK, Edit
<1>28. CASE StopEditing
  <2>1. PICK l \in Layers :
            LET f == [layer EXCEPT ![l].edit = "no"]
            IN  /\ layer[l] # Absent
                /\ ApplyAccess(f, IsReader) \/ (layer' = f /\ UNCHANGED watched)
    BY <1>28 DEF StopEditing, Here
  <2>2. [layer EXCEPT ![l].edit = "no"] \in Places
    BY <2>1 DEF TypeOK, Places, LayerRecords
  <2>3. layer' \in Places /\ watched' \subseteq Layers
    BY <1>22, <2>1, <2>2 DEF TypeOK, IsReader
  <2> QED
    BY <1>28, <2>3 DEF TypeOK, StopEditing
<1>29. CASE PreviewPublish
  BY <1>29 DEF TypeOK, PreviewPublish
<1>30. CASE EndPreview
  BY <1>30 DEF TypeOK, EndPreview
<1>31. CASE EndPublish
  <2>1. layer' \in Places /\ watched' \subseteq Layers
    BY <1>22, <1>31 DEF TypeOK, EndPublish, IsReader
  <2> QED
    BY <1>31, <2>1, RequestTypes DEF TypeOK, EndPublish
<1>32. CASE UNCHANGED vars
  BY <1>32 DEF TypeOK, vars
<1> QED
  BY <1>1, <1>2, <1>3, <1>4, <1>5, <1>6, <1>7, <1>8, <1>9, <1>10, <1>11, <1>12, <1>13, <1>14,
     <1>15, <1>16, <1>18, <1>19, <1>20, <1>21, <1>23, <1>24, <1>25, <1>26, <1>27, <1>28,
     <1>29, <1>30, <1>31, <1>32 DEF Next, Transition

\* Outside a change of the view nothing is a target, and within one no layer goes.
LEMMA TargetsStep == TypeOK /\ Targets /\ [Next]_vars => Targets'
<1> SUFFICES ASSUME TypeOK, Targets, [Next]_vars, swap' # Absent
             PROVE  \A l \in swap'.todo \cup swap'.touched :
                       layer'[l] # Absent /\ swap'.saved[l] # Absent
  BY DEF Targets
<1>1. CASE TrackAnswered
  BY <1>1 DEF TrackAnswered, Answered, Idle, Begin, Follows
<1>2. CASE ApplyAsOf
  BY <1>2 DEF ApplyAsOf, Begin, Follows
<1>3. CASE SwapLayer
  <2>1. PICK l \in swap.todo :
            /\ \/ swap' = [swap EXCEPT !.todo = @ \ {l}, !.touched = @ \cup {l}]
               \/ swap' = [swap EXCEPT !.phase = "undo", !.touched = @ \cup {l}]
            /\ \/ layer' = [layer EXCEPT ![l].state = "broken", ![l].edit = "no"]
               \/ layer' = [layer EXCEPT ![l] = Repointed(@, swap.to, settings.url, swap.date)]
    BY <1>3 DEF SwapLayer
  <2>2. swap \in Swaps /\ l \in Layers /\ layer[l] \in LayerRecords
    BY <1>3, <2>1 DEF TypeOK, Targets, SwapLayer, Swaps, Places
  <2>3. layer'[l] # Absent
    <3>1. /\ Repointed(layer[l], swap.to, settings.url, swap.date) \in LayerRecords
          /\ [layer[l] EXCEPT !.state = "broken", !.edit = "no"] \in LayerRecords
      <4>1. swap.to \in Names /\ swap.date \in Dates /\ settings.url \in Backends
        BY <2>2 DEF TypeOK, Swaps
      <4> QED
        BY <2>2, <4>1, RepointedIsTyped DEF LayerRecords
    <3> QED
      BY <2>1, <2>2, <3>1, CatalogAssumption DEF TypeOK, Places
  <2>4. \A m \in Layers \ {l} : layer'[m] = layer[m]
    BY <2>1 DEF TypeOK, Places
  <2>5. /\ swap'.todo \subseteq swap.todo /\ swap'.touched \subseteq swap.touched \cup {l}
        /\ swap'.saved = swap.saved
    BY <2>1, <2>2 DEF Swaps
  <2> QED
    BY <1>3, <2>2, <2>3, <2>4, <2>5 DEF Targets, SwapLayer, Swaps
<1>4. CASE SwapStored
  BY <1>4 DEF SwapStored
<1>5. CASE StoreFailed
  BY <1>5 DEF TypeOK, Targets, StoreFailed, Swaps
<1>6. CASE SwapUndone
  <2>1. PICK l \in swap.touched :
            /\ \/ swap' = [swap EXCEPT !.touched = @ \ {l}]
               \/ swap' = [swap EXCEPT !.touched = @ \ {l}, !.unsafe = TRUE]
            /\ \/ layer' = [layer EXCEPT ![l] = Restored(swap.saved[l])]
               \/ layer' = [layer EXCEPT ![l] = Disabled(@)]
               \/ UNCHANGED layer
    BY <1>6 DEF SwapUndone
  <2>2. /\ swap \in Swaps /\ l \in Layers
        /\ layer[l] \in LayerRecords /\ swap.saved[l] \in LayerRecords
    BY <1>6, <2>1 DEF TypeOK, Targets, SwapUndone, Swaps, Places
  <2>3. layer'[l] # Absent
    <3>1. Restored(swap.saved[l]) \in LayerRecords /\ Disabled(layer[l]) \in LayerRecords
      BY <2>2 DEF Restored, Disabled, LayerRecords
    <3> QED
      BY <2>1, <2>2, <3>1, CatalogAssumption DEF TypeOK, Places
  <2>4. \A m \in Layers \ {l} : layer'[m] = layer[m]
    BY <2>1 DEF TypeOK, Places
  <2>5. swap'.todo = swap.todo /\ swap'.touched \subseteq swap.touched /\ swap'.saved = swap.saved
    BY <2>1, <2>2 DEF Swaps
  <2> QED
    BY <1>6, <2>2, <2>3, <2>4, <2>5 DEF Targets, SwapUndone, Swaps
<1>7. CASE UNCHANGED vars
  BY <1>7 DEF Targets, vars
<1>8. CASE ~ \/ TrackAnswered \/ ApplyAsOf \/ SwapLayer \/ SwapStored \/ StoreFailed
             \/ SwapUndone \/ UNCHANGED vars
  <2>1. swap' = Absent
    BY <1>8 DEF Next, Transition, Idle, Free, Answered, Loadable, Connect, ConnectAnswered,
        ConnectFailed, Dropped, ChoiceRefused, ChooseUnconnected, Choosable, ChooseTrack,
        ReadFailed, SettingsUndone, LoadLayer, OpenDateLayers, DateLayersRead, Pull,
        PullAnswered, SignIn, SignOut, RefreshAccess, AccessAnswered, Edit, StopEditing,
        PreviewPublish, EndPreview, EndPublish
  <2> QED
    BY <2>1
<1> QED
  BY <1>1, <1>2, <1>3, <1>4, <1>5, <1>6, <1>7, <1>8

-----------------------------------------------------------------------------
(* What is asked for.                                                       *)

\* A step that sends no new request which anything waits for keeps what is known of them,
\* unless it changes what one of those that go on was made for.
LEMMA QuietRequests ==
    ASSUME Requests, settings'.url = settings.url, who' = who,
           \A x \in reads' :
              \/ x \in reads
              \/ /\ Ends(x) => ~Current(x)
                 /\ \E r \in reads : x.session = r.session /\ x.url = r.url /\ x.who = r.who
              \/ (Ends(x) => ~Current(x)) /\ x.url = settings.url /\ x.who = who,
           \A r \in reads \cap reads' : Current(r) /\ Ends(r) =>
              /\ Kept'.track = Kept.track /\ offered' = offered /\ pending' # "no"
              /\ r.kind = "track" => preview' = Absent /\ publishing' = Absent
    PROVE  Requests'
<1>1. OneWait'
  BY DEF Requests, OneWait
<1>2. ASSUME NEW x \in reads'
      PROVE  ReadIsOfNow(x)'
  <2>1. x.session => x.url = settings'.url /\ x.who = who'
    BY <1>2 DEF Requests, ReadIsOfNow
  <2>2. CASE Current(x) /\ Ends(x)
    BY <1>2, <2>1, <2>2 DEF Requests, ReadIsOfNow
  <2>3. CASE ~(Current(x) /\ Ends(x))
    BY <2>1, <2>3 DEF ReadIsOfNow, Ends
  <2> QED
    BY <2>2, <2>3
<1> QED
  BY <1>1, <1>2 DEF Requests

\* A request which is waited for, after those before it ceased to count.
LEMMA NewWait ==
    ASSUME NEW R, NEW x, Wait(R, x), Ends(x),
           \A r \in R : /\ r.session => r.url = settings'.url /\ r.who = who'
                        /\ ~(Current(r) /\ Ends(r)),
           x.url = settings'.url, x.who = who',
           x.kind = "connect" => x.track = Kept'.track,
           x.kind = "track" => /\ x.to = Resolve(offered', x.track)
                               /\ preview' = Absent /\ publishing' = Absent
    PROVE  Requests'
<1>1. reads' = R \cup {x} /\ pending' = "yes"
  BY DEF Wait
<1>2. OneWait'
  BY <1>1 DEF OneWait
<1>3. \A r \in R : ReadIsOfNow(r)'
  BY DEF ReadIsOfNow, Ends
<1>4. ReadIsOfNow(x)'
  BY <1>1 DEF ReadIsOfNow
<1> QED
  BY <1>1, <1>2, <1>3, <1>4 DEF Requests

\* The one request that was waited for is answered.
LEMMA LastWait ==
    ASSUME Requests, NEW r \in reads, Current(r), Ends(r)
    PROVE  \A x \in Rest(r) : ~(Current(x) /\ Ends(x))
BY DEF Requests, OneWait, Rest

\* Every step leaves requests which are of this session, and one wait at most.
LEMMA RequestsStep ==
    ASSUME TypeOK, Requests, ChangeIsAlone, Next, ~warned'
    PROVE  Requests'
<1> USE DEF Ends
<1>1. CASE Connect
  <2>1. PICK u \in Backends :
            /\ settings' = [settings EXCEPT !.url = u]
            /\ Wait(IF u # settings.url THEN Ended(reads) ELSE Outchosen(reads),
                    [Read("connect", settings.track, NoTrack) EXCEPT !.url = u])
            /\ who' = who /\ swap = Absent /\ swap' = Absent
    BY <1>1 DEF Connect, Free, Idle
  <2> DEFINE R == IF u # settings.url THEN Ended(reads) ELSE Outchosen(reads)
             x == [Read("connect", settings.track, NoTrack) EXCEPT !.url = u]
  <2>2. settings'.url = u /\ settings'.track = settings.track
    BY <2>1 DEF TypeOK
  <2>3. x.kind = "connect" /\ x.url = u /\ x.who = who /\ x.track = settings.track
    BY DEF Read
  <2>4. \A r \in R : (r.session => r.url = u /\ r.who = who) /\ ~(Current(r) /\ Ends(r))
    <3>1. CASE u # settings.url
      BY <3>1, EndedReads DEF TypeOK, Current
    <3>2. CASE u = settings.url
      BY <3>2, OutchosenReads DEF TypeOK, Requests, ReadIsOfNow
    <3> QED
      BY <3>1, <3>2
  <2>5. Wait(R, x)
    BY <2>1
  <2> HIDE DEF R, x
  <2> QED
    BY <2>1, <2>2, <2>3, <2>4, <2>5, NewWait DEF Kept
<1>2. CASE ConnectAnswered \/ ConnectFailed
  <2>1. PICK r \in reads :
            /\ r.kind = "connect" /\ Current(r) /\ reads' = Outdated(Rest(r))
            /\ UNCHANGED <<settings, who, publishVars, swap>>
    BY <1>2 DEF ConnectAnswered, ConnectFailed
  <2>2. Rest(r) \in SUBSET Reads /\ \A x \in Rest(r) : x \in reads /\ ~(Current(x) /\ Ends(x))
    BY <2>1, LastWait DEF TypeOK, Rest
  <2>3. \A x \in reads' :
           /\ Ends(x) => ~Current(x)
           /\ \E y \in reads : x.session = y.session /\ x.url = y.url /\ x.who = y.who
    BY <2>1, <2>2, OutdatedReads
  <2> QED
    BY <2>1, <2>3, QuietRequests
<1>3. CASE Dropped
  <2>1. PICK r \in reads :
            /\ reads' = Rest(r)
            /\ pending' = IF Current(r) /\ Ends(r) /\ pending = "yes" THEN "lost" ELSE pending
            /\ UNCHANGED <<settings, who, offered, publishVars, swap>>
    BY <1>3 DEF Dropped
  <2>2. \A x \in reads : Current(x) /\ Ends(x) =>
           /\ pending' # "no"
           /\ x.kind = "track" => preview' = Absent /\ publishing' = Absent
    BY <2>1 DEF Requests, ReadIsOfNow
  <2> QED
    BY <2>1, <2>2, QuietRequests DEF Rest, Kept
<1>4. CASE ChoiceRefused
  <2>1. reads' = Outchosen(reads) /\ UNCHANGED <<settings, who>>
    BY <1>4 DEF ChoiceRefused
  <2> QED
    BY <2>1, OutchosenReads, QuietRequests DEF TypeOK
<1>5. CASE ChooseUnconnected
  <2>1. PICK name \in Names :
            /\ settings' = [settings EXCEPT !.track = name]
            /\ \/ Wait(Outchosen(reads), Read("connect", name, NoTrack))
               \/ reads' = Outchosen(reads)
            /\ who' = who /\ swap = Absent /\ swap' = Absent
    BY <1>5 DEF ChooseUnconnected, Choosable, Free, Idle
  <2>2. settings'.url = settings.url /\ settings'.track = name
    BY <2>1 DEF TypeOK
  <2>3. \A r \in Outchosen(reads) :
           /\ r.session => r.url = settings.url /\ r.who = who
           /\ ~(Current(r) /\ Ends(r))
    BY OutchosenReads DEF TypeOK, Requests, ReadIsOfNow
  <2>4. CASE Wait(Outchosen(reads), Read("connect", name, NoTrack))
    <3>1. LET x == Read("connect", name, NoTrack)
          IN  x.kind = "connect" /\ x.url = settings.url /\ x.who = who /\ x.track = name
      BY DEF Read
    <3> QED
      BY <2>1, <2>2, <2>3, <2>4, <3>1, NewWait DEF Kept
  <2>5. CASE reads' = Outchosen(reads)
    BY <2>1, <2>2, <2>5, OutchosenReads, QuietRequests DEF TypeOK
  <2> QED
    BY <2>1, <2>4, <2>5
<1>6. CASE ChooseTrack
  <2>1. PICK name \in Names :
            /\ Wait(Outchosen(reads), Read("track", name, Resolve(offered, name)))
            /\ UNCHANGED <<settings, who, offered>>
            /\ preview' = Absent /\ publishing' = Absent
    BY <1>6 DEF ChooseTrack, Choosable, Free
  <2>2. \A r \in Outchosen(reads) :
           /\ r.session => r.url = settings.url /\ r.who = who
           /\ ~(Current(r) /\ Ends(r))
    BY OutchosenReads DEF TypeOK, Requests, ReadIsOfNow
  <2>3. LET x == Read("track", name, Resolve(offered, name))
        IN  /\ x.kind = "track" /\ x.url = settings.url /\ x.who = who
            /\ x.track = name /\ x.to = Resolve(offered, name)
    BY DEF Read
  <2> QED
    BY <2>1, <2>2, <2>3, NewWait
<1>7. CASE TrackAnswered \/ ReadFailed
  <2>1. PICK r \in reads :
            /\ Current(r) /\ Ends(r) /\ reads' = Rest(r)
            /\ UNCHANGED <<settings, who>>
    BY <1>7 DEF TrackAnswered, ReadFailed
  <2>2. \A x \in Rest(r) : x \in reads /\ ~(Current(x) /\ Ends(x))
    BY <2>1, LastWait DEF Rest
  <2> QED
    BY <2>1, <2>2, QuietRequests
<1>8. CASE ApplyAsOf
  <2>1. Kept' = Kept /\ UNCHANGED <<settings, who, pending, offered, publishVars, reads>>
    BY <1>8, CatalogAssumption DEF ApplyAsOf, Begin, Free, Idle, Kept
  <2> QED
    BY <2>1, QuietRequests DEF Requests, ReadIsOfNow
<1>9. CASE SwapLayer \/ StoreFailed \/ SwapUndone
  <2>1. /\ settings'.url = settings.url /\ Kept' = Kept
        /\ UNCHANGED <<who, offered, publishVars, pending, reads>>
    BY <1>9, ChangeGoesOn DEF SameChange, Kept, swapRest, outside
  <2> QED
    BY <2>1, QuietRequests DEF Requests, ReadIsOfNow
<1>10. CASE SwapStored
  <2>1. swap \in Swaps /\ swap # Absent /\ swap' = Absent /\ settings' = Viewed /\ who' = who
        /\ UNCHANGED <<offered, publishVars>>
    BY <1>10 DEF TypeOK, SwapStored, swapRest
  <2>2. settings'.url = settings.url /\ settings'.track = swap.track
    BY <2>1 DEF TypeOK, Viewed
  <2>3. CASE swap.kind = "track"
    <3>1. reads' = Outdated(reads) \cup AccessRead(who)
      BY <1>10, <2>3 DEF SwapStored
    <3>2. \A x \in reads : Ends(x) => ~Current(x)
      BY <2>1, <2>3 DEF ChangeIsAlone
    <3>3. \A x \in AccessRead(who) : ~Ends(x) /\ x.url = settings.url /\ x.who = who
      BY DEF AccessRead, Read
    <3> QED
      BY <2>1, <2>2, <3>1, <3>2, <3>3, OutdatedReads, QuietRequests DEF TypeOK
  <2>4. CASE swap.kind # "track"
    <3>1. UNCHANGED <<pending, reads>> /\ swap.kind = "date"
      BY <1>10, <2>1, <2>4 DEF SwapStored, Swaps
    <3>2. Kept'.track = Kept.track
      BY <2>1, <2>2, <3>1 DEF ChangeIsAlone, Kept
    <3> QED
      BY <2>1, <2>2, <3>1, <3>2, QuietRequests DEF Requests, ReadIsOfNow
  <2> QED
    BY <2>3, <2>4
<1>11. CASE SettingsUndone
  <2>1. /\ swap \in Swaps /\ swap # Absent /\ swap' = Absent /\ settings' = swap.was
        /\ pending' = IF swap.kind = "track" THEN "no" ELSE pending
        /\ UNCHANGED <<who, offered, publishVars, reads>>
    BY <1>11 DEF TypeOK, SettingsUndone, swapRest
  <2>2. settings'.url = settings.url /\ Kept' = Kept
    BY <2>1 DEF ChangeIsAlone, Kept
  <2>3. CASE swap.kind = "track"
    BY <2>1, <2>2, <2>3, QuietRequests DEF ChangeIsAlone
  <2>4. CASE swap.kind # "track"
    BY <2>1, <2>2, <2>4, QuietRequests DEF Requests, ReadIsOfNow
  <2> QED
    BY <2>3, <2>4
<1>12. CASE OpenDateLayers
  <2>1. /\ reads' \in {reads, reads \cup {Read("dated", CurrentTrack, CurrentTrack)}}
        /\ UNCHANGED <<settings, who, pending, offered, publishVars, swap>>
    BY <1>12 DEF OpenDateLayers
  <2>2. LET x == Read("dated", CurrentTrack, CurrentTrack)
        IN  ~Ends(x) /\ x.url = settings.url /\ x.who = who
    BY DEF Read
  <2> QED
    BY <2>1, <2>2, QuietRequests DEF Requests, ReadIsOfNow, Kept
<1>13. CASE DateLayersRead \/ AccessAnswered
  <2>1. PICK r \in reads :
            /\ reads' = Rest(r)
            /\ UNCHANGED <<settings, who, pending, offered, publishVars, swap>>
    BY <1>13 DEF DateLayersRead, AccessAnswered
  <2> QED
    BY <2>1, QuietRequests DEF Requests, ReadIsOfNow, Kept, Rest
<1>14. CASE Pull
  <2>1. /\ Wait(reads, Read("pull", settings.track, CurrentTrack))
        /\ ~Busy /\ pending = "no"
        /\ UNCHANGED <<settings, who>>
    BY <1>14 DEF Pull
  <2>2. \A r \in reads : /\ r.session => r.url = settings.url /\ r.who = who
                         /\ ~(Current(r) /\ Ends(r))
    BY <2>1 DEF Requests, ReadIsOfNow, Busy
  <2>3. LET x == Read("pull", settings.track, CurrentTrack)
        IN  x.kind = "pull" /\ x.url = settings.url /\ x.who = who
    BY DEF Read
  <2> QED
    BY <2>1, <2>2, <2>3, NewWait
<1>15. CASE PullAnswered
  <2>1. PICK r \in reads :
            /\ r.kind = "pull" /\ Current(r) /\ reads' = Outdated(Rest(r))
            /\ UNCHANGED <<settings, who>>
    BY <1>15 DEF PullAnswered
  <2>2. Rest(r) \in SUBSET Reads /\ \A x \in Rest(r) : x \in reads /\ ~(Current(x) /\ Ends(x))
    BY <2>1, LastWait DEF TypeOK, Rest
  <2>3. \A x \in reads' :
           /\ Ends(x) => ~Current(x)
           /\ \E y \in reads : x.session = y.session /\ x.url = y.url /\ x.who = y.who
    BY <2>1, <2>2, OutdatedReads
  <2> QED
    BY <2>1, <2>3, QuietRequests
<1>16. CASE SignIn \/ SignOut
  <2>1. PICK a \in Callers :
            reads' \in {Ended(reads), Ended(reads) \cup AccessRead(a)}
            /\ who' = a /\ settings' = settings
    BY <1>16 DEF SignIn, SignOut, Callers
  <2>2. \A x \in Ended(reads) : ~x.session
    BY EndedReads DEF TypeOK
  <2>3. \A x \in AccessRead(a) : ~Ends(x) /\ x.url = settings.url /\ x.who = a
    BY DEF AccessRead, Read
  <2>4. OneWait'
    BY <2>1, <2>2, <2>3 DEF OneWait, Current
  <2>5. \A x \in reads' : ReadIsOfNow(x)'
    BY <2>1, <2>2, <2>3 DEF ReadIsOfNow, Current
  <2> QED
    BY <2>4, <2>5 DEF Requests
<1>17. CASE RefreshAccess
  <2>1. /\ reads' = reads \cup AccessRead(who)
        /\ UNCHANGED <<settings, who, pending, offered, publishVars, swap>>
    BY <1>17 DEF RefreshAccess
  <2>2. \A x \in AccessRead(who) : ~Ends(x) /\ x.url = settings.url /\ x.who = who
    BY DEF AccessRead, Read
  <2> QED
    BY <2>1, <2>2, QuietRequests DEF Requests, ReadIsOfNow, Kept
<1>18. CASE LoadLayer \/ Edit \/ StopEditing
  <2>1. UNCHANGED <<settings, who, pending, offered, publishVars, reads, swap>>
    BY <1>18 DEF LoadLayer, Edit, StopEditing
  <2> QED
    BY <2>1, QuietRequests DEF Requests, ReadIsOfNow, Kept
<1>19. CASE PreviewPublish \/ EndPreview
  <2>1. /\ UNCHANGED <<settings, who, pending, offered, reads, swap>>
        /\ pending = "no" \/ (preview # Absent /\ preview' = Absent)
    BY <1>19 DEF PreviewPublish, EndPreview
  <2>2. \A r \in reads : r.kind = "track" => ~Current(r)
    BY <1>19, <2>1 DEF Requests, ReadIsOfNow
  <2> QED
    BY <2>1, <2>2, QuietRequests DEF Requests, ReadIsOfNow, Kept
<1>20. CASE EndPublish
  <2>1. /\ reads' \in {reads, Outdated(reads)} /\ publishing # Absent
        /\ UNCHANGED <<settings, who, pending, offered, preview, swap>>
    BY <1>20 DEF EndPublish
  <2>2. \A r \in reads : r.kind = "track" => ~Current(r)
    BY <2>1 DEF Requests, ReadIsOfNow
  <2> QED
    BY <2>1, <2>2, OutdatedReads, QuietRequests DEF TypeOK, Requests, ReadIsOfNow, Kept
<1> QED
  BY <1>1, <1>2, <1>3, <1>4, <1>5, <1>6, <1>7, <1>8, <1>9, <1>10, <1>11, <1>12, <1>13, <1>14,
     <1>15, <1>16, <1>17, <1>18, <1>19, <1>20 DEF Next, Transition

\* Every other step is of the main thread at rest, and begins no change of the view.
Elsewhere ==
    ~ \/ TrackAnswered \/ ApplyAsOf \/ SwapLayer \/ SwapStored \/ StoreFailed \/ SwapUndone
      \/ SettingsUndone

LEMMA ElsewhereIsIdle == Next /\ Elsewhere => Idle /\ swap' = Absent /\ warned' = warned
BY DEF Elsewhere, Next, Transition, Idle, Free, Answered, Loadable, Connect, ConnectAnswered,
       ConnectFailed, Dropped, ChoiceRefused, ChooseUnconnected, Choosable, ChooseTrack,
       ReadFailed, LoadLayer, OpenDateLayers, DateLayersRead, Pull,
       PullAnswered, SignIn, SignOut, RefreshAccess, AccessAnswered, Edit, StopEditing,
       PreviewPublish, EndPreview, EndPublish

\* Every step leaves a change of the view alone, or begins it alone.
LEMMA ChangeStep ==
    ASSUME TypeOK, Requests, ChangeIsAlone, Next
    PROVE  ChangeIsAlone'
<1>1. CASE TrackAnswered
  <2>1. PICK r \in reads :
            /\ r.kind = "track" /\ Current(r) /\ reads' = Rest(r)
            /\ \/ UNCHANGED swap
               \/ Begin("track", r.track, r.to, settings.date,
                        {l \in Layers : Belongs(layer[l], settings.url) /\ Follows(layer[l])})
            /\ swap = Absent /\ UNCHANGED <<settings, offered, publishVars>>
    BY <1>1 DEF TrackAnswered, Answered, Idle
  <2>2. r.to = Resolve(offered, r.track) /\ preview = Absent /\ publishing = Absent
    BY <2>1 DEF Requests, ReadIsOfNow
  <2>3. \A x \in reads' : Ends(x) => ~Current(x)
    BY <2>1, LastWait DEF Ends
  <2> QED
    BY <2>1, <2>2, <2>3 DEF ChangeIsAlone, Begin
<1>2. CASE ApplyAsOf
  BY <1>2 DEF ApplyAsOf, ChangeIsAlone, Begin
<1>3. CASE SwapLayer \/ StoreFailed \/ SwapUndone
  BY <1>3, ChangeGoesOn DEF ChangeIsAlone, SameChange, swapRest, outside
<1>4. CASE SwapStored \/ SettingsUndone
  BY <1>4 DEF SwapStored, SettingsUndone, ChangeIsAlone
<1>5. CASE Elsewhere
  BY <1>5, ElsewhereIsIdle DEF ChangeIsAlone
<1> QED
  BY <1>1, <1>2, <1>3, <1>4, <1>5 DEF Elsewhere

\* Every step keeps the registry that of the settings it belongs to.
LEMMA RegistryStep ==
    ASSUME TypeOK, Requests, ChangeIsAlone, RegistryKept, Next, ~warned'
    PROVE  RegistryKept'
<1>1. CASE Connect
  <2>1. PICK u \in Backends :
            /\ settings' = [settings EXCEPT !.url = u]
            /\ registry' = IF u # settings.url THEN Absent ELSE registry
            /\ UNCHANGED <<who, offered, swap>>
    BY <1>1 DEF Connect
  <2>2. settings'.url = u /\ settings'.track = settings.track /\ swap = Absent
    BY <1>1, <2>1 DEF TypeOK, Connect, Free, Idle
  <2> QED
    BY <2>1, <2>2 DEF RegistryKept, Kept
<1>2. CASE ConnectAnswered
  <2>1. PICK r \in reads, d \in Deployments :
            /\ r.kind = "connect" /\ Current(r) /\ offered' = d.offer
            /\ registry' = [track |-> Discovered(d.offer, r.track), url |-> r.url, who |-> r.who]
            /\ UNCHANGED <<settings, who, swap>>
    BY <1>2 DEF ConnectAnswered
  <2>2. r.url = settings.url /\ r.who = who /\ r.track = Kept.track
    BY <2>1 DEF Requests, ReadIsOfNow, Current
  <2> QED
    BY <2>1, <2>2 DEF RegistryKept, Kept, Discovered
<1>3. CASE ConnectFailed \/ SignIn \/ SignOut
  BY <1>3 DEF ConnectFailed, SignIn, SignOut, RegistryKept
<1>4. CASE ChooseUnconnected
  BY <1>4 DEF ChooseUnconnected, RegistryKept
<1>5. CASE SwapLayer \/ StoreFailed \/ SwapUndone
  BY <1>5, ChangeGoesOn DEF RegistryKept, Kept, SameChange, swapRest, outside
<1>6. CASE SwapStored
  <2>1. /\ swap \in Swaps /\ swap # Absent /\ swap' = Absent /\ settings' = Viewed
        /\ UNCHANGED <<who, offered>>
    BY <1>6 DEF TypeOK, SwapStored, swapRest
  <2>2. settings'.url = settings.url /\ settings'.track = swap.track
    BY <2>1 DEF TypeOK, Viewed
  <2>3. CASE swap.kind = "track"
    <3>1. registry' = [track |-> swap.to, url |-> settings.url, who |-> who]
      BY <1>6, <2>3 DEF SwapStored
    <3> QED
      BY <2>1, <2>2, <2>3, <3>1 DEF ChangeIsAlone, RegistryKept, Kept
  <2>4. CASE swap.kind # "track"
    <3>1. registry' = registry /\ swap.kind = "date"
      BY <1>6, <2>1, <2>4 DEF SwapStored, Swaps
    <3> QED
      BY <2>1, <2>2, <3>1 DEF ChangeIsAlone, RegistryKept, Kept
  <2> QED
    BY <2>3, <2>4
<1>7. CASE SettingsUndone
  <2>1. /\ swap # Absent /\ swap' = Absent /\ settings' = swap.was
        /\ UNCHANGED <<registry, who, offered>>
    BY <1>7 DEF SettingsUndone, swapRest
  <2> QED
    BY <2>1 DEF ChangeIsAlone, RegistryKept, Kept
<1>8. CASE PullAnswered
  <2>1. PICK r \in reads :
            /\ Current(r) /\ r.to = CurrentTrack
            /\ registry' = [track |-> r.to, url |-> r.url, who |-> r.who]
            /\ UNCHANGED <<settings, who, offered, swap>> /\ swap = Absent
    BY <1>8 DEF PullAnswered, Answered, Idle
  <2>2. r.url = settings.url /\ r.who = who
    BY <2>1 DEF Requests, ReadIsOfNow, Current
  <2> QED
    BY <2>1, <2>2 DEF RegistryKept, Kept, CurrentTrack
<1>9. CASE TrackAnswered \/ ApplyAsOf
  <2>1. Kept' = Kept /\ UNCHANGED <<settings, registry, who, offered>>
    BY <1>9 DEF TrackAnswered, ApplyAsOf, Begin, Free, Answered, Idle, Kept
  <2> QED
    BY <2>1 DEF RegistryKept
<1>10. CASE Dropped \/ ChoiceRefused \/ ChooseTrack \/ ReadFailed \/ LoadLayer \/ OpenDateLayers
            \/ DateLayersRead \/ Pull \/ RefreshAccess \/ AccessAnswered \/ Edit \/ StopEditing
            \/ PreviewPublish \/ EndPreview \/ EndPublish
  <2>1. UNCHANGED <<settings, registry, who, offered, swap>>
    BY <1>10 DEF Dropped, ChoiceRefused, ChooseTrack, ReadFailed, LoadLayer, OpenDateLayers,
        DateLayersRead, Pull, RefreshAccess, AccessAnswered, Edit, StopEditing,
        PreviewPublish, EndPreview, EndPublish
  <2> QED
    BY <2>1 DEF RegistryKept, Kept
<1> QED
  BY <1>1, <1>2, <1>3, <1>4, <1>5, <1>6, <1>7, <1>8, <1>9, <1>10 DEF Next, Transition

\* No step selects another track under an open publish.
LEMMA TrackStep ==
    ASSUME TypeOK, Requests, ChangeIsAlone, TrackKept, Next, ~warned'
    PROVE  TrackKept'
<1>1. CASE SwapStored
  <2>1. /\ swap \in Swaps /\ swap # Absent /\ swap' = Absent /\ settings' = Viewed
        /\ UNCHANGED publishVars
    BY <1>1 DEF TypeOK, SwapStored, swapRest
  <2>2. settings'.track = swap.track
    BY <2>1 DEF TypeOK, Viewed
  <2>3. swap.kind \in {"track", "date"}
    BY <2>1 DEF Swaps
  <2> QED
    BY <2>1, <2>2, <2>3 DEF ChangeIsAlone, TrackKept, Kept
<1>2. CASE SettingsUndone
  BY <1>2 DEF SettingsUndone, swapRest, TrackKept, Kept
<1>3. CASE SwapLayer \/ StoreFailed \/ SwapUndone
  BY <1>3, ChangeGoesOn DEF TrackKept, Kept, SameChange, swapRest
<1>4. CASE TrackAnswered \/ ApplyAsOf
  <2>1. Kept' = Kept /\ UNCHANGED publishVars
    BY <1>4 DEF TrackAnswered, ApplyAsOf, Begin, Free, Answered, Idle, Kept
  <2> QED
    BY <2>1 DEF TrackKept
<1>5. CASE ChooseUnconnected
  BY <1>5 DEF ChooseUnconnected, Choosable, Free, TrackKept
<1>6. CASE Connect
  BY <1>6 DEF TypeOK, Connect, TrackKept, Kept
<1>7. CASE PreviewPublish \/ EndPreview \/ EndPublish
  BY <1>7 DEF PreviewPublish, EndPreview, EndPublish, Free, Idle, TrackKept, Kept
<1>8. CASE ConnectAnswered \/ ConnectFailed \/ Dropped \/ ChoiceRefused \/ ChooseTrack
           \/ ReadFailed \/ LoadLayer \/ OpenDateLayers \/ DateLayersRead \/ Pull \/ PullAnswered
           \/ SignIn \/ SignOut \/ RefreshAccess \/ AccessAnswered \/ Edit \/ StopEditing
  <2>1. UNCHANGED <<settings, swap, publishVars>>
    BY <1>8 DEF ConnectAnswered, ConnectFailed, Dropped, ChoiceRefused, ChooseTrack, ReadFailed,
        LoadLayer, OpenDateLayers, DateLayersRead, Pull, PullAnswered, SignIn, SignOut,
        RefreshAccess, AccessAnswered, Edit, StopEditing
  <2> QED
    BY <2>1 DEF TrackKept, Kept
<1> QED
  BY <1>1, <1>2, <1>3, <1>4, <1>5, <1>6, <1>7, <1>8 DEF Next, Transition

\* What is waited for stays under way, or the wait ends.
LEMMA WaitStep ==
    ASSUME TypeOK, Requests, ChangeIsAlone, WaitsForSomething, Next, ~warned'
    PROVE  WaitsForSomething'
<1> USE DEF Ends
<1>1. CASE Connect \/ ChooseUnconnected \/ ChooseTrack \/ Pull
  <2>1. \A name, to : \A kind \in {"connect", "track", "pull"} :
           Current(Read(kind, name, to)) /\ Ends(Read(kind, name, to))
    BY DEF Read, Current
  <2>2. \A u : LET x == [Read("connect", settings.track, NoTrack) EXCEPT !.url = u]
               IN  Current(x) /\ Ends(x)
    BY DEF Read, Current
  <2>3. \A R, x : Wait(R, x) /\ Current(x) /\ Ends(x) => WaitsForSomething'
    BY DEF Wait, WaitsForSomething
  <2>4. CASE Connect
    BY <2>2, <2>3, <2>4 DEF Connect
  <2>5. CASE ChooseUnconnected
    BY <2>1, <2>3, <2>5 DEF ChooseUnconnected, WaitsForSomething
  <2>6. CASE ChooseTrack
    BY <2>1, <2>3, <2>6 DEF ChooseTrack
  <2>7. CASE Pull
    BY <2>1, <2>3, <2>7 DEF Pull
  <2> QED
    BY <1>1, <2>4, <2>5, <2>6, <2>7
<1>2. CASE ConnectAnswered \/ ConnectFailed \/ ChoiceRefused \/ ReadFailed \/ PullAnswered
           \/ SignIn \/ SignOut
  BY <1>2 DEF ConnectAnswered, ConnectFailed, ChoiceRefused, ReadFailed, PullAnswered,
     SignIn, SignOut, WaitsForSomething
<1>3. CASE Dropped
  BY <1>3 DEF Dropped, Answered, Idle, Rest, WaitsForSomething
<1>4. CASE DateLayersRead \/ AccessAnswered
  BY <1>4 DEF DateLayersRead, AccessAnswered, Answered, Idle, Rest, WaitsForSomething
<1>5. CASE TrackAnswered
  <2>1. PICK r \in reads :
            \/ pending' = "no"
            \/ Begin("track", r.track, r.to, settings.date,
                     {l \in Layers : Belongs(layer[l], settings.url) /\ Follows(layer[l])})
    BY <1>5 DEF TrackAnswered
  <2>2. ASSUME pending' # "no"
        PROVE  swap' \in Swaps /\ swap'.kind = "track"
    <3>1. /\ r \in Reads /\ settings.date \in Dates
          /\ {l \in Layers : Belongs(layer[l], settings.url) /\ Follows(layer[l])} \in SUBSET Layers
      BY DEF TypeOK
    <3> QED
      BY <2>1, <2>2, <3>1, BeginTypes DEF Begin, Reads
  <2> QED
    BY <2>2, CatalogAssumption DEF WaitsForSomething
<1>6. CASE ApplyAsOf
  BY <1>6 DEF ApplyAsOf, Free, Idle, WaitsForSomething
<1>7. CASE SwapLayer \/ StoreFailed \/ SwapUndone
  BY <1>7, ChangeGoesOn DEF SameChange, outside, WaitsForSomething
<1>8. CASE SwapStored
  BY <1>8 DEF SwapStored, WaitsForSomething
<1>9. CASE SettingsUndone
  BY <1>9 DEF SettingsUndone, WaitsForSomething
<1>10. CASE LoadLayer \/ OpenDateLayers \/ RefreshAccess \/ Edit \/ StopEditing
            \/ PreviewPublish \/ EndPreview
  BY <1>10 DEF LoadLayer, OpenDateLayers, RefreshAccess, Edit, StopEditing, PreviewPublish,
     EndPreview, Loadable, Free, Idle, WaitsForSomething
<1>11. CASE EndPublish
  <2>1. \A x \in reads : Ends(x) => x \in Outdated(reads)
    BY OutdatedReads DEF TypeOK
  <2> QED
    BY <1>11, <2>1 DEF EndPublish, Idle, WaitsForSomething
<1> QED
  BY <1>1, <1>2, <1>3, <1>4, <1>5, <1>6, <1>7, <1>8, <1>9, <1>10, <1>11 DEF Next, Transition

-----------------------------------------------------------------------------
(* What is done to the layers.                                              *)

\* A layer which was kept under any permission is, after the flags of another were set.
LEMMA HeldIsKept ==
    ASSUME NEW r \in LayerRecords, NEW reader \in BOOLEAN,
           r.view # "live" => r.readOnly /\ r.edit = "no"
    PROVE  LET h == Held(r, reader)
           IN  /\ h \in LayerRecords /\ h.view = r.view
               /\ h.locked => reader
               /\ h.view # "live" => h.readOnly /\ h.edit = "no"
<1>1. r # Absent
  BY CatalogAssumption
<1>2. CASE r.view # "live"
  BY <1>1, <1>2 DEF Held, LayerRecords
<1>3. CASE r.view = "live" /\ reader
  BY <1>1, <1>3 DEF Held, LayerRecords
<1>4. CASE r.view = "live" /\ ~reader /\ r.locked
  <2>1. (r.readOnly /\ r.edit # "no") \in BOOLEAN
    OBVIOUS
  <2>2. \A b \in BOOLEAN : LET h == [r EXCEPT !.readOnly = b, !.locked = FALSE]
                           IN  h \in LayerRecords /\ h.view = r.view /\ ~h.locked
    BY DEF LayerRecords
  <2> QED
    BY <1>1, <1>4, <2>1, <2>2 DEF Held
<1>5. CASE r.view = "live" /\ ~reader /\ ~r.locked
  BY <1>1, <1>5 DEF Held
<1> QED
  BY <1>2, <1>3, <1>4, <1>5

\* The layers are kept when the permission that is known is applied to them.
LEMMA AppliedIsKept ==
    ASSUME NEW f \in Places, NEW reader \in BOOLEAN, layer' = AllHeld(f, reader),
           \A l \in Layers : f[l] # Absent /\ f[l].view # "live" => f[l].readOnly /\ f[l].edit = "no",
           reader => IsReader', swap' = Absent
    PROVE  LayersKept'
<1>1. ASSUME NEW l \in Layers, f[l] # Absent
      PROVE  LayerKept(layer[l])'
  <2>1. f[l] \in LayerRecords
    BY <1>1 DEF Places
  <2>2. layer'[l] = Held(f[l], reader)
    BY DEF AllHeld
  <2> QED
    BY <1>1, <2>1, <2>2, HeldIsKept DEF LayerKept
<1>2. ASSUME NEW l \in Layers, f[l] = Absent
      PROVE  LayerKept(layer[l])'
  BY <1>2 DEF AllHeld, Held, LayerKept
<1> QED
  BY <1>1, <1>2 DEF LayersKept

\* A layer which changed its source keeps its flag; views are marked again.
LEMMA MovedIsKept ==
    ASSUME NEW r \in LayerRecords, LayerKept(r), NEW track, NEW url, NEW date
    PROVE  /\ LayerKept(Repointed(r, track, url, date))
           /\ LayerKept([Repointed(r, track, url, date) EXCEPT !.provider = "class"])
           /\ LayerKept(Broken(r)) /\ LayerKept([r EXCEPT !.state = "broken", !.edit = "no"])
           /\ LayerKept(Restored(r)) /\ LayerKept(Disabled(r))
BY CatalogAssumption DEF LayerKept, Repointed, Broken, Restored, Disabled, LayerRecords

\* A layer which was created has no flag of the plugin's, and views are marked.
LEMMA CreatedIsKept ==
    ASSUME NEW track, NEW date, NEW view
    PROVE  LET r == Created(track, date, view)
           IN  ~r.locked /\ r.view = view /\ (view # "live" => r.readOnly /\ r.edit = "no")
BY DEF Created

\* Every step keeps the flags of the layers what they have to be.
LEMMA LayersStep ==
    ASSUME TypeOK, Targets, Requests, ChangeIsAlone, LayersKept, Next, ~warned'
    PROVE  LayersKept'
<1>1. layer \in Places /\ IsReader \in BOOLEAN /\ \A l \in Layers : LayerKept(layer[l])
  BY DEF TypeOK, IsReader, LayersKept
<1>2. \A l \in Layers : layer[l] # Absent /\ layer[l].view # "live" =>
         layer[l].readOnly /\ layer[l].edit = "no"
  BY <1>1 DEF LayerKept
<1>3. CASE Connect
  <2>1. PICK u \in Backends :
            settings' = [settings EXCEPT !.url = u] /\ layer' = AllHeld(layer, access = u)
            /\ access' = access /\ swap' = Absent
    BY <1>3 DEF Connect, Free, Idle, ApplyAccess
  <2>2. settings'.url = u
    BY <2>1 DEF TypeOK
  <2>3. (access = u) \in BOOLEAN /\ ((access = u) => IsReader')
    BY <2>1, <2>2 DEF IsReader
  <2> QED
    BY <1>1, <1>2, <2>1, <2>3, AppliedIsKept
<1>4. CASE ConnectAnswered
  <2>1. PICK r \in reads, d \in Deployments, reader \in BOOLEAN, done \in BOOLEAN :
            /\ access' = IF reader THEN settings.url ELSE Absent
            /\ Catalogued(AllHeld(layer, reader), Discovered(d.offer, r.track),
                          Resolve(d.offer, settings.track), d.native, done)
            /\ settings' = settings /\ swap' = Absent
    BY <1>4 DEF ConnectAnswered, Answered, Idle
  <2> DEFINE f == AllHeld(layer, reader)
             to == Resolve(d.offer, settings.track)
  <2>2. f \in Places /\ to \in Names
    BY <1>1, HeldIsTyped, NamesAreTyped, CatalogAssumption DEF TypeOK
  <2>3. \A l \in Layers : \/ layer'[l] = f[l]
                          \/ f[l] # Absent /\ layer'[l] \in {Upgraded(f[l], to), Broken(f[l])}
    BY <2>1, <2>2, CataloguedLayers
  <2>4. \A r_1 : LayerKept(r_1)' <=> (r_1 # Absent =>
            /\ r_1.locked => IsReader'
            /\ r_1.view # "live" => r_1.readOnly /\ r_1.edit = "no")
    BY DEF LayerKept
  <2>5. reader => IsReader'
    BY <2>1 DEF IsReader
  <2>6. ASSUME NEW l \in Layers
        PROVE  LayerKept(layer[l])'
    <3>1. CASE layer[l] = Absent
      <4>1. f[l] = Absent
        BY <3>1 DEF AllHeld, Held
      <4> QED
        BY <2>3, <4>1 DEF LayerKept
    <3>2. CASE layer[l] # Absent
      <4>1. layer[l] \in LayerRecords /\ f[l] = Held(layer[l], reader)
        BY <1>1, <3>2 DEF Places, AllHeld
      <4>2. /\ f[l] \in LayerRecords /\ (f[l].locked => reader)
            /\ f[l].view # "live" => f[l].readOnly /\ f[l].edit = "no"
        BY <1>2, <3>2, <4>1, HeldIsKept
      <4> HIDE DEF f
      <4>3. CASE layer'[l] = f[l]
        BY <2>5, <4>2, <4>3 DEF LayerKept
      <4>4. CASE layer'[l] = Upgraded(f[l], to)
        BY <2>5, <4>2, <4>4 DEF LayerKept, Upgraded, Repointed, LayerRecords
      <4>5. CASE layer'[l] = Broken(f[l])
        BY <2>5, <4>2, <4>5 DEF LayerKept, Broken, LayerRecords
      <4> QED
        BY <2>3, <4>3, <4>4, <4>5
    <3> QED
      BY <3>1, <3>2
  <2> QED
    BY <2>1, <2>6 DEF LayersKept
<1>5. CASE PullAnswered
  <2>1. PICK r \in reads, d \in Deployments, done \in BOOLEAN :
            /\ Catalogued(layer, r.to, CurrentTrack, d.native, done)
            /\ UNCHANGED <<settings, access, swap>> /\ swap = Absent
    BY <1>5 DEF PullAnswered, Answered, Idle
  <2>2. \A l \in Layers : \/ layer'[l] = layer[l]
                          \/ /\ layer[l] # Absent
                             /\ layer'[l] \in {Upgraded(layer[l], CurrentTrack), Broken(layer[l])}
    BY <1>1, <2>1, CurrentTrackType, CataloguedLayers
  <2>3. ASSUME NEW l \in Layers
        PROVE  LayerKept(layer'[l])
    <3>1. layer[l] # Absent => /\ layer[l] \in LayerRecords
                               /\ LayerKept(Upgraded(layer[l], CurrentTrack))
                               /\ LayerKept(Broken(layer[l]))
      BY <1>1, MovedIsKept DEF Upgraded, Places
    <3> QED
      BY <1>1, <2>2, <3>1
  <2> QED
    BY <2>1, <2>3 DEF LayersKept, LayerKept, IsReader
<1>6. CASE SwapLayer
  <2>1. PICK l \in swap.todo :
           \/ layer' = [layer EXCEPT ![l].state = "broken", ![l].edit = "no"]
           \/ layer' = [layer EXCEPT ![l] = Repointed(@, swap.to, settings.url, swap.date)]
    BY <1>6 DEF SwapLayer
  <2>2. l \in Layers /\ layer[l] \in LayerRecords
    BY <1>1, <1>6, <2>1, ChangeGoesOn DEF Targets, Swaps, Places
  <2>3. LayerKept(layer'[l])
    <3> DEFINE bad == [layer[l] EXCEPT !.state = "broken", !.edit = "no"]
               good == Repointed(layer[l], swap.to, settings.url, swap.date)
    <3>1. layer'[l] = good \/ layer'[l] = bad
      BY <1>1, <2>1, <2>2 DEF Places
    <3>2. LayerKept(layer[l])
      BY <1>1, <2>2 DEF LayersKept
    <3>3. LayerKept(good)
      BY <2>2, <3>2, CatalogAssumption DEF LayerKept, Repointed, LayerRecords
    <3>4. LayerKept(bad)
      <4>1. /\ bad.locked = layer[l].locked /\ bad.view = layer[l].view
            /\ bad.readOnly = layer[l].readOnly /\ bad.edit = "no"
        BY <2>2 DEF LayerRecords
      <4> HIDE DEF bad
      <4>2. layer[l] # Absent
        BY <2>2, CatalogAssumption
      <4> QED
        BY <3>2, <4>1, <4>2 DEF LayerKept
    <3> HIDE DEF good, bad
    <3> QED
      BY <3>1, <3>3, <3>4 DEF LayerKept
  <2>4. \A m \in Layers : LayerKept(layer'[m])
    BY <1>1, <2>1, <2>3 DEF Places
  <2>5. IsReader' = IsReader /\ swap'.saved = swap.saved /\ swap # Absent
    BY <1>6, ChangeGoesOn DEF SameChange, outside, IsReader
  <2> QED
    BY <2>4, <2>5 DEF LayersKept, LayerKept
<1>7. CASE StoreFailed
  <2>1. IsReader' = IsReader /\ swap'.saved = swap.saved /\ swap # Absent /\ layer' = layer
    BY <1>7, ChangeGoesOn DEF StoreFailed, SameChange, outside, IsReader
  <2> QED
    BY <2>1 DEF LayersKept, LayerKept
<1>8. CASE SwapUndone
  <2>1. PICK l \in swap.touched :
            \/ layer' = [layer EXCEPT ![l] = Restored(swap.saved[l])]
            \/ layer' = [layer EXCEPT ![l] = Disabled(@)]
            \/ UNCHANGED layer
    BY <1>8 DEF SwapUndone
  <2>2. l \in Layers /\ layer[l] \in LayerRecords /\ swap.saved[l] \in LayerRecords /\ swap # Absent
    BY <1>1, <1>8, <2>1, ChangeGoesOn DEF Targets, Swaps, Places
  <2>3. LayerKept(layer'[l])
    BY <1>1, <2>1, <2>2, MovedIsKept DEF LayersKept, Places
  <2>4. \A m \in Layers : LayerKept(layer'[m])
    BY <1>1, <2>1, <2>3 DEF Places
  <2>5. IsReader' = IsReader /\ swap'.saved = swap.saved
    BY <1>8, ChangeGoesOn DEF SameChange, outside, IsReader
  <2> QED
    BY <2>2, <2>4, <2>5 DEF LayersKept, LayerKept
<1>9. CASE SwapStored
  <2>1. swap \in Swaps /\ settings' = Viewed /\ swap' = Absent
    BY <1>9 DEF TypeOK, SwapStored
  <2>2. settings'.url = settings.url
    BY <2>1 DEF TypeOK, Viewed
  <2>3. \E reader \in BOOLEAN : layer' = AllHeld(layer, reader) /\ (reader => IsReader')
    <3>1. CASE swap.kind = "track"
      BY <1>9, <3>1 DEF SwapStored, ApplyAccess
    <3>2. CASE swap.kind # "track"
      BY <1>1, <1>9, <2>2, <3>2 DEF SwapStored, ApplyAccess, IsReader
    <3> QED
      BY <3>1, <3>2
  <2> QED
    BY <1>1, <1>2, <2>1, <2>3, AppliedIsKept
<1>10. CASE SettingsUndone
  <2>1. settings' = swap.was /\ swap # Absent /\ swap' = Absent /\ UNCHANGED <<access, layer>>
    BY <1>10 DEF SettingsUndone
  <2> QED
    BY <1>1, <2>1 DEF ChangeIsAlone, LayersKept, LayerKept, IsReader
<1>11. CASE TrackAnswered \/ ApplyAsOf
  <2>1. /\ UNCHANGED <<settings, access, layer>> /\ swap = Absent
        /\ swap' # Absent => swap'.saved = layer
    BY <1>11 DEF TrackAnswered, ApplyAsOf, Begin, Free, Answered, Idle
  <2> QED
    BY <1>1, <2>1 DEF LayersKept, LayerKept, IsReader
<1>12. CASE LoadLayer
  <2>1. PICK l \in Layers, view \in Loads :
            /\ layer' = AllHeld([layer EXCEPT ![l] = Created(CurrentTrack, settings.date, view)],
                                IsReader)
            /\ UNCHANGED <<settings, access>> /\ swap' = Absent
    BY <1>12 DEF LoadLayer, Loadable, Free, Idle, ApplyAccess
  <2> DEFINE r == Created(CurrentTrack, settings.date, view)
             f == [layer EXCEPT ![l] = r]
  <2>2. r \in LayerRecords
    BY CurrentTrackType, CreatedIsTyped, CatalogAssumption DEF TypeOK
  <2>3. r.view # "live" => r.readOnly /\ r.edit = "no"
    BY CreatedIsKept
  <2> HIDE DEF r
  <2>4. /\ f \in Places
        /\ \A m \in Layers : f[m] # Absent /\ f[m].view # "live" => f[m].readOnly /\ f[m].edit = "no"
    BY <1>1, <1>2, <2>2, <2>3 DEF Places
  <2>5. layer' = AllHeld(f, IsReader) /\ IsReader' = IsReader
    BY <2>1 DEF r, IsReader
  <2> HIDE DEF f
  <2> QED
    BY <1>1, <2>1, <2>4, <2>5, AppliedIsKept
<1>13. ASSUME NEW l \in Layers, Snapshot(l), UNCHANGED <<settings, access>>, swap' = Absent
       PROVE  LayersKept'
  <2>1. PICK d \in Dates : layer' = [layer EXCEPT ![l] = Created(CurrentTrack, d, "dated")]
    BY <1>13 DEF Snapshot
  <2>2. LayerKept(Created(CurrentTrack, d, "dated"))
    BY CreatedIsKept DEF LayerKept
  <2>3. \A m \in Layers : LayerKept(layer'[m])
    BY <1>1, <2>1, <2>2 DEF Places
  <2> QED
    BY <1>13, <2>3 DEF LayersKept, LayerKept, IsReader
<1>14. ASSUME UNCHANGED <<settings, access, layer>>, swap' = Absent
       PROVE  LayersKept'
  BY <1>1, <1>14 DEF LayersKept, LayerKept, IsReader
<1>15. CASE OpenDateLayers
  BY <1>13, <1>14, <1>15 DEF OpenDateLayers, Loadable, Free, Idle
<1>16. CASE DateLayersRead
  BY <1>13, <1>14, <1>16 DEF DateLayersRead, Answered, Idle
<1>17. CASE SignIn \/ SignOut \/ RefreshAccess
  <2>1. layer' = AllHeld(layer, FALSE) /\ swap' = Absent
    BY <1>17 DEF SignIn, SignOut, RefreshAccess, Free, Idle, ApplyAccess
  <2> QED
    BY <1>1, <1>2, <2>1, AppliedIsKept
<1>18. CASE AccessAnswered
  <2>1. PICK r \in reads, reader \in BOOLEAN :
            /\ Current(r) /\ access' = IF reader THEN r.url ELSE Absent
            /\ layer' = AllHeld(layer, reader) /\ settings' = settings /\ swap' = Absent
    BY <1>18 DEF AccessAnswered, Answered, Idle, ApplyAccess
  <2>2. r.url = settings.url
    BY <2>1 DEF Requests, ReadIsOfNow, Current
  <2>3. reader => IsReader'
    BY <2>1, <2>2 DEF IsReader
  <2> QED
    BY <1>1, <1>2, <2>1, <2>3, AppliedIsKept
<1>19. CASE Edit
  <2>1. PICK l \in Layers :
            /\ layer[l] # Absent
            /\ \/ /\ layer[l].edit = "no" /\ ~layer[l].readOnly
                  /\ layer' = [layer EXCEPT ![l].edit = "open"]
               \/ /\ layer[l].edit = "open"
                  /\ layer' = [layer EXCEPT ![l].edit = "dirty"]
            /\ UNCHANGED <<settings, access>> /\ swap' = Absent
    BY <1>19 DEF Edit, Free, Idle, Here
  <2>2. layer[l] \in LayerRecords /\ layer[l].view = "live"
    BY <1>1, <1>2, <2>1 DEF Places
  <2>3. LayerKept(layer'[l])
    BY <1>1, <2>1, <2>2 DEF LayerKept, LayerRecords, Places
  <2>4. \A m \in Layers : LayerKept(layer'[m])
    BY <1>1, <2>1, <2>3 DEF Places
  <2> QED
    BY <2>1, <2>4 DEF LayersKept, LayerKept, IsReader
<1>20. CASE StopEditing
  <2>1. PICK l \in Layers :
            /\ layer[l] # Absent
            /\ \/ layer' = AllHeld([layer EXCEPT ![l].edit = "no"], IsReader)
               \/ layer' = [layer EXCEPT ![l].edit = "no"]
            /\ UNCHANGED <<settings, access>> /\ swap' = Absent
    BY <1>20 DEF StopEditing, Free, Idle, Here, ApplyAccess
  <2> DEFINE f == [layer EXCEPT ![l].edit = "no"]
  <2>2. layer[l] \in LayerRecords
    BY <1>1, <2>1 DEF Places
  <2>3. f \in Places /\ LayerKept(f[l]) /\ \A m \in Layers \ {l} : f[m] = layer[m]
    <3>1. f[l] = [layer[l] EXCEPT !.edit = "no"] /\ \A m \in Layers \ {l} : f[m] = layer[m]
      BY <1>1 DEF Places
    <3>2. f[l] \in LayerRecords /\ LayerKept(f[l])
      BY <1>1, <2>1, <2>2, <3>1 DEF LayerKept, LayerRecords
    <3> QED
      BY <1>1, <3>1, <3>2 DEF Places
  <2> HIDE DEF f
  <2>4. \A m \in Layers : LayerKept(f[m])
    BY <1>1, <2>3
  <2>5. CASE layer' = AllHeld(f, IsReader)
    <3>1. \A m \in Layers : f[m] # Absent /\ f[m].view # "live" => f[m].readOnly /\ f[m].edit = "no"
      BY <2>4 DEF LayerKept
    <3>2. IsReader' = IsReader
      BY <2>1 DEF IsReader
    <3> QED
      BY <1>1, <2>1, <2>3, <2>5, <3>1, <3>2, AppliedIsKept
  <2>6. CASE layer' = f
    BY <2>1, <2>4, <2>6 DEF LayersKept, LayerKept, IsReader
  <2> QED
    BY <2>1, <2>5, <2>6 DEF f
<1>21. CASE EndPublish
  <2>1. layer' = AllHeld(layer, IsReader) /\ UNCHANGED <<settings, access>> /\ swap' = Absent
    BY <1>21 DEF EndPublish, Idle, ApplyAccess
  <2>2. IsReader' = IsReader
    BY <2>1 DEF IsReader
  <2> QED
    BY <1>1, <1>2, <2>1, <2>2, AppliedIsKept
<1>22. CASE ChooseUnconnected
  <2>1. /\ layer' \in {layer, AllHeld(layer, IsReader)} /\ access' = access /\ swap' = Absent
        /\ settings'.url = settings.url
    BY <1>22 DEF TypeOK, ChooseUnconnected, Choosable, Free, Idle, ApplyAccess
  <2>2. IsReader' = IsReader
    BY <2>1 DEF IsReader
  <2>3. CASE layer' = layer
    BY <1>1, <2>1, <2>2, <2>3 DEF LayersKept, LayerKept
  <2>4. CASE layer' = AllHeld(layer, IsReader)
    BY <1>1, <1>2, <2>1, <2>2, <2>4, AppliedIsKept
  <2> QED
    BY <2>1, <2>3, <2>4
<1>23. CASE ConnectFailed \/ Dropped \/ ChoiceRefused \/ ChooseTrack \/ ReadFailed \/ Pull
            \/ PreviewPublish \/ EndPreview
  <2>1. UNCHANGED <<settings, access, layer>> /\ swap' = Absent
    BY <1>23 DEF ConnectFailed, Dropped, ChoiceRefused, ChooseTrack, ReadFailed, Pull,
       PreviewPublish, EndPreview, Choosable, Free, Answered, Idle
  <2> QED
    BY <1>14, <2>1
<1> QED
  BY <1>3, <1>4, <1>5, <1>6, <1>7, <1>8, <1>9, <1>10, <1>11, <1>12, <1>15, <1>16, <1>17, <1>18,
     <1>19, <1>20, <1>21, <1>22, <1>23 DEF Next, Transition

-----------------------------------------------------------------------------
(* Theorems.                                                                *)

\* The invariant holds to begin with.
LEMMA KnownInit == Init => CatalogInv
<1> SUFFICES ASSUME Init PROVE CatalogInv
  OBVIOUS
<1>1. TypeOK
  BY TypeInit
<1>2. Targets /\ (warned => swap = Absent)
  BY DEF Init, Targets
<1>3. Requests /\ ChangeIsAlone /\ RegistryKept /\ TrackKept /\ WaitsForSomething
  BY DEF Init, Requests, OneWait, ChangeIsAlone, RegistryKept, TrackKept, WaitsForSomething
<1>4. LayersKept
  BY CatalogAssumption DEF Init, LayersKept, LayerKept, Opened
<1> QED
  BY <1>1, <1>2, <1>3, <1>4 DEF CatalogInv, Known

\* Every step keeps the invariant.
LEMMA KnownStep == CatalogInv /\ [Next]_vars => CatalogInv'
<1> SUFFICES ASSUME CatalogInv, [Next]_vars PROVE CatalogInv'
  OBVIOUS
<1>1. TypeOK' /\ Targets'
  BY TypeStep, TargetsStep DEF CatalogInv
<1>2. CASE Next
  <2>1. ~warned
    <3>1. CASE Elsewhere
      BY <1>2, <3>1, ElsewhereIsIdle DEF Idle
    <3>2. CASE ~Elsewhere
      BY <3>2 DEF CatalogInv, Elsewhere, TrackAnswered, ApplyAsOf, Free, Answered, Idle, SwapLayer,
         SwapStored, StoreFailed, SwapUndone, SettingsUndone
    <3> QED
      BY <3>1, <3>2
  <2>2. warned' => swap' = Absent
    <3>1. CASE Elsewhere
      BY <1>2, <3>1, ElsewhereIsIdle
    <3>2. CASE SettingsUndone
      BY <3>2 DEF SettingsUndone
    <3>3. CASE ~Elsewhere /\ ~SettingsUndone
      BY <2>1, <3>3 DEF Elsewhere, TrackAnswered, ApplyAsOf, SwapLayer, SwapStored, StoreFailed,
         SwapUndone
    <3> QED
      BY <3>1, <3>2, <3>3
  <2>3. ~warned' => Known'
    BY <1>2, <2>1, RequestsStep, ChangeStep, RegistryStep, TrackStep, WaitStep, LayersStep
       DEF CatalogInv, Known
  <2> QED
    BY <1>1, <2>2, <2>3 DEF CatalogInv
<1>3. CASE UNCHANGED vars
  <2>1. Known' <=> Known
    BY <1>3 DEF vars, Known, Requests, OneWait, ReadIsOfNow, ChangeIsAlone, RegistryKept,
       TrackKept, WaitsForSomething, LayersKept, LayerKept, Kept, IsReader
  <2> QED
    BY <1>1, <1>3, <2>1 DEF CatalogInv, vars
<1> QED
  BY <1>2, <1>3

\* What the panel knows of the backend, the requests that are out, a change of the view
\* under way, an open publish and the layers' flags fit each other in every state.
THEOREM CatalogIsSound == Spec => []CatalogInv
<1>1. Init => CatalogInv
  BY KnownInit
<1>2. CatalogInv /\ [Next]_vars => CatalogInv'
  BY KnownStep
<1> QED
  BY <1>1, <1>2, PTL DEF Spec

\* Every variable keeps its type, for any deployment, project and faults.
THEOREM CatalogTypes == Spec => []TypeOK
<1>1. CatalogInv => TypeOK
  BY DEF CatalogInv
<1> QED
  BY <1>1, CatalogIsSound, PTL

\* The class registry is the one of the selected track, read at this address and under this
\* account, through any order of answers and any failed change of the track (_on_connected,
\* set_track, pull_all_remote).
THEOREM RegistryIsTheSelected == Spec => []RegistryIsCurrent
<1>1. CatalogInv => RegistryIsCurrent
  BY DEF CatalogInv, Known, RegistryKept, Kept, RegistryIsCurrent, CurrentTrack, Idle
<1> QED
  BY <1>1, CatalogIsSound, PTL

\* Nothing waits for the registry when no request will bring it, unless that request was
\* cancelled (_registry_pending).
THEOREM WaitHasAnEnd == Spec => []PendingIsUnderway
<1>1. CatalogInv => PendingIsUnderway
  BY DEF CatalogInv, Known, WaitsForSomething, PendingIsUnderway, Idle
<1> QED
  BY <1>1, CatalogIsSound, PTL

\* A layer is held read-only by the plugin only where the caller is known to be a reader
\* (LayerAccess.apply, _refresh_access).
THEOREM NobodyIsLockedOut == Spec => []UnknownIsUnlocked
<1>1. CatalogInv => UnknownIsUnlocked
  BY DEF CatalogInv, Known, LayersKept, LayerKept, UnknownIsUnlocked, Idle, Here
<1> QED
  BY <1>1, CatalogIsSound, PTL

\* The track named in the preview of a publish stays selected until its run has ended
\* (set_track, publish_local_layers).
THEOREM PublishGoesWhereItSaid == Spec => []PublishKeepsTrack
<1>1. CatalogInv => PublishKeepsTrack
  BY DEF CatalogInv, Known, TrackKept, Kept, PublishKeepsTrack, Idle
<1> QED
  BY <1>1, CatalogIsSound, PTL

\* No change of the view, upgrade, undo or permission makes a read-only copy or a date view
\* editable (repoint_layer, LayerState.restore).
THEOREM ViewsAreNeverEdited == Spec => []ViewsStayReadOnly
<1>1. CatalogInv => ViewsStayReadOnly
  BY DEF CatalogInv, Known, LayersKept, LayerKept, ViewsStayReadOnly, Idle, Here
<1> QED
  BY <1>1, CatalogIsSound, PTL

-----------------------------------------------------------------------------
(* Catalog implements ViewChange, and ends no editing session with unsaved    *)
(* edits, for any numbers of layers, dates and tracks and any faults of a     *)
(* change of the view.                                                        *)


\* Layers which follow the view and show something show this date.
ShowsDate(f, date) ==
    \A l \in Layers : Visible(f[l]) # Absent /\ Visible(f[l]).follows => Visible(f[l]).date = date

Clean(f) == \A l \in Layers : f[l] # Absent => f[l].edit # "dirty"

\* On the way to the new view: the settings are the old ones, the layers touched show the
\* new view, and the others were not changed. A change of the date is of all that follow.
Ahead ==
    /\ settings = swap.was
    /\ swap.kind = "track" => swap.date = settings.date
    /\ \A l \in swap.todo \cup swap.touched : Follows(swap.saved[l])
    /\ swap.kind = "date" =>
          \A l \in Layers : Follows(swap.saved[l]) => l \in swap.todo \cup swap.touched
    /\ \A l \in Layers :
          IF l \in swap.touched
          THEN Visible(layer[l]) = [track |-> swap.to, date |-> swap.date, follows |-> TRUE]
          ELSE layer[l] = swap.saved[l]

\* On the way back: what is not to be undone any more shows what it showed, or nothing.
Back ==
    ~swap.unsafe => \A l \in Layers \ swap.touched :
                       Visible(layer[l]) \in {Absent, Visible(swap.saved[l])}

Whole ==
    swap # Absent =>
        /\ ShowsDate(swap.saved, swap.was.date) /\ Clean(swap.saved) /\ Clean(layer)
        /\ swap.phase = "swap" => Ahead
        /\ swap.phase = "undo" => Back

ViewInv == (Idle => ShowsDate(layer, settings.date)) /\ Whole

-----------------------------------------------------------------------------
(* What a layer shows.                                                      *)

\* A record of a layer tells whether something is shown, and what.
LEMMA VisibleOf ==
    ASSUME NEW r \in LayerRecords
    PROVE  /\ r # Absent
           /\ r.state = "open" => /\ Visible(r) # Absent
                                  /\ Visible(r) = [track |-> r.track, date |-> r.date,
                                                   follows |-> r.view # "dated"]
           /\ r.state # "open" => Visible(r) = Absent
<1>1. r # Absent
  BY CatalogAssumption
<1>2. r.state = "open" => [track |-> r.track, date |-> r.date, follows |-> r.view # "dated"] \in Views
  BY DEF LayerRecords, Views
<1> QED
  BY <1>1, <1>2, CatalogAssumption DEF Visible

\* What shows the view that is followed is no date view.
LEMMA FollowsTheView ==
    ASSUME NEW r \in LayerRecords, NEW track \in Names, NEW date \in Dates,
           Visible(r) = [track |-> track, date |-> date, follows |-> TRUE]
    PROVE  Visible(r) # Absent /\ r.view # "dated"
<1> DEFINE v == [track |-> track, date |-> date, follows |-> TRUE]
           w == [track |-> r.track, date |-> r.date, follows |-> r.view # "dated"]
<1>1. v \in Views /\ v.follows = TRUE
  BY DEF Views
<1>2. w.follows = (r.view # "dated")
  OBVIOUS
<1>3. Visible(r) = v
  OBVIOUS
<1> HIDE DEF v
<1>4. Visible(r) # Absent
  BY <1>1, <1>3, CatalogAssumption
<1>5. Visible(r) = w
  BY <1>4, VisibleOf DEF LayerRecords
<1> HIDE DEF w
<1> QED
  BY <1>1, <1>2, <1>3, <1>4, <1>5

\* The read-only flag is not part of what a layer shows, nor is an edit buffer.
LEMMA HeldShowsTheSame ==
    ASSUME NEW r \in LayerRecords, NEW reader \in BOOLEAN
    PROVE  LET h == Held(r, reader)
           IN  /\ h \in LayerRecords /\ Visible(h) = Visible(r)
               /\ h.track = r.track /\ h.edit = r.edit /\ h.view = r.view /\ h.state = r.state
               /\ h.url = r.url /\ h.provider = r.provider /\ h.date = r.date
<1>1. r # Absent
  BY CatalogAssumption
<1>2. \A b, c \in BOOLEAN :
         LET h == [r EXCEPT !.readOnly = b, !.locked = c]
         IN  /\ h \in LayerRecords
             /\ h.track = r.track /\ h.edit = r.edit /\ h.view = r.view /\ h.state = r.state
             /\ h.url = r.url /\ h.provider = r.provider /\ h.date = r.date
  BY DEF LayerRecords
<1>3. \/ Held(r, reader) = r
      \/ \E b, c \in BOOLEAN : Held(r, reader) = [r EXCEPT !.readOnly = b, !.locked = c]
  <2>1. CASE r.view # "live"
    <3>1. r.readOnly \in BOOLEAN /\ [r EXCEPT !.locked = FALSE] =
             [r EXCEPT !.readOnly = r.readOnly, !.locked = FALSE]
      BY DEF LayerRecords
    <3> QED
      BY <1>1, <2>1, <3>1 DEF Held
  <2>2. CASE r.view = "live" /\ reader
    BY <1>1, <2>2 DEF Held
  <2>3. CASE r.view = "live" /\ ~reader /\ r.locked
    <3>1. (r.readOnly /\ r.edit # "no") \in BOOLEAN
      OBVIOUS
    <3> QED
      BY <1>1, <2>3, <3>1 DEF Held
  <2>4. CASE r.view = "live" /\ ~reader /\ ~r.locked
    BY <1>1, <2>4 DEF Held
  <2> QED
    BY <2>1, <2>2, <2>3, <2>4
<1>4. LET h == Held(r, reader)
      IN  /\ h \in LayerRecords
          /\ h.track = r.track /\ h.edit = r.edit /\ h.view = r.view /\ h.state = r.state
          /\ h.url = r.url /\ h.provider = r.provider /\ h.date = r.date
  BY <1>2, <1>3
<1> QED
  BY <1>1, <1>4, VisibleOf

\* A layer which was re-pointed shows the view it was re-pointed to.
LEMMA RepointedShows ==
    ASSUME NEW r \in LayerRecords, NEW track \in Names, NEW url \in Backends, NEW date \in Dates
    PROVE  /\ Visible(Repointed(r, track, url, date)) =
                 [track |-> track, date |-> date, follows |-> r.view # "dated"]
           /\ Visible([Repointed(r, track, url, date) EXCEPT !.provider = "class"]) =
                 [track |-> track, date |-> date, follows |-> r.view # "dated"]
           /\ Visible(Broken(r)) = Absent
           /\ Visible(Disabled(r)) = Absent
           /\ Visible(Restored(r)) = Visible(r)
           /\ Repointed(r, track, url, date).edit = "no" /\ Broken(r).edit = r.edit
           /\ Restored(r).edit = "no" /\ Disabled(r).edit = "no"
<1>1. LET p == Repointed(r, track, url, date)
      IN  /\ p \in LayerRecords /\ p.state = "open" /\ p.track = track /\ p.date = date
          /\ p.view = r.view /\ p.edit = "no"
  BY DEF Repointed, LayerRecords
<1>2. LET p == [Repointed(r, track, url, date) EXCEPT !.provider = "class"]
      IN  /\ p \in LayerRecords /\ p.state = "open" /\ p.track = track /\ p.date = date
          /\ p.view = r.view
  BY DEF Repointed, LayerRecords
<1>3. Broken(r) \in LayerRecords /\ Broken(r).state = "broken" /\ Broken(r).edit = r.edit
  BY DEF Broken, LayerRecords
<1>4. Disabled(r) \in LayerRecords /\ Disabled(r).state = "off" /\ Disabled(r).edit = "no"
  BY DEF Disabled, LayerRecords
<1>5. /\ Restored(r) \in LayerRecords /\ Restored(r).state = r.state /\ Restored(r).edit = "no"
      /\ Restored(r).track = r.track /\ Restored(r).date = r.date /\ Restored(r).view = r.view
  BY DEF Restored, LayerRecords
<1>6. Visible(Repointed(r, track, url, date)) =
         [track |-> track, date |-> date, follows |-> r.view # "dated"]
  BY <1>1, VisibleOf
<1>7. Visible([Repointed(r, track, url, date) EXCEPT !.provider = "class"]) =
         [track |-> track, date |-> date, follows |-> r.view # "dated"]
  <2> DEFINE p == [Repointed(r, track, url, date) EXCEPT !.provider = "class"]
  <2>1. /\ p \in LayerRecords /\ p.state = "open" /\ p.track = track /\ p.date = date
        /\ p.view = r.view
    BY <1>2
  <2> HIDE DEF p
  <2>2. Visible(p) = [track |-> track, date |-> date, follows |-> r.view # "dated"]
    BY <2>1, VisibleOf
  <2> QED
    BY <2>2 DEF p
<1>8. Visible(Broken(r)) = Absent /\ Visible(Disabled(r)) = Absent
  BY <1>3, <1>4, VisibleOf
<1>9. Visible(Restored(r)) = Visible(r)
  BY <1>5, VisibleOf DEF LayerRecords
<1> QED
  BY <1>1, <1>3, <1>4, <1>5, <1>6, <1>7, <1>8, <1>9

\* A layer which is added shows what it was created for.
LEMMA CreatedShows ==
    ASSUME TypeOK, NEW track \in Names, NEW date \in Dates, NEW view \in {"live", "reading", "dated"}
    PROVE  Visible(Created(track, date, view)) =
              [track |-> track, date |-> date, follows |-> view # "dated"]
<1>1. LET c == Created(track, date, view)
      IN  c.state = "open" /\ c.track = track /\ c.date = date /\ c.view = view
  BY DEF Created
<1> QED
  BY <1>1, CreatedIsTyped, VisibleOf

-----------------------------------------------------------------------------
(* Steps which begin, and are part of, no change of the view.               *)

\* A layer is as it was to the eye; or it is clean and shows the view that is set, or
\* nothing any more; or it was added, and shows the view that is set or a date of its own.
Goes(r, s) ==
    \/ s = r
    \/ /\ r # Absent /\ s # Absent /\ Visible(s) = Visible(r) /\ s.track = r.track
       /\ r.edit = "dirty" => s.edit = "dirty" \/ (StopEditing /\ s.edit = "no")
    \/ /\ r # Absent /\ r.edit # "dirty" /\ Visible(s) = Absent
    \/ /\ r # Absent /\ r.edit # "dirty" /\ r.view # "dated"
       /\ \E t \in Names : Visible(s) = [track |-> t, date |-> settings.date, follows |-> TRUE]
    \/ /\ r = Absent
       /\ \E t \in Names : Visible(s) = [track |-> t, date |-> settings.date, follows |-> TRUE]
    \/ /\ r = Absent
       /\ \E t \in Names, d \in Dates : Visible(s) = [track |-> t, date |-> d, follows |-> FALSE]

\* Two layers which look alike, are on one track and as dirty go the same ways.
LEMMA GoesAlike ==
    ASSUME NEW r, NEW s, NEW t, r # Absent, s # Absent, Visible(s) = Visible(r),
           s.track = r.track, s.edit = r.edit, s.view = r.view
    PROVE  (Goes(t, r) => Goes(t, s)) /\ (Goes(s, t) => Goes(r, t))
<1>1. ASSUME Goes(t, r) PROVE Goes(t, s)
  <2>1. CASE r = t
    BY <2>1 DEF Goes
  <2>2. CASE /\ t # Absent /\ Visible(r) = Visible(t) /\ r.track = t.track
             /\ t.edit = "dirty" => r.edit = "dirty" \/ (StopEditing /\ r.edit = "no")
    BY <2>2 DEF Goes
  <2> QED
    BY <1>1, <2>1, <2>2 DEF Goes
<1>2. ASSUME Goes(s, t) PROVE Goes(r, t)
  <2>1. CASE t = s
    BY <2>1 DEF Goes
  <2> QED
    BY <1>2, <2>1 DEF Goes
<1> QED
  BY <1>1, <1>2

\* The flags may be set after another change of the layers, or before it.
LEMMA HeldGoes ==
    ASSUME NEW f \in Places, NEW reader \in BOOLEAN, NEW l \in Layers, NEW t
    PROVE  /\ Goes(t, f[l]) => Goes(t, AllHeld(f, reader)[l])
           /\ Goes(AllHeld(f, reader)[l], t) => Goes(f[l], t)
<1> DEFINE h == AllHeld(f, reader)[l]
<1>1. h = Held(f[l], reader)
  BY DEF AllHeld
<1>2. CASE f[l] = Absent
  BY <1>1, <1>2 DEF Held
<1>3. CASE f[l] # Absent
  <2>1. f[l] \in LayerRecords
    BY <1>3 DEF Places
  <2>2. /\ h # Absent /\ Visible(h) = Visible(f[l]) /\ h.track = f[l].track
        /\ h.edit = f[l].edit /\ h.view = f[l].view
    BY <1>1, <2>1, HeldShowsTheSame, CatalogAssumption
  <2> HIDE DEF h
  <2>3. (Goes(t, f[l]) => Goes(t, h)) /\ (Goes(h, t) => Goes(f[l], t))
    BY <1>3, <2>2, GoesAlike
  <2> QED
    BY <2>3 DEF h
<1> QED
  BY <1>2, <1>3

\* _apply_current_catalog changes the provider of clean layers only.
LEMMA CataloguedGoes ==
    ASSUME TypeOK, NEW f \in Places, NEW style, NEW track \in Names, NEW classes, NEW done,
           Catalogued(f, style, track, classes, done), NEW l \in Layers
    PROVE  Goes(f[l], layer'[l])
<1>1. PICK good, bad \in SUBSET Upgradable(f, style) : layer' = Moved(f, track, good, bad)
  BY DEF Catalogued
<1>2. CASE l \in Upgradable(f, style)
  <2>1. /\ f[l] \in LayerRecords /\ f[l] # Absent /\ f[l].edit # "dirty" /\ f[l].view # "dated"
    BY <1>2 DEF Upgradable, Belongs, Places
  <2>2. layer'[l] \in {f[l], Upgraded(f[l], track), Broken(f[l])}
    BY <1>1 DEF Moved
  <2>3. settings.url \in Backends /\ settings.date \in Dates
    BY DEF TypeOK
  <2>4. /\ Visible(Upgraded(f[l], track)) = [track |-> track, date |-> settings.date, follows |-> TRUE]
        /\ Visible(Broken(f[l])) = Absent
    BY <2>1, <2>3, RepointedShows DEF Upgraded
  <2> QED
    BY <2>1, <2>2, <2>4 DEF Goes
<1>3. CASE l \notin Upgradable(f, style)
  BY <1>1, <1>3 DEF Moved, Goes
<1> QED
  BY <1>2, <1>3

\* What every such step does to a layer, and to the date which the settings name.
LEMMA ElsewhereStep ==
    ASSUME TypeOK, Next, Elsewhere
    PROVE  settings'.date = settings.date /\ \A l \in Layers : Goes(layer[l], layer'[l])
<1>1. layer \in Places /\ IsReader \in BOOLEAN /\ CurrentTrack \in Names
  BY CurrentTrackType DEF TypeOK, IsReader
<1>2. \A reader \in BOOLEAN, l \in Layers : Goes(layer[l], AllHeld(layer, reader)[l])
  BY <1>1, HeldGoes DEF Goes
<1>3. CASE Connect
  <2>1. PICK u \in Backends :
            settings' = [settings EXCEPT !.url = u] /\ layer' = AllHeld(layer, access = u)
    BY <1>3 DEF Connect, ApplyAccess
  <2>2. (access = u) \in BOOLEAN
    OBVIOUS
  <2> QED
    BY <1>2, <2>1, <2>2 DEF TypeOK
<1>4. CASE ConnectAnswered
  <2>1. PICK r \in reads, d \in Deployments, reader \in BOOLEAN, done \in BOOLEAN :
            /\ Catalogued(AllHeld(layer, reader), Discovered(d.offer, r.track),
                          Resolve(d.offer, settings.track), d.native, done)
            /\ settings' = settings
    BY <1>4 DEF ConnectAnswered
  <2>2. AllHeld(layer, reader) \in Places /\ Resolve(d.offer, settings.track) \in Names
    BY <1>1, HeldIsTyped, NamesAreTyped, CatalogAssumption DEF TypeOK
  <2>3. ASSUME NEW l \in Layers
        PROVE  Goes(layer[l], layer'[l])
    <3>1. Goes(AllHeld(layer, reader)[l], layer'[l])
      BY <2>1, <2>2, CataloguedGoes
    <3> QED
      BY <1>1, <3>1, HeldGoes
  <2> QED
    BY <2>1, <2>3
<1>5. CASE PullAnswered
  <2>1. PICK r \in reads, d \in Deployments, done \in BOOLEAN :
            Catalogued(layer, r.to, CurrentTrack, d.native, done) /\ settings' = settings
    BY <1>5 DEF PullAnswered
  <2> QED
    BY <1>1, <2>1, CataloguedGoes
<1>6. CASE LoadLayer
  <2>1. PICK l \in Layers, view \in Loads :
            /\ layer[l] = Absent /\ settings' = settings
            /\ layer' = AllHeld([layer EXCEPT ![l] = Created(CurrentTrack, settings.date, view)],
                                IsReader)
    BY <1>6 DEF LoadLayer, Here, ApplyAccess
  <2> DEFINE c == Created(CurrentTrack, settings.date, view)
             f == [layer EXCEPT ![l] = c]
  <2>2. /\ view \in {"live", "reading", "dated"} /\ view # "dated" /\ settings.date \in Dates
    BY CatalogAssumption DEF TypeOK
  <2>3. c \in LayerRecords /\ Visible(c) = [track |-> CurrentTrack, date |-> settings.date,
                                            follows |-> TRUE]
    BY <1>1, <2>2, CreatedIsTyped, CreatedShows
  <2> HIDE DEF c
  <2>4. f \in Places
    BY <1>1, <2>3 DEF Places
  <2>5. ASSUME NEW m \in Layers
        PROVE  Goes(layer[m], f[m])
    BY <1>1, <2>1, <2>3 DEF Goes, Places
  <2> HIDE DEF f
  <2>6. layer' = AllHeld(f, IsReader)
    BY <2>1 DEF c, f
  <2> QED
    BY <1>1, <2>1, <2>4, <2>5, <2>6, HeldGoes
<1>7. CASE OpenDateLayers \/ DateLayersRead
  <2>1. /\ settings' = settings
        /\ \/ layer' = layer
           \/ \E l \in Layers, d \in Dates :
                 /\ layer[l] = Absent
                 /\ layer' = [layer EXCEPT ![l] = Created(CurrentTrack, d, "dated")]
    BY <1>7 DEF OpenDateLayers, DateLayersRead, Snapshot, Here
  <2>2. ASSUME NEW l \in Layers, NEW d \in Dates, NEW m \in Layers, layer[l] = Absent,
               layer' = [layer EXCEPT ![l] = Created(CurrentTrack, d, "dated")]
        PROVE  Goes(layer[m], layer'[m])
    <3>1. Visible(Created(CurrentTrack, d, "dated")) =
             [track |-> CurrentTrack, date |-> d, follows |-> FALSE]
      BY <1>1, CreatedShows
    <3>2. layer'[m] \in {layer[m], Created(CurrentTrack, d, "dated")} /\ (m # l => layer'[m] = layer[m])
      BY <1>1, <2>2 DEF Places
    <3> QED
      BY <1>1, <2>2, <3>1, <3>2 DEF Goes
  <2> QED
    BY <2>1, <2>2 DEF Goes
<1>8. CASE Edit
  <2>1. PICK l \in Layers : /\ layer[l] # Absent /\ settings' = settings
                            /\ \/ /\ layer[l].edit = "no"
                                  /\ layer' = [layer EXCEPT ![l].edit = "open"]
                               \/ layer' = [layer EXCEPT ![l].edit = "dirty"]
    BY <1>8 DEF Edit, Here
  <2>2. layer[l] \in LayerRecords
    BY <1>1, <2>1 DEF Places
  <2>3. \A e \in {"open", "dirty"} :
           LET s == [layer[l] EXCEPT !.edit = e]
           IN  /\ s \in LayerRecords /\ s.edit = e /\ s.track = layer[l].track
               /\ s.state = layer[l].state /\ s.date = layer[l].date /\ s.view = layer[l].view
    BY <2>2 DEF LayerRecords
  <2>4. PICK e \in {"open", "dirty"} :
           layer' = [layer EXCEPT ![l].edit = e] /\ (layer[l].edit = "no" \/ e = "dirty")
    BY <2>1
  <2>5. /\ layer'[l] \in LayerRecords /\ layer'[l].edit = e /\ layer'[l].track = layer[l].track
        /\ layer'[l].state = layer[l].state /\ layer'[l].date = layer[l].date
        /\ layer'[l].view = layer[l].view
    BY <1>1, <2>3, <2>4 DEF Places
  <2>6. Goes(layer[l], layer'[l])
    BY <2>2, <2>4, <2>5, VisibleOf, CatalogAssumption DEF Goes, LayerRecords
  <2>7. \A m \in Layers : m # l => Goes(layer[m], layer'[m])
    BY <1>1, <2>4 DEF Goes, Places
  <2> QED
    BY <2>1, <2>6, <2>7
<1>9. CASE StopEditing
  <2>1. PICK l \in Layers :
           /\ layer[l] # Absent /\ settings' = settings
           /\ \/ layer' = [layer EXCEPT ![l].edit = "no"]
              \/ layer' = AllHeld([layer EXCEPT ![l].edit = "no"], IsReader)
    BY <1>9 DEF StopEditing, Here, ApplyAccess
  <2> DEFINE f == [layer EXCEPT ![l].edit = "no"]
  <2>2. layer[l] \in LayerRecords
    BY <1>1, <2>1 DEF Places
  <2>3. /\ f \in Places /\ f[l] \in LayerRecords /\ f[l].edit = "no"
        /\ f[l].track = layer[l].track /\ f[l].state = layer[l].state
        /\ f[l].date = layer[l].date /\ f[l].view = layer[l].view
        /\ \A m \in Layers : m # l => f[m] = layer[m]
    <3>1. LET s == [layer[l] EXCEPT !.edit = "no"]
          IN  /\ s \in LayerRecords /\ s.edit = "no" /\ s.track = layer[l].track
              /\ s.state = layer[l].state /\ s.date = layer[l].date /\ s.view = layer[l].view
      BY <2>2 DEF LayerRecords
    <3> QED
      BY <1>1, <3>1 DEF Places
  <2> HIDE DEF f
  <2>4. Visible(f[l]) = Visible(layer[l])
    BY <2>2, <2>3, VisibleOf DEF LayerRecords
  <2>5. \A m \in Layers : Goes(layer[m], f[m])
    BY <1>9, <2>1, <2>2, <2>3, <2>4, CatalogAssumption DEF Goes
  <2>6. layer' \in {f, AllHeld(f, IsReader)}
    BY <2>1 DEF f
  <2> QED
    BY <1>1, <2>1, <2>3, <2>5, <2>6, HeldGoes
<1>10. CASE layer' \in {layer, AllHeld(layer, TRUE), AllHeld(layer, FALSE)}
            /\ settings'.date = settings.date
  BY <1>2, <1>10 DEF Goes
<1>11. CASE SignIn \/ SignOut \/ RefreshAccess \/ AccessAnswered \/ EndPublish
  <2>1. \E reader \in BOOLEAN : layer' = AllHeld(layer, reader)
    BY <1>1, <1>11 DEF SignIn, SignOut, RefreshAccess, AccessAnswered, EndPublish, ApplyAccess
  <2>2. settings' = settings
    BY <1>11 DEF SignIn, SignOut, RefreshAccess, AccessAnswered, EndPublish
  <2> QED
    BY <1>10, <2>1, <2>2
<1>12. CASE ChooseUnconnected
  <2>1. layer' \in {layer, AllHeld(layer, IsReader)} /\ settings'.date = settings.date
    BY <1>12 DEF TypeOK, ChooseUnconnected, ApplyAccess
  <2> QED
    BY <1>1, <1>10, <2>1
<1>13. CASE ConnectFailed \/ Dropped \/ ChoiceRefused \/ ChooseTrack \/ ReadFailed \/ Pull
            \/ PreviewPublish \/ EndPreview
  <2>1. UNCHANGED <<settings, layer>>
    BY <1>13 DEF ConnectFailed, Dropped, ChoiceRefused, ChooseTrack, ReadFailed, Pull,
       PreviewPublish, EndPreview
  <2> QED
    BY <1>10, <2>1
<1> QED
  BY <1>3, <1>4, <1>5, <1>6, <1>7, <1>8, <1>9, <1>11, <1>12, <1>13 DEF Next, Transition, Elsewhere

\* To the eye of ViewChange the view stays.
LEMMA ElsewhereStays ==
    ASSUME TypeOK, TypeOK', ShowsDate(layer, settings.date), settings'.date = settings.date,
           swap = Absent, swap' = Absent, warned' = warned,
           \A l \in Layers : Goes(layer[l], layer'[l])
    PROVE  View!Stay /\ ShowsDate(layer', settings'.date)
<1>1. ASSUME NEW l \in Layers
      PROVE  LET v == Visible(layer[l])
                 w == Visible(layer'[l])
             IN  \/ w \in {v, Absent}
                 \/ v = Absent /\ w # Absent /\ (w.follows => w.date = settings.date)
                 \/ /\ v # Absent /\ w # Absent /\ w.date = settings.date
                    /\ w = [track |-> w.track, date |-> v.date, follows |-> v.follows]
  <2> DEFINE v == Visible(layer[l])
             w == Visible(layer'[l])
  <2>1. CASE layer'[l] = layer[l] \/ w = v \/ w = Absent
    BY <2>1
  <2>2. CASE layer[l] = Absent
    <3>1. v = Absent
      BY <2>2 DEF Visible
    <3> QED
      BY <2>2, <3>1, CatalogAssumption DEF Goes, Visible, TypeOK, Views
  <2>3. CASE /\ layer[l] # Absent /\ layer[l].view # "dated"
             /\ \E t \in Names : w = [track |-> t, date |-> settings.date, follows |-> TRUE]
    <3>1. PICK t \in Names : w = [track |-> t, date |-> settings.date, follows |-> TRUE]
      BY <2>3
    <3>2. w # Absent /\ w.track = t /\ w.date = settings.date
      <4>1. settings.date \in Dates
        BY DEF TypeOK
      <4>2. [track |-> t, date |-> settings.date, follows |-> TRUE] \in Views
        BY <4>1 DEF Views
      <4> HIDE DEF w
      <4> QED
        BY <3>1, <4>2, CatalogAssumption
    <3>3. layer[l] \in LayerRecords
      BY <2>3 DEF TypeOK, Places
    <3>4. CASE v # Absent
      <4>1. v = [track |-> layer[l].track, date |-> layer[l].date, follows |-> TRUE]
        BY <2>3, <3>3, <3>4, VisibleOf
      <4>2. v.date = settings.date
        BY <3>4, <4>1 DEF ShowsDate
      <4>3. v.follows = TRUE
        BY <4>1
      <4> QED
        BY <3>1, <3>2, <3>4, <4>2, <4>3
    <3> QED
      BY <3>1, <3>2, <3>4
  <2> QED
    BY <2>1, <2>2, <2>3 DEF Goes
<1>2. ShowsDate(layer', settings'.date)
  <2>1. ASSUME NEW l \in Layers, Visible(layer'[l]) # Absent, Visible(layer'[l]).follows
        PROVE  Visible(layer'[l]).date = settings.date
    BY <1>1, <2>1 DEF ShowsDate
  <2> QED
    BY <2>1 DEF ShowsDate
<1>3. View!Stay
  <2>1. \A l \in Layers : /\ Showing(layer)[l] = Visible(layer[l])
                          /\ Showing(layer')[l] = Visible(layer'[l])
    BY DEF Showing
  <2> QED
    BY <1>1, <2>1 DEF View!Stay, View!Shows
<1> QED
  BY <1>2, <1>3

-----------------------------------------------------------------------------
(* A change of the view.                                                    *)

\* A change of the view begins unseen, with clean layers.
LEMMA BeginStep ==
    ASSUME TypeOK, ViewInv, Idle, Dirty = {}, UNCHANGED <<layer, settings, warned>>,
           NEW kind \in {"track", "date"}, NEW name \in Names, NEW to \in Names,
           NEW date \in Dates, NEW targets \in SUBSET Layers,
           Begin(kind, name, to, date, targets),
           \A l \in targets : Follows(layer[l]),
           kind = "track" => date = settings.date,
           kind = "date" => \A l \in Layers : Follows(layer[l]) => l \in targets
    PROVE  ViewInv' /\ UNCHANGED View!vars
<1>1. /\ swap'.phase = "swap" /\ swap'.kind = kind /\ swap'.date = date /\ swap'.todo = targets
      /\ swap'.touched = {} /\ swap'.saved = layer /\ swap'.was = settings /\ swap' # Absent
  BY BeginTypes, CatalogAssumption DEF Begin
<1>2. ShowsDate(layer, settings.date) /\ Clean(layer)
  BY DEF ViewInv, Clean, Dirty, Here
<1>3. Ahead'
  BY <1>1 DEF Ahead
<1>4. ViewInv'
  BY <1>1, <1>2, <1>3 DEF ViewInv, Whole, Idle, ShowsDate, Clean
<1>5. UNCHANGED View!vars
  BY <1>1 DEF View!vars, Idle
<1> QED
  BY <1>4, <1>5

\* While it goes on, what counts stays what it would go back to.
LEMMA GoesOnUnseen ==
    ASSUME TypeOK, SwapLayer \/ StoreFailed \/ SwapUndone
    PROVE  /\ UNCHANGED View!vars
           /\ swap # Absent /\ swap' # Absent /\ swap'.saved = swap.saved /\ swap'.was = swap.was
           /\ swap'.kind = swap.kind /\ swap'.to = swap.to /\ swap'.date = swap.date
<1>1. /\ swap # Absent /\ swap' # Absent /\ swap'.saved = swap.saved /\ swap'.was = swap.was
      /\ swap'.kind = swap.kind /\ swap'.to = swap.to /\ swap'.date = swap.date
      /\ warned' = warned
  BY ChangeGoesOn DEF SameChange
<1>2. UNCHANGED View!vars
  BY <1>1 DEF View!vars
<1> QED
  BY <1>1, <1>2

\* A step of a change, or of its undo, keeps account of every layer.
LEMMA GoesOnStep ==
    ASSUME TypeOK, TypeOK', Targets, Whole, SwapLayer \/ StoreFailed \/ SwapUndone
    PROVE  Whole'
<1>1. /\ swap \in Swaps /\ layer \in Places /\ swap # Absent /\ swap' # Absent
      /\ swap'.saved = swap.saved /\ swap'.was = swap.was
      /\ swap'.kind = swap.kind /\ swap'.to = swap.to /\ swap'.date = swap.date
  BY GoesOnUnseen DEF TypeOK
<1>2. ShowsDate(swap.saved, swap.was.date) /\ Clean(swap.saved) /\ Clean(layer)
  BY <1>1 DEF Whole
<1>3. (ShowsDate(swap.saved, swap.was.date) /\ Clean(swap.saved))'
  BY <1>1, <1>2 DEF ShowsDate, Clean
<1>4. settings.url \in Backends /\ swap.date \in Dates /\ swap.to \in Names
  BY <1>1 DEF TypeOK, Swaps
<1>5. CASE SwapLayer
  <2>1. PICK l \in swap.todo :
           \/ /\ swap' = [swap EXCEPT !.todo = @ \ {l}, !.touched = @ \cup {l}]
              /\ layer' = [layer EXCEPT ![l] = Repointed(@, swap.to, settings.url, swap.date)]
           \/ /\ swap' = [swap EXCEPT !.phase = "undo", !.touched = @ \cup {l}]
              /\ \/ layer' = [layer EXCEPT ![l].state = "broken", ![l].edit = "no"]
                 \/ layer' = [layer EXCEPT ![l] = Repointed(@, swap.to, settings.url, swap.date)]
    BY <1>5 DEF SwapLayer
  <2>2. settings' = settings /\ swap.phase = "swap" /\ Ahead
    BY <1>1, <1>5 DEF SwapLayer, Whole
  <2>3. l \in Layers /\ layer[l] \in LayerRecords /\ swap.saved[l] \in LayerRecords
    BY <1>1, <2>1 DEF Targets, Swaps, Places
  <2>4. layer[l].view # "dated"
    <3>1. CASE l \in swap.touched
      <4>1. Visible(layer[l]) = [track |-> swap.to, date |-> swap.date, follows |-> TRUE]
        BY <2>2, <2>3, <3>1 DEF Ahead
      <4> QED
        BY <1>4, <2>3, <4>1, FollowsTheView
    <3>2. CASE l \notin swap.touched
      BY <2>1, <2>2, <2>3, <3>2 DEF Ahead, Follows
    <3> QED
      BY <3>1, <3>2
  <2>5. /\ Visible(Repointed(layer[l], swap.to, settings.url, swap.date)) =
              [track |-> swap.to, date |-> swap.date, follows |-> TRUE]
        /\ Repointed(layer[l], swap.to, settings.url, swap.date).edit = "no"
    BY <1>4, <2>3, <2>4, RepointedShows
  <2>6. \A m \in Layers : m # l => layer'[m] = layer[m]
    BY <1>1, <2>1 DEF Places
  <2>7. layer'[l].edit = "no"
    <3>1. CASE layer' = [layer EXCEPT ![l] = Repointed(@, swap.to, settings.url, swap.date)]
      BY <1>1, <2>3, <2>5, <3>1 DEF Places
    <3>2. CASE layer' = [layer EXCEPT ![l].state = "broken", ![l].edit = "no"]
      <4> DEFINE bad == [layer[l] EXCEPT !.state = "broken", !.edit = "no"]
      <4>1. layer'[l] = bad
        BY <1>1, <2>3, <3>2 DEF Places
      <4>2. bad.edit = "no"
        BY <2>3 DEF LayerRecords
      <4> HIDE DEF bad
      <4> QED
        BY <4>1, <4>2
    <3> QED
      BY <2>1, <3>1, <3>2
  <2>8. Clean(layer')
    BY <1>2, <2>6, <2>7 DEF Clean
  <2>9. CASE /\ swap' = [swap EXCEPT !.todo = @ \ {l}, !.touched = @ \cup {l}]
             /\ layer' = [layer EXCEPT ![l] = Repointed(@, swap.to, settings.url, swap.date)]
    <3>1. /\ swap'.phase = "swap" /\ swap'.todo = swap.todo \ {l}
          /\ swap'.touched = swap.touched \cup {l}
      BY <1>1, <2>2, <2>9 DEF Swaps
    <3>2. layer'[l] = Repointed(layer[l], swap.to, settings.url, swap.date)
      BY <1>1, <2>3, <2>9 DEF Places
    <3>3. swap'.todo \cup swap'.touched = swap.todo \cup swap.touched
      BY <2>1, <3>1
    <3>4. \A m \in Layers :
             IF m \in swap'.touched
             THEN Visible(layer'[m]) = [track |-> swap.to, date |-> swap.date, follows |-> TRUE]
             ELSE layer'[m] = swap.saved[m]
      BY <2>2, <2>5, <2>6, <3>1, <3>2 DEF Ahead
    <3>5. /\ swap'.saved = swap.saved /\ swap'.was = swap.was /\ swap'.kind = swap.kind
          /\ swap'.to = swap.to /\ swap'.date = swap.date
      BY <1>1
    <3>6. Ahead'
      BY <2>2, <3>3, <3>4, <3>5 DEF Ahead
    <3> QED
      BY <1>3, <2>8, <3>1, <3>6 DEF Whole, Clean
  <2>10. CASE swap' = [swap EXCEPT !.phase = "undo", !.touched = @ \cup {l}]
    <3>1. /\ swap'.phase = "undo" /\ swap'.touched = swap.touched \cup {l}
      BY <1>1, <2>10 DEF Swaps
    <3>2. \A m \in Layers \ swap'.touched : layer'[m] = swap'.saved[m]
      BY <1>1, <2>2, <2>6, <3>1 DEF Ahead
    <3>3. Back'
      BY <3>2 DEF Back
    <3> QED
      BY <1>3, <2>8, <3>1, <3>3 DEF Whole, Clean
  <2> QED
    BY <2>1, <2>9, <2>10
<1>6. CASE StoreFailed
  <2>1. /\ swap'.phase = "undo" /\ swap'.touched = swap.touched /\ layer' = layer
        /\ swap.phase = "swap"
    BY <1>1, <1>6 DEF StoreFailed, Swaps
  <2>2. \A m \in Layers \ swap'.touched : layer'[m] = swap'.saved[m]
    BY <1>1, <2>1 DEF Whole, Ahead
  <2>3. Back'
    BY <2>2 DEF Back
  <2> QED
    BY <1>2, <1>3, <2>1, <2>3 DEF Whole, Clean
<1>7. CASE SwapUndone
  <2>1. PICK l \in swap.touched :
           /\ swap'.touched = swap.touched \ {l} /\ swap'.phase = swap.phase
           /\ \/ layer' = [layer EXCEPT ![l] = Restored(swap.saved[l])] /\ swap'.unsafe = swap.unsafe
              \/ layer' = [layer EXCEPT ![l] = Disabled(@)] /\ swap'.unsafe = swap.unsafe
              \/ layer' = layer /\ swap'.unsafe = TRUE
    BY <1>1, <1>7 DEF SwapUndone, Swaps
  <2>2. swap.phase = "undo" /\ Back
    BY <1>1, <1>7 DEF SwapUndone, Whole
  <2>3. l \in Layers /\ layer[l] \in LayerRecords /\ swap.saved[l] \in LayerRecords
    BY <1>1, <2>1 DEF Targets, Swaps, Places
  <2>4. /\ Visible(Restored(swap.saved[l])) = Visible(swap.saved[l])
        /\ Visible(Disabled(layer[l])) = Absent
        /\ Restored(swap.saved[l]).edit = "no" /\ Disabled(layer[l]).edit = "no"
    BY <1>4, <2>3, RepointedShows
  <2>5. \A m \in Layers : m # l => layer'[m] = layer[m]
    BY <1>1, <2>1 DEF Places
  <2>6. layer'[l] \in {layer[l], Restored(swap.saved[l]), Disabled(layer[l])}
        /\ (layer'[l] = layer[l] \/ layer'[l].edit = "no")
    BY <1>1, <2>1, <2>3, <2>4 DEF Places
  <2>7. ~swap'.unsafe => ~swap.unsafe /\ Visible(layer'[l]) \in {Absent, Visible(swap.saved[l])}
    BY <1>1, <2>1, <2>3, <2>4 DEF Places
  <2>8. Back'
    BY <1>1, <2>1, <2>2, <2>3, <2>5, <2>7 DEF Back
  <2>9. Clean(layer')
    BY <1>2, <2>5, <2>6 DEF Clean
  <2> QED
    BY <1>3, <2>1, <2>2, <2>8, <2>9 DEF Whole, Clean
<1> QED
  BY <1>5, <1>6, <1>7

\* When the undo is over, the view stayed, or its failure was told.
LEMMA UndoneStep ==
    ASSUME TypeOK, TypeOK', ViewInv, SettingsUndone, ~warned
    PROVE  ViewInv' /\ View!Next
<1>1. /\ swap # Absent /\ swap.phase = "undo" /\ swap.touched = {} /\ swap' = Absent
      /\ layer' = layer
      /\ \/ settings' = swap.was /\ warned' = swap.unsafe
         \/ warned' = TRUE
  BY DEF SettingsUndone, TypeOK, Swaps
<1>2. CASE warned' = TRUE
  <2>1. settings'.date \in Dates
    BY DEF TypeOK
  <2>2. View!Break
    BY <1>1, <1>2, <2>1 DEF View!Break
  <2> QED
    BY <1>1, <1>2, <2>2 DEF View!Next, ViewInv, Whole, Idle
<1>3. CASE settings' = swap.was /\ ~swap.unsafe /\ ~warned'
  <2>1. \A l \in Layers : Visible(layer[l]) \in {Absent, Visible(swap.saved[l])}
    BY <1>1, <1>3 DEF ViewInv, Whole, Back
  <2>2. ShowsDate(swap.saved, swap.was.date)
    BY <1>1 DEF ViewInv, Whole
  <2>3. ShowsDate(layer, swap.was.date)
    BY <2>1, <2>2 DEF ShowsDate
  <2>4. View!Stay
    <3>1. \A l \in Layers : /\ Showing(layer)[l] = Visible(layer[l])
                            /\ Showing(swap.saved)[l] = Visible(swap.saved[l])
      BY DEF Showing
    <3>2. \A l \in Layers : Showing(layer)[l] \in {Showing(swap.saved)[l], Absent}
      BY <2>1, <3>1
    <3>3. warned' = warned
      BY <1>3 DEF TypeOK
    <3> QED
      BY <1>1, <1>3, <3>2, <3>3 DEF View!Stay
  <2>5. ShowsDate(layer', settings'.date)
    BY <1>1, <1>3, <2>3
  <2>6. ViewInv'
    BY <1>1, <2>5 DEF ViewInv, Whole, ShowsDate
  <2> QED
    BY <2>4, <2>6 DEF View!Next
<1> QED
  BY <1>1, <1>2, <1>3 DEF TypeOK, Swaps

\* When the settings are stored, every layer that follows is on the new view.
LEMMA StoredStep ==
    ASSUME TypeOK, TypeOK', ViewInv, SwapStored
    PROVE  ViewInv' /\ View!Next
<1>1. /\ swap \in Swaps /\ layer \in Places /\ swap # Absent /\ swap.phase = "swap"
      /\ swap.todo = {} /\ swap' = Absent /\ warned' = warned /\ swap.touched \subseteq Layers
      /\ swap.kind \in {"track", "date"} /\ swap.to \in Names /\ swap.date \in Dates
      /\ swap.saved \in Places
  BY DEF SwapStored, TypeOK, Swaps
<1>2. Ahead /\ ShowsDate(swap.saved, swap.was.date)
  BY <1>1 DEF ViewInv, Whole
<1>3. settings'.date = swap.date
  BY <1>1 DEF SwapStored, Viewed, TypeOK
<1>4. \E reader \in BOOLEAN : layer' = AllHeld(layer, reader)
  BY DEF SwapStored, ApplyAccess, IsReader
<1>5. ASSUME NEW l \in Layers
      PROVE  Visible(layer'[l]) = Visible(layer[l])
  <2>1. PICK reader \in BOOLEAN : layer'[l] = Held(layer[l], reader)
    BY <1>4 DEF AllHeld
  <2>2. CASE layer[l] = Absent
    BY <2>1, <2>2 DEF Held
  <2>3. CASE layer[l] # Absent
    <3>1. layer[l] \in LayerRecords
      BY <1>1, <2>3 DEF Places
    <3> QED
      BY <2>1, <3>1, HeldShowsTheSame
  <2> QED
    BY <2>2, <2>3
<1> DEFINE new == [track |-> swap.to, date |-> swap.date, follows |-> TRUE]
<1>6. new \in Views /\ new.follows = TRUE /\ new.track = swap.to /\ new.date = swap.date
  BY <1>1 DEF Views
<1>7. \A l \in Layers : IF l \in swap.touched THEN Visible(layer'[l]) = new
                        ELSE Visible(layer'[l]) = Visible(swap.saved[l])
  BY <1>2, <1>5 DEF Ahead
<1> HIDE DEF new
<1>8. ASSUME NEW l \in Layers, Visible(swap.saved[l]) # Absent
      PROVE  Visible(swap.saved[l]).follows <=> Follows(swap.saved[l])
  <2>1. swap.saved[l] # Absent
    BY <1>8 DEF Visible
  <2>2. swap.saved[l] \in LayerRecords
    BY <1>1, <2>1 DEF Places
  <2>3. Visible(swap.saved[l]) = [track |-> swap.saved[l].track, date |-> swap.saved[l].date,
                                  follows |-> swap.saved[l].view # "dated"]
    BY <1>8, <2>2, VisibleOf DEF LayerRecords
  <2>4. Visible(swap.saved[l]).follows = (swap.saved[l].view # "dated")
    BY <2>3
  <2> QED
    BY <2>1, <2>4 DEF Follows
<1>9. ASSUME NEW l \in Layers, Visible(layer'[l]) # Absent, Visible(layer'[l]).follows
      PROVE  Visible(layer'[l]).date = swap.date
  <2>1. CASE l \in swap.touched
    BY <1>6, <1>7, <2>1
  <2>2. CASE l \notin swap.touched
    <3>1. Visible(swap.saved[l]) # Absent /\ Visible(swap.saved[l]).follows
      BY <1>7, <1>9, <2>2
    <3>2. Follows(swap.saved[l])
      BY <1>8, <3>1
    <3>3. swap.kind = "track"
      BY <1>1, <1>2, <2>2, <3>2 DEF Ahead
    <3>4. swap.date = swap.was.date
      BY <1>2, <3>3 DEF Ahead
    <3> QED
      BY <1>2, <1>7, <2>2, <3>1, <3>4 DEF ShowsDate
  <2> QED
    BY <2>1, <2>2
<1>10. ShowsDate(layer', settings'.date)
  BY <1>3, <1>9 DEF ShowsDate
<1>11. ViewInv'
  BY <1>1, <1>10 DEF ViewInv, Whole, ShowsDate
<1>12. View!Follow
  <2>1. \A l \in Layers : /\ Showing(layer')[l] = Visible(layer'[l])
                          /\ Showing(swap.saved)[l] = Visible(swap.saved[l])
    BY DEF Showing
  <2>2. \A l \in swap.touched :
           /\ Showing(swap.saved)[l] # Absent => Showing(swap.saved)[l].follows
           /\ Showing(layer')[l] # Absent /\ Showing(layer')[l].follows
           /\ Showing(layer')[l].track = swap.to
    <3>1. \A l \in swap.touched : Follows(swap.saved[l])
      BY <1>2 DEF Ahead
    <3>2. new # Absent
      BY <1>6, CatalogAssumption
    <3> QED
      BY <1>1, <1>6, <1>7, <1>8, <2>1, <3>1, <3>2
  <2>3. \A l \in Layers \ swap.touched : Showing(layer')[l] = Showing(swap.saved)[l]
    BY <1>7, <2>1
  <2>4. \A l \in Layers : (Showing(layer')[l] # Absent /\ Showing(layer')[l].follows) =>
                             Showing(layer')[l].date = settings'.date
    BY <1>3, <1>9, <2>1
  <2>5. settings'.date \in Dates
    BY <1>1, <1>3
  <2> QED
    BY <1>1, <2>2, <2>3, <2>4, <2>5 DEF View!Follow, View!Follower, View!Shows
<1> QED
  BY <1>11, <1>12 DEF View!Next

\* A project opens with one view.
LEMMA ViewInit == Init => ViewInv /\ View!Init
<1> SUFFICES ASSUME Init PROVE ViewInv /\ View!Init
  OBVIOUS
<1>1. /\ settings.date = Latest /\ Latest \in Dates /\ swap = Absent /\ warned = FALSE
      /\ layer \in Places /\ \A l \in Layers : layer[l] # Absent => Opened(layer[l])
  BY CatalogAssumption DEF Init
<1>2. ASSUME NEW l \in Layers, Visible(layer[l]) # Absent, Visible(layer[l]).follows
      PROVE  Visible(layer[l]).date = settings.date
  <2>1. layer[l] # Absent
    BY <1>2 DEF Visible
  <2>2. layer[l] \in LayerRecords
    BY <1>1, <2>1 DEF Places
  <2>3. Visible(layer[l]) = [track |-> layer[l].track, date |-> layer[l].date,
                             follows |-> layer[l].view # "dated"]
    BY <1>2, <2>2, VisibleOf DEF LayerRecords
  <2>4. /\ Visible(layer[l]).follows = (layer[l].view # "dated")
        /\ Visible(layer[l]).date = layer[l].date
    BY <2>3
  <2> QED
    BY <1>1, <1>2, <2>1, <2>4 DEF Opened
<1>3. ViewInv
  BY <1>1, <1>2 DEF ViewInv, ShowsDate, Whole
<1>4. View!Init
  <2>1. \A l \in Layers : Showing(layer)[l] = Visible(layer[l])
    BY DEF Showing
  <2> QED
    BY <1>1, <1>2, <2>1 DEF View!Init, View!Follower, View!Shows
<1> QED
  BY <1>3, <1>4

\* Every step keeps the invariant, and is one of ViewChange or is not seen by it.
LEMMA ViewStep ==
    ASSUME CatalogInv, CatalogInv', ViewInv, [Next]_vars
    PROVE  ViewInv' /\ [View!Next]_(View!vars)
<1>1. TypeOK /\ TypeOK' /\ Targets /\ (warned => swap = Absent)
  BY DEF CatalogInv
<1>2. CASE Next /\ Elsewhere
  <2>1. Idle /\ swap = Absent /\ swap' = Absent /\ warned' = warned
    BY <1>2, ElsewhereIsIdle DEF Idle
  <2>2. settings'.date = settings.date /\ \A l \in Layers : Goes(layer[l], layer'[l])
    BY <1>1, <1>2, ElsewhereStep
  <2>3. ShowsDate(layer, settings.date)
    BY <2>1 DEF ViewInv
  <2>4. View!Stay /\ ShowsDate(layer', settings'.date)
    BY <1>1, <2>1, <2>2, <2>3, ElsewhereStays
  <2>5. ViewInv'
    BY <2>1, <2>4 DEF ViewInv, Whole, ShowsDate
  <2> QED
    BY <2>4, <2>5 DEF View!Next
<1>3. CASE TrackAnswered
  <2>1. PICK r \in reads :
           /\ Idle /\ UNCHANGED <<layer, settings, warned>>
           /\ \/ swap' = swap
              \/ /\ Dirty = {}
                 /\ Begin("track", r.track, r.to, settings.date,
                          {l \in Layers : Belongs(layer[l], settings.url) /\ Follows(layer[l])})
    BY <1>3 DEF TrackAnswered, Answered
  <2>2. CASE swap' = swap
    <3>1. UNCHANGED View!vars
      BY <2>1, <2>2 DEF View!vars
    <3> QED
      BY <2>1, <2>2, <3>1 DEF ViewInv, Whole, Idle, ShowsDate
  <2>3. CASE /\ Dirty = {}
             /\ Begin("track", r.track, r.to, settings.date,
                      {l \in Layers : Belongs(layer[l], settings.url) /\ Follows(layer[l])})
    <3>1. r.track \in Names /\ r.to \in Names /\ settings.date \in Dates
      BY <1>1 DEF TypeOK, Reads
    <3> QED
      BY <1>1, <2>1, <2>3, <3>1, BeginStep
  <2> QED
    BY <2>1, <2>2, <2>3
<1>4. CASE ApplyAsOf
  <2>1. PICK date \in Dates :
           /\ Idle /\ UNCHANGED <<layer, settings, warned>> /\ Dirty = {}
           /\ Begin("date", settings.track, CurrentTrack, date, {l \in Layers : Follows(layer[l])})
    BY <1>4 DEF ApplyAsOf, Free
  <2>2. settings.track \in Names /\ CurrentTrack \in Names
    BY <1>1, CurrentTrackType DEF TypeOK
  <2> QED
    BY <1>1, <2>1, <2>2, BeginStep
<1>5. CASE SwapLayer \/ StoreFailed \/ SwapUndone
  <2>1. UNCHANGED View!vars /\ swap' # Absent
    BY <1>1, <1>5, GoesOnUnseen
  <2>2. Whole'
    BY <1>1, <1>5, GoesOnStep DEF ViewInv
  <2> QED
    BY <2>1, <2>2 DEF ViewInv, Idle
<1>6. CASE SwapStored
  BY <1>1, <1>6, StoredStep
<1>7. CASE SettingsUndone
  <2>1. ~warned
    BY <1>1, <1>7 DEF SettingsUndone
  <2> QED
    BY <1>1, <1>7, <2>1, UndoneStep
<1>8. CASE UNCHANGED vars
  <2>1. UNCHANGED View!vars
    BY <1>8 DEF View!vars, vars
  <2> QED
    BY <1>8, <2>1 DEF vars, ViewInv, Whole, Idle, ShowsDate, Clean, Ahead, Back
<1> QED
  BY <1>2, <1>3, <1>4, <1>5, <1>6, <1>7, <1>8 DEF Elsewhere

-----------------------------------------------------------------------------
(* Theorems.                                                                *)

\* A change of the view is at every step either on the way there, with the settings and
\* the layers not yet reached as they were, or on the way back.
THEOREM ChangesAreSound == Spec => [](CatalogInv /\ ViewInv)
<1>1. Init => ViewInv
  BY ViewInit
<1>2. CatalogInv /\ CatalogInv' /\ ViewInv /\ [Next]_vars => ViewInv'
  BY ViewStep
<1> QED
  BY <1>1, <1>2, CatalogIsSound, PTL DEF Spec

\* What the person sees is of one date, and of one track where a change of the track
\* reached it: a change of either is made for every layer that follows and for the
\* settings, or for none of them, or its failure is told (transition).
THEOREM ViewsChangeWhole == Spec => ViewIsWhole
<1>1. Init => View!Init
  BY ViewInit
<1>2. CatalogInv /\ CatalogInv' /\ ViewInv /\ [Next]_vars => [View!Next]_(View!vars)
  BY ViewStep
<1>3. Spec => View!Spec
  BY <1>1, <1>2, ChangesAreSound, PTL DEF Spec, View!Spec
<1> QED
  BY <1>3 DEF ViewIsWhole

\* Neither an answer, nor a change of the view or of the permission, nor the undo of a
\* change drops unsaved edits or moves them to another track: only the person who saves or
\* discards them ends their editing session (set_track, apply_as_of, LayerAccess.apply,
\* transition).
THEOREM EditsOutliveTheView == Spec => NoEditLost
<1> DEFINE Safe == \A l \in Layers : (Here(l) /\ layer[l].edit = "dirty") =>
                      \/ layer'[l] # Absent /\ layer'[l].edit = "dirty"
                         /\ layer'[l].track = layer[l].track
                      \/ StopEditing /\ layer'[l].edit = "no"
<1>1. CatalogInv /\ ViewInv /\ [Next]_vars => [Safe]_vars
  <2> SUFFICES ASSUME CatalogInv, ViewInv, Next, NEW l \in Layers,
                      layer[l] # Absent, layer[l].edit = "dirty"
               PROVE  \/ layer'[l] # Absent /\ layer'[l].edit = "dirty"
                         /\ layer'[l].track = layer[l].track
                      \/ StopEditing /\ layer'[l].edit = "no"
    BY DEF Here
  <2>1. CASE Elsewhere
    <3>1. Goes(layer[l], layer'[l])
      BY <2>1, ElsewhereStep DEF CatalogInv
    <3> QED
      BY <3>1 DEF Goes
  <2>2. CASE TrackAnswered \/ ApplyAsOf
    <3>1. layer' = layer
      BY <2>2 DEF TrackAnswered, ApplyAsOf
    <3> QED
      BY <3>1
  <2>3. CASE SwapLayer \/ SwapStored \/ StoreFailed \/ SwapUndone \/ SettingsUndone
    <3>1. swap # Absent
      BY <2>3 DEF SwapLayer, SwapStored, StoreFailed, SwapUndone, SettingsUndone
    <3> QED
      BY <3>1 DEF ViewInv, Whole, Clean
  <2> QED
    BY <2>1, <2>2, <2>3 DEF Elsewhere
<1>2. Spec => [][Safe]_vars
  BY <1>1, ChangesAreSound, PTL DEF Spec
<1> QED
  BY <1>2 DEF NoEditLost
=============================================================================
