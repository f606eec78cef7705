------------------------------ MODULE Bootstrap ------------------------------
(* Publishing local layers: the preview and its plan, the confirmation of a   *)
(* second publish, the run on a worker (class styles, rows in order, survey   *)
(* extents, the report) and the record left on each layer (plugin.py,         *)
(* publishdialog.py, publish.py, core/publish.py, core/styleproposals.py,     *)
(* core/bootstrapstyles.py). How one batch travels, with its retries, is in   *)
(* LocalUpload: a batch here is sent in one step, with every outcome it has   *)
(* there.                                                                     *)
(*                                                                            *)
(* The server gives each label its identity, so it cannot recognise a feature *)
(* that it has been sent before. All that stands against a second copy is the *)
(* record, a property of the layer which is lost with an unsaved project.     *)
EXTENDS Drafts

CONSTANTS
    Layers,      \* local layers of the project
    Source,      \* what each holds
    Panel,       \* the layers in the order of the layers panel
    Classes,     \* the class registry
    Tracks,
    Archived,    \* tracks which admit no writes
    Collections, \* collections of the last catalog, in order
    Served,      \* those of the bulk create it advertised, None if it advertised none
    Writable,    \* those which say of themselves that they take writes
    Choices,     \* what the person may choose for a layer
    Bulk,        \* BOOLEAN: does the server offer the atomic bulk create
    ChunkSize,   \* features per batch
    CanStyle,    \* BOOLEAN: does the server store first styles of classes
    NoStyle,     \* no custom style; no style could be captured
    ShortReads,  \* BOOLEAN: may a source end before its last row
    MaxRuns,     \* bound: publishes started
    MaxLosses    \* bound: layers removed and projects not saved

\* How far a survey went.
Completeness == {"", "partial", "exhaustive"}

\* What a layer remembers of the publishes before.
Records == [track : Tracks, to : Items(Collections), class : {c.id : c \in Classes}, count : Nat]

ASSUME BootstrapAssumption ==
    /\ Panel \in Seq(Layers) /\ Items(Panel) = Layers /\ Len(Panel) = Cardinality(Layers)
    /\ Collections \in Seq(Items(Collections))
    /\ \A l \in Layers : Source[l].rows \in Seq(Items(Source[l].rows))
    /\ Choices \subseteq [publish : BOOLEAN, class : {c.id : c \in Classes} \cup {None},
                         extent : Completeness, skip : BOOLEAN, style : BOOLEAN]
    /\ None \notin Records
    /\ ChunkSize \in Nat \ {0} /\ MaxRuns \in Nat /\ MaxLosses \in Nat
    /\ Bulk \in BOOLEAN /\ CanStyle \in BOOLEAN /\ ShortReads \in BOOLEAN

VARIABLES
    track,     \* the selected history track
    preferred, \* the setting label_collection, as words
    here,      \* layers in the project
    record,    \* cvi/published of each layer, None if there is none
    saved,     \* the same in the project file
    run,       \* the publish under way, NoRun if there is none
    labels,    \* server: labels created, with the copy they are and whether an answer said so
    extents,   \* server: survey extents declared
    runs,      \* history: publishes started
    losses,    \* history: layers removed and projects not saved
    forgotten  \* history: layers whose record was thrown away, or never written

viewVars == <<track, preferred>>
projectVars == <<here, record, saved, losses, forgotten>>
serverVars == <<labels, extents>>
vars == <<viewVars, projectVars, run, serverVars, runs>>

Class(id) == CHOOSE c \in Classes : c.id = id
Rows(l) == Source[l].rows
Counters == {"published", "noGeometry", "invalid", "unshapeable", "failed", "notSent",
             "notCreated", "unverified"}
Zero == [c \in Counters |-> 0]
NoRun == [phase |-> "idle"]

-----------------------------------------------------------------------------
(* The plan (core/publish.py: build_plan, LayerPlan, PublishPlan).          *)

OnAnotherTrack(r) == r # None /\ r.track # track

\* What the preview shows for a layer before anyone touches it.
Suggested(l) ==
    LET guess == Guess(Source[l].name, Classes)
    IN  [publish |-> guess # None /\ (record[l] = None \/ OnAnotherTrack(record[l])),
         class |-> guess, extent |-> "", skip |-> FALSE, style |-> TRUE]

Chosen(choice) == {l \in here : choice[l].publish /\ choice[l].class # None}

\* LayerPlan.problems, in a preview that offers active classes only.
Problem(l, choice, routes) ==
    /\ choice.publish
    /\ \/ choice.class = None
       \/ Source[l].counted /\ Rows(l) = <<>>
       \/ ~Source[l].crs
       \/ Mismatch(Source[l].type, Class(choice.class).geom)
       \/ CollectionFor(routes, Source[l].type) = None
       \/ Source[l].columns # <<>> /\ ArchiveProblem(Class(choice.class))
       \/ \E c \in Items(Source[l].columns) :
            c # Archive /\ MapField(c, Class(choice.class)) = [role |-> "attribute", target |-> Archive]

\* propose_style: does the layer have a style for its class?
Proposes(l, choice) == choice.style /\ Source[l].style # NoStyle

\* Different included styles for one class.
\* resolve_styles
Conflict(choice) ==
    \E l, m \in Chosen(choice) : /\ Proposes(l, choice[l]) /\ Proposes(m, choice[m])
                                 /\ choice[l].class = choice[m].class
                                 /\ Source[l].style # Source[m].style

\* Those, or a style and a server that takes none.
\* bootstrapstyles.problems
StyleProblem(choice) ==
    \/ Conflict(choice)
    \/ ~CanStyle /\ \E l \in Chosen(choice) : Proposes(l, choice[l])

\* PublishPlan.track_problems, _require_track
TrackProblem == track \in Archived

\* The preview offers active classes, and a style where one was captured; damaged names are
\* left out of all layers or of none.
\* _class_combo, _extent_combo, _populate, _row_choice
Classable == {None} \cup {c.id : c \in {d \in Classes : d.active}}
Offers(choice) ==
    \A l \in Layers :
        /\ choice[l].class \in Classable
        /\ choice[l].style => Source[l].style # NoStyle
        /\ \A m \in Layers : choice[l].skip = choice[m].skip

\* The destinations which Connect verified, and which of them, or of their sets, a publish
\* uses: the one of the settings, or else one that the person is asked for.
\* _label_routes, _ask_label_collection
Offered == Items(Collections) \cap (IF Served = None THEN Writable ELSE Served)
RoutesFor(wish) == Routes(Collections, Offered, wish)
Wishes ==
    IF RoutesFor(preferred) = NoRoutes THEN {WordsOf[c] : c \in Offered} ELSE {preferred}

-----------------------------------------------------------------------------
(* The preview (plugin.py: publish_local_layers, _label_routes,              *)
(* _confirm_republish; publishdialog.py; publish.py: prepare).               *)

\* Mutant: a layer published to another track is not asked about.
AskedHere(choice) == {l \in Chosen(choice) : record[l] # None /\ ~OnAnotherTrack(record[l])}

\* PublishPlan.republished: the layers which the warning names.
Republished(choice) == {l \in Chosen(choice) : record[l] # None}

\* The layers in the order of the panel, or in the alphabetical one.
Sorted(s) == \A i, j \in DOMAIN s : i < j => Rank[Source[s[i]].name] < Rank[Source[s[j]].name]
Orders == {Panel} \cup {s \in [DOMAIN Panel -> Layers] : Items(s) = Layers /\ Sorted(s)}

\* The layers of S one after another, as they are in that order.
InOrder(order, S) ==
    {s \in [1..Cardinality(S) -> S] : \A i, j \in DOMAIN s : i < j =>
        \E a, b \in DOMAIN order : a < b /\ order[a] = s[i] /\ order[b] = s[j]}

\* The person may be asked which destination to use, chooses for each layer, perhaps
\* changes the order, and confirms the warning. The plans keep what the preview read of the
\* layers, the record among it.
Publish(choice, order) ==
    /\ run = NoRun /\ runs < MaxRuns /\ ~TrackProblem
    /\ \E wish \in Wishes, plans \in InOrder(order, Chosen(choice)) :
            LET routes == RoutesFor(wish)
            IN  /\ routes # NoRoutes
                /\ \A l \in here : ~Problem(l, choice[l], routes)
                /\ plans # <<>> /\ ~StyleProblem(choice)
                /\ preferred' = routes.stem
                /\ run' = [phase |-> "styles", track |-> track,
                           plans |-> [i \in DOMAIN plans |->
                              LET l == plans[i]
                              IN  [layer |-> l, class |-> choice[l].class,
                                   extent |-> choice[l].extent, skip |-> choice[l].skip,
                                   styles |-> Proposes(l, choice[l]), previous |-> record[l],
                                   to |-> CollectionFor(routes, Source[l].type)]],
                           asked |-> Republished(choice),
                           styled |-> {}, at |-> 1, row |-> 1, chunk |-> <<>>,
                           counts |-> <<>>, cancelled |-> FALSE]
    /\ runs' = runs + 1
    /\ UNCHANGED <<track, projectVars, serverVars>>

\* Or gives up, with the destination chosen all the same.
Decline ==
    /\ run = NoRun /\ ~TrackProblem
    /\ \E wish \in Wishes : RoutesFor(wish) # NoRoutes /\ preferred' = RoutesFor(wish).stem
    /\ UNCHANGED <<track, projectVars, serverVars, run, runs>>

ChooseTrack(t) ==
    /\ run = NoRun /\ t # track
    /\ track' = t
    /\ UNCHANGED <<preferred, projectVars, run, serverVars, runs>>

-----------------------------------------------------------------------------
(* The run, on a worker (publish.py: publish, _publish_layer).               *)

Plan == run.plans[run.at]
Counted == run.counts[run.at]
Count(c, n) == [run.counts EXCEPT ![run.at][c] = @ + n]
Working(phase) == run.phase = phase
Toward(r) == run' = r /\ UNCHANGED <<viewVars, projectVars, runs>>
\* Of the report, what the records are made from.
Ended(r) ==
    [r EXCEPT !.phase = "ended", !.styled = {}, !.at = 1, !.row = 1, !.chunk = <<>>,
              !.asked = {}, !.cancelled = FALSE,
              !.plans = [i \in DOMAIN @ |-> [@[i] EXCEPT !.extent = "", !.skip = FALSE, !.styles = FALSE]],
              !.counts = [i \in DOMAIN @ |-> [Zero EXCEPT !.published = @ + r.counts[i].published]]]

Unstyled == {i \in DOMAIN run.plans : run.plans[i].styles /\ run.plans[i].class \notin run.styled}

\* A style of a class, once; the server says what it made of it. Without that answer
\* nothing else is sent.
\* _initialize_styles, _request_style
SaveStyle ==
    /\ Working("styles") /\ ~run.cancelled /\ Unstyled # {}
    /\ LET plan == run.plans[CHOOSE i \in Unstyled : \A j \in Unstyled : i <= j]
       IN  \/ Toward([run EXCEPT !.styled = @ \cup {plan.class}])
           \/ Toward(Ended(run))
    /\ UNCHANGED serverVars

StylesDone ==
    /\ Working("styles") /\ (run.cancelled \/ Unstyled = {})
    /\ Toward(IF run.cancelled THEN Ended(run)
              ELSE [run EXCEPT !.phase = "layers", !.counts = <<Zero>>])
    /\ UNCHANGED serverVars

\* A batch goes when it is full; one feature is a batch where the server offers no bulk.
Full == run.chunk # <<>> /\ (~Bulk \/ Len(run.chunk) = ChunkSize)
Left == run.row <= Len(Rows(Plan.layer))

\* A row is drafted and queued, or counted as what keeps it from being a label.
ReadRow ==
    /\ Working("layers") /\ ~run.cancelled /\ Left /\ ~Full
    /\ LET row == Rows(Plan.layer)[run.row]
           class == Class(Plan.class)
           draft == Draft(row, Source[Plan.layer].columns, class, Plan.skip)
       IN  Toward(IF Fate(row, class) = "drafted"
                  THEN [run EXCEPT !.row = @ + 1,
                                   !.chunk = Append(@, [row |-> run.row, draft |-> draft])]
                  ELSE [run EXCEPT !.row = @ + 1, !.counts = Count(Fate(row, class), 1)])
    /\ UNCHANGED serverVars

Sent(answered) ==
    {[layer |-> Plan.layer, row |-> c.row, class |-> Plan.class, track |-> run.track,
      to |-> Plan.to, copy |-> runs, answered |-> answered] : c \in Items(run.chunk)}

\* What became of a batch: created; not created, for one row or for none in particular;
\* without an answer, created or not; or never sent. A single create without an answer
\* counts as refused, and as not sent where the run was cancelled.
\* _send_chunk, _send
Flush ==
    /\ Working("layers") /\ run.chunk # <<>> /\ (Full \/ ~Left \/ run.cancelled)
    /\ LET n == Len(run.chunk)
           counted(c, r) == Toward([r EXCEPT !.counts = Count(c, n), !.chunk = <<>>])
           landed == labels' \in {labels, labels \cup Sent(FALSE)}
       IN  \/ run.cancelled /\ labels' = labels /\ counted("notSent", run)
           \/ ~run.cancelled /\ labels' = labels \cup Sent(TRUE) /\ counted("published", run)
           \/ ~run.cancelled /\ landed /\ counted(IF Bulk THEN "unverified" ELSE "failed", run)
           \/ ~run.cancelled /\ Bulk /\ labels' = labels /\ counted("notCreated", run)
           \/ /\ ~run.cancelled /\ Bulk /\ labels' = labels
              /\ Toward([run EXCEPT !.chunk = <<>>,
                            !.counts[run.at].failed = @ + 1, !.counts[run.at].notCreated = @ + n - 1])
           \/ /\ ~run.cancelled /\ landed
              /\ counted(IF Bulk THEN "unverified" ELSE "notSent", [run EXCEPT !.cancelled = TRUE])
    /\ UNCHANGED extents

\* Mutant: rows which a refused batch took with it do not count against the extent.
ExtentDueBeforeBulk(counts, extent) ==
    /\ counts.published > 0
    /\ extent = "exhaustive" => \A c \in {"failed", "invalid", "unshapeable", "notSent"} : counts[c] = 0

\* An extent needs something published, and an exhaustive one everything that was there.
\* _extent_refusal
ExtentDue(counts, extent) ==
    /\ counts.published > 0
    /\ extent = "exhaustive" => \A c \in Counters \ {"published", "noGeometry"} : counts[c] = 0

\* The layer was read, to its end or to what its source took for it. Its extent may fail
\* all the same: no collection was chosen for extents, or the server did not take it.
\* _declare_extent
EndLayer ==
    /\ Working("layers") /\ run.chunk = <<>> /\ (~Left \/ ShortReads \/ run.cancelled)
    /\ LET extent == [layer |-> Plan.layer, class |-> Plan.class, extent |-> Plan.extent,
                      track |-> run.track, copy |-> runs]
           due == ~run.cancelled /\ Plan.extent # "" /\ ExtentDue(Counted, Plan.extent)
       IN  extents' \in {extents} \cup (IF due THEN {extents \cup {extent}} ELSE {})
    /\ Toward(IF run.cancelled \/ run.at = Len(run.plans) THEN Ended(run)
              ELSE [run EXCEPT !.at = @ + 1, !.row = 1, !.counts = Append(@, Zero)])
    /\ UNCHANGED labels

\* Anything else that goes wrong ends the run; the report survives.
Raise ==
    /\ Working("layers")
    /\ labels' \in {labels, labels \cup Sent(FALSE)}
    /\ Toward(Ended(run))
    /\ UNCHANGED extents

Cancel ==
    /\ run.phase \in {"styles", "layers"} /\ ~run.cancelled
    /\ Toward([run EXCEPT !.cancelled = TRUE])
    /\ UNCHANGED serverVars

-----------------------------------------------------------------------------
(* The report and the project (plugin.py: _on_published; publish.py:         *)
(* stamp_published).                                                         *)

\* Mutant: the counts of other tracks are carried over.
CarriedAlways(plan) == IF plan.previous = None THEN 0 ELSE plan.previous.count

Carried(plan) ==
    IF plan.previous = None \/ plan.previous.track # run.track THEN 0 ELSE plan.previous.count

\* Plans and outcomes are paired by position; layers that were not reached, or of which
\* nothing was published, keep the record they have.
\* stamp_published
Stamped(l) ==
    LET mine == {i \in DOMAIN run.counts : run.plans[i].layer = l /\ run.counts[i].published > 0}
    IN  IF mine = {} \/ l \notin here THEN record[l]
        ELSE LET plan == run.plans[The(mine)]
             IN  [track |-> run.track, to |-> plan.to, class |-> plan.class,
                  count |-> Carried(plan) + run.counts[The(mine)].published]

\* Delivered also when the task was cancelled.
OnPublished ==
    /\ Working("ended")
    /\ record' = [l \in Layers |-> Stamped(l)]
    /\ run' = NoRun
    /\ UNCHANGED <<track, preferred, here, saved, losses, forgotten, serverVars, runs>>

\* The prompt which setDirty brings about; a project saved without a layer is another one.
SaveProject ==
    /\ here = Layers /\ saved # record
    /\ saved' = record
    /\ UNCHANGED <<viewVars, here, record, losses, forgotten, run, serverVars, runs>>

RemoveLayer(l) ==
    /\ l \in here /\ losses < MaxLosses /\ losses' = losses + 1
    /\ here' = here \ {l} /\ record' = [record EXCEPT ![l] = None]
    /\ forgotten' = forgotten \cup {l}
    /\ UNCHANGED <<viewVars, saved, run, serverVars, runs>>

\* The project is opened again without having been saved; with QGIS itself, no answer of
\* the run is delivered any more.
Reopen(quit) ==
    /\ losses < MaxLosses /\ losses' = losses + 1
    /\ here' = Layers /\ record' = saved
    /\ forgotten' = forgotten \cup {l \in Layers : record[l] # saved[l]}
                     \cup (IF quit /\ run # NoRun THEN {p.layer : p \in Items(run.plans)} ELSE {})
    /\ run' = IF quit THEN NoRun ELSE run
    /\ UNCHANGED <<viewVars, saved, serverVars, runs>>

-----------------------------------------------------------------------------
Init ==
    /\ track \in Tracks /\ preferred = <<>>
    /\ here = Layers /\ record = [l \in Layers |-> None] /\ saved = record
    /\ run = NoRun /\ runs = 0 /\ losses = 0 /\ forgotten = {}
    /\ labels = {} /\ extents = {}

Preview ==
    \E order \in Orders :
        \/ Publish([l \in Layers |-> Suggested(l)], order)
        \/ \E choice \in [Layers -> Choices] : Offers(choice) /\ Publish(choice, order)

Next ==
    \/ Preview \/ Decline \/ OnPublished \/ SaveProject
    \/ \E t \in Tracks : ChooseTrack(t)
    \/ SaveStyle \/ StylesDone \/ ReadRow \/ Flush \/ EndLayer \/ Raise \/ Cancel
    \/ \E l \in Layers : RemoveLayer(l)
    \/ \E quit \in BOOLEAN : Reopen(quit)

Spec == Init /\ [][Next]_vars

-----------------------------------------------------------------------------
(* Properties.                                                               *)

TypeIs == [integer |-> "int", number |-> "float", string |-> "text", boolean |-> "bool"]
Conforms(v, spec) ==
    v.as \notin spec.barred /\ (spec.type \in DOMAIN TypeIs => v.is = TypeIs[spec.type])
LabelIsWellFormed(label, draft) ==
    LET class == Class(label.class)
        row == Rows(label.layer)[label.row]
        names == {c \in DOMAIN row.values : MapField(c, class).role = "name"}
    IN  /\ draft.shape.type = class.geom \/ class.geom = "Any"
        /\ TypedBy(WordsOf[label.to]) \in {None, Family(draft.shape.type)}
        /\ draft.shape.flat /\ draft.shape.parts = row.shape.parts
        /\ \A n \in DOMAIN draft.attrs :
              IF n \in Items(class.declared) THEN Conforms(draft.attrs[n], class.spec[n])
              ELSE class.open /\ draft.attrs[n] = row.values[n]
        /\ \A l \in DOMAIN draft.names : \E c \in names :
              /\ Clean(row.values[c].as) = draft.names[l] /\ Language(c) \in {l, "auto"}
              /\ Language(c) = "auto" => \A d \in names : Language(d) = l =>
                    Blank(row.values[d]) \/ row.values[d].as \in Damaged

\* Every label has the geometry that its class and its collection store, in two dimensions
\* and with no part lost; under each attribute which the class declares a value that the
\* class admits, and beside them only what the class leaves room for, as it was; and in
\* each language a name from a column that declares the language, if one has any that was
\* not left out (build_draft, build_attrs, build_names, build_routes).
LabelsAreWellFormed ==
    [][\A x \in labels' \ labels : \A c \in Items(run.chunk) :
          c.row = x.row => LabelIsWellFormed(x, c.draft)]_vars

\* A survey extent declared exhaustive, which lets a training run take the ground in it
\* for background, has a label of the same run, track and class for each row of its layer
\* that has a geometry (_extent_refusal).
ExhaustiveIsSwept ==
    \A e \in extents : e.extent = "exhaustive" =>
        \A i \in DOMAIN Rows(e.layer) : Rows(e.layer)[i].shape # None =>
            \E x \in labels : /\ x.layer = e.layer /\ x.row = i /\ x.copy = e.copy
                               /\ x.track = e.track /\ x.class = e.class

\* The record on a layer names a collection and a class under which the layer really has
\* labels on the track it names, and never more of them than there are; and all of them,
\* as long as no record was lost and only that track was published to. The warning of the
\* next preview reads it as fact (stamp_published).
RecordsAreTrue ==
    \A l \in Layers : record[l] # None =>
        LET counted == {x \in labels : /\ x.layer = l /\ x.answered
                                       /\ run # NoRun => x.copy # runs}
            there == {x \in counted : x.track = record[l].track}
        IN  /\ record[l].count \in 1..Cardinality(there)
            /\ \E x \in there : x.to = record[l].to /\ x.class = record[l].class
            /\ l \notin forgotten /\ there = counted => record[l].count = Cardinality(there)

\* A layer some of whose features were confirmed created, in a run that ended in any way,
\* on any track, is not published again unless the warning named it and was accepted, as
\* long as no record was thrown away with a layer, a project or QGIS itself
\* (_confirm_republish, stamp_published).
CopiesAreAsked ==
    [][runs' > runs => \A p \in Items(run'.plans) :
            \/ p.layer \in forgotten \cup run'.asked
            \/ \A x \in labels : x.layer = p.layer => ~x.answered]_vars
=============================================================================
