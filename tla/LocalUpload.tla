----------------------------- MODULE LocalUpload -----------------------------
(* Push all local: local features which the server lacks are created there,  *)
(* from the first read of the destination (pushlocal.py, ExistingFeatures),  *)
(* through the upload worker (publish.py: _publish_layer, _send, _send_chunk, *)
(* _post_chunk) and the journal written before each request                  *)
(* (core/pushlocal.py, UploadLedger), to the report and the layer's mark.    *)
(*                                                                           *)
(* The server assigns identity, so it cannot recognise a feature it has been *)
(* sent before. A feature is known by its key, the fingerprint of geometry,  *)
(* class, names and attributes; its spot is the fingerprint of geometry and  *)
(* class alone.                                                              *)
EXTENDS Integers, FiniteSets

CONSTANTS
    Instances,  \* QGIS instances sharing one profile, account, server and track
    Sources,    \* features of the local layer, by provider, source and feature id
    Labelled,   \* those copied from a server label, with its label identity
    Keys,       \* fingerprints
    Spot,       \* spatial fingerprint of each key
    NoKey,      \* no such feature
    HasAction,  \* BOOLEAN: does the plugin have the publish_action which push disables
    Bulk,       \* BOOLEAN: does the server offer the atomic bulk create
    ChunkSize,  \* features per batch; one when the server offers none
    MaxTries,   \* max_throttle_retries + 1
    MaxRuns,    \* bound: uploads started
    MaxEdits,   \* bound: edits of the local layer
    MaxForeign  \* bound: changes to the server by other people

ASSUME UploadAssumption ==
    /\ Labelled \subseteq Sources
    /\ NoKey \notin Keys
    /\ HasAction \in BOOLEAN /\ Bulk \in BOOLEAN
    /\ ChunkSize \in Nat \ {0} /\ MaxTries \in Nat \ {0}
    /\ ~Bulk => ChunkSize = 1
    /\ MaxRuns \in Nat /\ MaxEdits \in Nat /\ MaxForeign \in Nat

Maybe == Keys \cup {NoKey}

\* What the report says of a feature; "none" before it is in any counter.
Fates == {"none", "published", "present", "held", "failed", "skipped",
          "notSent", "notCreated", "unverified"}

\* "raised": push failed between declaring the upload and handing it to the worker.
Phases == {"idle", "raised", "loading", "reading", "reserved", "posted", "closing"}
Replies == {"none", "created", "blamed", "refused", "throttled"}

VARIABLES
    key,     \* the key each local feature has now, NoKey if there is none
    mark,    \* cvi/local_push_state in each instance: "", "unpushed" or "review"
    others,  \* server: keys of features other people created
    labels,  \* server: key of each label which a local feature is a copy of
    alive,   \* server: keys of the features uploads created, if they still exist
    wire,    \* requests sent and neither answered nor lost
    ledger,  \* table uploads: "none", "uncertain" or "confirmed"
    refs,    \* table sources: the key recorded for each local feature
    run,     \* the upload of each instance
    runs,    \* history: uploads started
    edits,   \* history: edits made
    foreign, \* history: changes by other people
    landed,  \* history: how often each key was created by an upload
    made,    \* history: how often each local feature was created by an upload
    known    \* history: keys a run has found to be stored

layerVars == <<key, mark>>
serverVars == <<others, labels, alive, wire>>
journalVars == <<ledger, refs>>
countVars == <<runs, edits, foreign>>
historyVars == <<landed, made, known>>
vars == <<layerVars, serverVars, journalVars, run, countVars, historyVars>>

NoRun == [phase |-> "idle", no |-> 0, auto |-> FALSE, copy |-> [f \in Sources |-> NoKey],
          pages |-> {}, shifted |-> FALSE, seen |-> {}, ids |-> [f \in Sources |-> NoKey],
          unread |-> {}, drafts |-> [f \in Sources |-> NoKey], chosen |-> {}, chunk |-> {},
          reply |-> "none", tries |-> 0, stopped |-> FALSE, active |-> TRUE,
          edited |-> FALSE, fate |-> [f \in Sources |-> "none"], error |-> FALSE]

Runs == [phase : Phases, no : 0..MaxRuns, auto : BOOLEAN, copy : [Sources -> Maybe],
         pages : SUBSET Keys, shifted : BOOLEAN, seen : SUBSET Keys, ids : [Sources -> Maybe],
         unread : SUBSET Sources, drafts : [Sources -> Maybe], chosen : SUBSET Sources,
         chunk : SUBSET Sources, reply : Replies, tries : 0..MaxTries, stopped : BOOLEAN,
         active : BOOLEAN, edited : BOOLEAN, fate : [Sources -> Fates], error : BOOLEAN]

Requests == [by : Instances, no : 1..MaxRuns, from : SUBSET Sources, keys : SUBSET Keys]

TypeOK ==
    /\ key \in [Sources -> Maybe]
    /\ mark \in [Instances -> {"", "unpushed", "review"}]
    /\ others \subseteq Keys
    /\ labels \in [Labelled -> Maybe]
    /\ alive \subseteq Keys
    /\ wire \subseteq Requests
    /\ ledger \in [Keys -> {"none", "uncertain", "confirmed"}]
    /\ refs \in [Sources -> Maybe]
    /\ run \in [Instances -> Runs]
    /\ runs \in 0..MaxRuns
    /\ edits \in 0..MaxEdits
    /\ foreign \in 0..MaxForeign
    /\ landed \in [Keys -> Nat]
    /\ made \in [Sources -> Nat]
    /\ known \subseteq Keys

Init ==
    /\ key \in [Sources -> Maybe]
    /\ mark = [i \in Instances |-> "unpushed"]
    /\ labels = [f \in Labelled |-> key[f]]
    /\ others = {}
    /\ alive = {}
    /\ wire = {}
    /\ ledger = [k \in Keys |-> "none"]
    /\ refs = [f \in Sources |-> NoKey]
    /\ run = [i \in Instances |-> NoRun]
    /\ runs = 0 /\ edits = 0 /\ foreign = 0
    /\ landed = [k \in Keys |-> 0]
    /\ made = [f \in Sources |-> 0]
    /\ known = {}

LabelKeys == {labels[f] : f \in Labelled} \ {NoKey}
OnServer == others \cup alive \cup LabelKeys
Spots(K) == {Spot[k] : k \in K}

Becomes(i, r) == run' = [run EXCEPT ![i] = r]

-----------------------------------------------------------------------------
(* The local layer, and the person.                                        *)

\* source_changed: an edit marks the layer; a deletion, or an edit of a layer
\* which already needs review, leaves it to the person.
Edit(i, f) ==
    /\ edits < MaxEdits
    /\ edits' = edits + 1
    /\ key' \in {[key EXCEPT ![f] = k] : k \in Maybe \ {key[f]}}
    /\ mark' = [mark EXCEPT ![i] =
                  IF key'[f] = NoKey \/ @ = "review" THEN "review" ELSE "unpushed"]
    /\ Becomes(i, [run[i] EXCEPT !.edited = run[i].phase # "idle"])
    /\ UNCHANGED <<serverVars, journalVars, runs, foreign, historyVars>>

\* PushAllLocal.push: Connect uploads marked layers only, the menu any of them.
\* plugin.publishing is set, then plugin.publish_action is disabled: where no such
\* attribute exists, that raises, and nothing ever clears plugin.publishing.
Start(i, auto) ==
    /\ run[i].phase = "idle"
    /\ auto => mark[i] = "unpushed"
    /\ runs < MaxRuns
    /\ runs' = runs + 1
    /\ Becomes(i, [NoRun EXCEPT !.phase = IF HasAction THEN "loading" ELSE "raised",
                                !.no = runs + 1, !.auto = auto,
                                !.copy = key, !.pages = Keys,
                                !.unread = {f \in Sources : key[f] # NoKey}])
    /\ UNCHANGED <<layerVars, serverVars, journalVars, edits, foreign, historyVars>>

\* The task is cancelled: its feedback also aborts the request under way.
Cancel(i) ==
    /\ run[i].phase \notin {"idle", "raised", "closing"}
    /\ ~run[i].stopped
    /\ Becomes(i, [run[i] EXCEPT !.stopped = TRUE])
    /\ UNCHANGED <<layerVars, serverVars, journalVars, countVars, historyVars>>

\* Signing out, or choosing another server or track: PushAllLocal.cancel clears
\* the Event the worker looks at.
ChangeConnection(i) ==
    /\ run[i].phase # "idle"
    /\ run[i].active
    /\ Becomes(i, [run[i] EXCEPT !.active = FALSE])
    /\ UNCHANGED <<layerVars, serverVars, journalVars, countVars, historyVars>>

-----------------------------------------------------------------------------
(* Reading what is there: ExistingFeatures.load, one page after the other. *)

\* Pages are cut by offset: after a deletion a row may slip from the next page into
\* the one already read, and is in neither.
LoadPage(i, k) ==
    /\ run[i].phase = "loading"
    /\ run[i].active /\ ~run[i].stopped
    /\ k \in run[i].pages
    /\ \E slipped \in BOOLEAN :
        LET read == k \in OnServer /\ ~slipped
        IN  /\ slipped => run[i].shifted /\ k \in OnServer
            /\ Becomes(i, [run[i] EXCEPT
                   !.pages = @ \ {k},
                   !.seen = IF read THEN @ \cup {k} ELSE @,
                   !.ids = [f \in Sources |->
                              IF f \in Labelled /\ read /\ labels[f] = k THEN k ELSE @[f]],
                   !.phase = IF run[i].pages = {k} THEN "reading" ELSE @,
                   !.shifted = @ /\ run[i].pages # {k}])
    /\ UNCHANGED <<layerVars, serverVars, journalVars, countVars, historyVars>>

\* A page could not be read, or the run was stopped: failed() drops the whole run.
LoadFails(i) ==
    /\ run[i].phase = "loading"
    /\ Becomes(i, NoRun)
    /\ UNCHANGED <<layerVars, serverVars, journalVars, countVars, historyVars>>

-----------------------------------------------------------------------------
(* Which features are sent: ExistingFeatures.skip.                         *)

SelectedKeys(i) == {run[i].drafts[f] : f \in run[i].chosen}

\* The label this feature is a copy of was seen on the server.
Identified(i, f) == run[i].ids[f] # NoKey

AlreadyThere(i, f, k) ==
    IF Identified(i, f) THEN run[i].ids[f] = k ELSE k \in run[i].seen

\* Mutant of the next definition: a label's identity only counts while the label is there.
IdentityIfSeen(i, f, k) ==
    \/ Identified(i, f)
    \/ Spot[k] \in Spots(run[i].seen)
    \/ ledger[k] # "none"
    \/ refs[f] # NoKey

\* Something is known of this feature, and it does not say that it is there.
Doubtful(i, f, k) ==
    \/ Identified(i, f)
    \/ Spot[k] \in Spots(run[i].seen)
    \/ ledger[k] # "none"
    \/ f \in Labelled
    \/ refs[f] # NoKey

\* UploadLedger.observe
Observe(f, k) ==
    /\ ledger' = [ledger EXCEPT ![k] = "confirmed"]
    /\ refs' = [refs EXCEPT ![f] = k]

\* The loop of _publish_layer: the next feature is read and drafted; some cannot
\* be. It may by now hold what was saved to its file during the run.
Reads(i, f, k) ==
    /\ run[i].phase = "reading"
    /\ run[i].active /\ ~run[i].stopped
    /\ f \in run[i].unread
    /\ \A g \in run[i].chosen \ run[i].chunk : run[i].fate[g] # "none"
    /\ ~Bulk => run[i].chunk = {}
    /\ k \in {run[i].copy[f], key[f]} \ {NoKey}

Read(i, f, k, fate) ==
    Becomes(i, [run[i] EXCEPT !.unread = @ \ {f},
                              !.drafts = [@ EXCEPT ![f] = k],
                              !.fate = [@ EXCEPT ![f] = fate]])

FeatureSkipped(i, f, k) ==
    /\ Reads(i, f, k)
    /\ Read(i, f, k, "skipped")
    /\ UNCHANGED <<layerVars, serverVars, journalVars, countVars, historyVars>>

FeaturePresent(i, f, k) ==
    /\ Reads(i, f, k)
    /\ AlreadyThere(i, f, k)
    /\ Observe(f, k)
    /\ known' = known \cup {k}
    /\ Read(i, f, k, "present")
    /\ UNCHANGED <<layerVars, serverVars, countVars, landed, made>>

FeatureHeld(i, f, k) ==
    /\ Reads(i, f, k)
    /\ ~AlreadyThere(i, f, k)
    /\ \/ Doubtful(i, f, k)
       \/ k \notin SelectedKeys(i) /\ Spot[k] \in Spots(SelectedKeys(i))
    /\ Read(i, f, k, "held")
    /\ UNCHANGED <<layerVars, serverVars, journalVars, countVars, historyVars>>

FeatureTwin(i, f, k) ==
    /\ Reads(i, f, k)
    /\ ~AlreadyThere(i, f, k)
    /\ ~Doubtful(i, f, k)
    /\ k \in SelectedKeys(i)
    /\ Read(i, f, k, "present")
    /\ UNCHANGED <<layerVars, serverVars, journalVars, countVars, historyVars>>

\* A missing feature joins the batch, unless the batch must go first: it is full
\* by number, or would be by bytes.
FeatureTaken(i, f, k) ==
    /\ Reads(i, f, k)
    /\ ~AlreadyThere(i, f, k)
    /\ ~Doubtful(i, f, k)
    /\ Spot[k] \notin Spots(SelectedKeys(i))
    /\ \E fits \in BOOLEAN :
        /\ fits => Cardinality(run[i].chunk) < ChunkSize
        /\ ~fits => run[i].chunk # {}
        /\ Becomes(i, [run[i] EXCEPT !.unread = @ \ {f},
                                     !.drafts = [@ EXCEPT ![f] = k],
                                     !.chosen = @ \cup {f},
                                     !.chunk = IF fits THEN @ \cup {f} ELSE @])
    /\ UNCHANGED <<layerVars, serverVars, journalVars, countVars, historyVars>>

\* A feature deleted from its file during the run is no longer read.
FeatureGone(i, f) ==
    /\ run[i].phase = "reading"
    /\ f \in run[i].unread
    /\ key[f] = NoKey
    /\ Becomes(i, [run[i] EXCEPT !.unread = @ \ {f}])
    /\ UNCHANGED <<layerVars, serverVars, journalVars, countVars, historyVars>>

-----------------------------------------------------------------------------
(* Sending a batch: _send_chunk with _post_chunk, or _send with _send_one.  *)

Batch(i) == {run[i].drafts[f] : f \in run[i].chunk}

Pending(i) == {f \in run[i].chosen : run[i].fate[f] = "none"}

\* The batch is answered for: its features are counted, and one which did not fit
\* into it begins the next.
Count(i, fates) ==
    Becomes(i, [run[i] EXCEPT
        !.phase = "reading", !.chunk = Pending(i) \ @, !.reply = "none", !.tries = 0,
        !.fate = [f \in Sources |-> IF f \in run[i].chunk THEN fates[f] ELSE @[f]]])

All(fate) == [f \in Sources |-> fate]

\* publish() catches any exception, and reports it: what is still in the batch is
\* in no counter.
Fail(i) == Becomes(i, [run[i] EXCEPT !.phase = "closing", !.error = TRUE])

\* check_active in skip, started, and before each attempt; the journal may also
\* refuse the batch because another instance entered one of its features.
Raises(i) ==
    /\ \/ /\ run[i].phase = "reading"
          /\ ~run[i].active
          /\ run[i].unread # {} \/ run[i].chunk # {}
          /\ ~run[i].stopped
       \/ run[i].phase = "reserved" /\ ~run[i].active
       \/ /\ run[i].phase = "reading"
          /\ ~run[i].stopped
          /\ \E f \in run[i].chunk : ledger[run[i].drafts[f]] # "none" \/ refs[f] # NoKey
    /\ Fail(i)
    /\ UNCHANGED <<layerVars, serverVars, journalVars, countVars, historyVars>>

\* A batch is sent when the next feature does not fit, and after the last one.
Due(i) ==
    /\ run[i].phase = "reading"
    /\ run[i].chunk # {}
    /\ \/ ~Bulk
       \/ Pending(i) # run[i].chunk
       \/ run[i].unread = {}
       \/ run[i].stopped

DropBatch(i) ==
    /\ Due(i)
    /\ run[i].stopped
    /\ Count(i, All("notSent"))
    /\ UNCHANGED <<layerVars, serverVars, journalVars, countVars, historyVars>>

\* Mutant of the next definition: rows which exist are replaced.
ReserveReplacing(i) ==
    /\ Due(i)
    /\ ~run[i].stopped /\ run[i].active
    /\ ledger' = [k \in Keys |-> IF k \in Batch(i) THEN "uncertain" ELSE ledger[k]]
    /\ refs' = [f \in Sources |-> IF f \in run[i].chunk THEN run[i].drafts[f] ELSE refs[f]]
    /\ Becomes(i, [run[i] EXCEPT !.phase = "reserved"])
    /\ UNCHANGED <<layerVars, serverVars, countVars, historyVars>>

\* UploadLedger.reserve: the insertions fail as one if any entry exists.
Reserve(i) ==
    /\ Due(i)
    /\ ~run[i].stopped /\ run[i].active
    /\ \A f \in run[i].chunk : ledger[run[i].drafts[f]] = "none" /\ refs[f] = NoKey
    /\ ledger' = [k \in Keys |-> IF k \in Batch(i) THEN "uncertain" ELSE ledger[k]]
    /\ refs' = [f \in Sources |-> IF f \in run[i].chunk THEN run[i].drafts[f] ELSE refs[f]]
    /\ Becomes(i, [run[i] EXCEPT !.phase = "reserved"])
    /\ UNCHANGED <<layerVars, serverVars, countVars, historyVars>>

\* Mutants of the next definition: a finished upload needs no row any more, or no source.
ForgetConfirmed(i) ==
    /\ ledger' = [k \in Keys |-> IF k \in Batch(i) THEN "none" ELSE ledger[k]]
    /\ UNCHANGED refs

ForgetSource(i) ==
    /\ ledger' = [k \in Keys |-> IF k \in Batch(i) THEN "confirmed" ELSE ledger[k]]
    /\ refs' = [f \in Sources |-> IF f \in run[i].chunk THEN NoKey ELSE refs[f]]

\* UploadLedger.finish with "confirmed", "not-created" and "uncertain".
FinishConfirmed(i) ==
    /\ ledger' = [k \in Keys |-> IF k \in Batch(i) /\ ledger[k] # "none" THEN "confirmed"
                                 ELSE ledger[k]]
    /\ UNCHANGED refs

FinishNotCreated(i) ==
    /\ ledger' = [k \in Keys |-> IF k \in Batch(i) THEN "none" ELSE ledger[k]]
    /\ refs' = [f \in Sources |-> IF refs[f] \in Batch(i) THEN NoKey ELSE refs[f]]

FinishUncertain == UNCHANGED journalVars

\* Only a batch which was applied as one transaction can be known not to be there;
\* without one, every failure leaves the entry.
FinishMissing(i) == IF Bulk THEN FinishNotCreated(i) ELSE FinishUncertain

\* Mutant of the next definition: attempts are not counted.
PostUncounted(i) ==
    /\ run[i].phase = "reserved"
    /\ run[i].active /\ ~run[i].stopped
    /\ wire' = wire \cup {[by |-> i, no |-> run[i].no, from |-> run[i].chunk, keys |-> Batch(i)]}
    /\ Becomes(i, [run[i] EXCEPT !.phase = "posted", !.reply = "none"])
    /\ UNCHANGED <<layerVars, others, labels, alive, journalVars, countVars, historyVars>>

Post(i) ==
    /\ run[i].phase = "reserved"
    /\ run[i].active /\ ~run[i].stopped
    /\ wire' = wire \cup {[by |-> i, no |-> run[i].no, from |-> run[i].chunk, keys |-> Batch(i)]}
    /\ Becomes(i, [run[i] EXCEPT !.phase = "posted", !.reply = "none", !.tries = @ + 1])
    /\ UNCHANGED <<layerVars, others, labels, alive, journalVars, countVars, historyVars>>

\* Cancelled before the request, or while waiting to repeat a throttled one.
NeverSent(i) ==
    /\ run[i].phase = "reserved"
    /\ run[i].stopped
    /\ run[i].active \/ run[i].tries > 0
    /\ FinishMissing(i)
    /\ Count(i, All("notSent"))
    /\ UNCHANGED <<layerVars, serverVars, countVars, historyVars>>

ReceiveCreated(i) ==
    /\ run[i].phase = "posted"
    /\ run[i].reply = "created"
    /\ FinishConfirmed(i)
    /\ known' = known \cup Batch(i)
    /\ Count(i, All("published"))
    /\ UNCHANGED <<layerVars, serverVars, countVars, landed, made>>

\* The server refused the batch and states that it created nothing.
ReceiveRefusal(i) ==
    /\ run[i].phase = "posted"
    /\ run[i].reply \in {"blamed", "refused"}
    /\ ~run[i].stopped
    /\ FinishMissing(i)
    /\ \/ /\ Bulk /\ run[i].reply = "refused"
          /\ Count(i, All("notCreated"))
       \/ /\ Bulk => run[i].reply = "blamed"
          /\ \E f \in run[i].chunk : Count(i, [All("notCreated") EXCEPT ![f] = "failed"])
    /\ UNCHANGED <<layerVars, serverVars, countVars, historyVars>>

\* Mutant of the next definition: one attempt too many.
OneAttemptMore(i) ==
    /\ run[i].phase = "posted"
    /\ run[i].reply = "throttled"
    /\ ~run[i].stopped
    /\ run[i].tries <= MaxTries
    /\ Becomes(i, [run[i] EXCEPT !.phase = "reserved"])
    /\ UNCHANGED <<layerVars, serverVars, journalVars, countVars, historyVars>>

ReceiveThrottle(i) ==
    /\ run[i].phase = "posted"
    /\ run[i].reply = "throttled"
    /\ ~run[i].stopped
    /\ \/ /\ run[i].tries < MaxTries
          /\ Becomes(i, [run[i] EXCEPT !.phase = "reserved"])
          /\ UNCHANGED journalVars
       \/ /\ run[i].tries = MaxTries
          /\ FinishMissing(i)
          /\ Count(i, All(IF Bulk THEN "notCreated" ELSE "failed"))
    /\ UNCHANGED <<layerVars, serverVars, countVars, historyVars>>

\* Mutants of the next definition: silence is taken for a refusal; and a cancelled
\* batch for one which was never sent.
SilenceIsRefusal(i) ==
    /\ run[i].phase = "posted"
    /\ FinishNotCreated(i)
    /\ Count(i, All("unverified"))
    /\ UNCHANGED <<layerVars, serverVars, countVars, historyVars>>

AbortedIsNotSent(i) ==
    /\ run[i].phase = "posted"
    /\ FinishUncertain
    /\ Count(i, All(IF run[i].stopped THEN "notSent" ELSE "unverified"))
    /\ UNCHANGED <<layerVars, serverVars, countVars, historyVars>>

\* A timeout, an aborted socket, or an answer that does not say what was created.
ReceiveNothing(i) ==
    /\ run[i].phase = "posted"
    /\ FinishUncertain
    /\ Count(i, All(CASE Bulk -> "unverified"
                      [] ~Bulk /\ run[i].stopped -> "notSent"
                      [] ~Bulk /\ ~run[i].stopped -> "failed"))
    /\ UNCHANGED <<layerVars, serverVars, countVars, historyVars>>

-----------------------------------------------------------------------------
(* The end of the run, on the main thread: done() of push, or a crash.      *)

EndLayer(i) ==
    /\ run[i].phase = "reading"
    /\ run[i].unread = {} \/ run[i].stopped
    /\ run[i].chunk = {} /\ Pending(i) = {}
    /\ Becomes(i, [run[i] EXCEPT !.phase = "closing"])
    /\ UNCHANGED <<layerVars, serverVars, journalVars, countVars, historyVars>>

\* Mutant of the next definition: features held for review do not count against the layer.
HeldIsClean(i) ==
    /\ ~run[i].stopped /\ ~run[i].error
    /\ \A f \in Sources : run[i].fate[f] \notin {"failed", "skipped", "notCreated", "unverified"}

\* PublishReport.clean
Clean(i) ==
    /\ ~run[i].stopped /\ ~run[i].error
    /\ \A f \in Sources : run[i].fate[f] \in {"none", "published", "present", "notSent"}

MarkAfter(i) ==
    CASE Clean(i) /\ ~run[i].edited /\ mark[i] # "review" -> ""
      [] ~Clean(i) /\ run[i].auto /\ mark[i] # "" -> "review"
      [] OTHER -> mark[i]

Finish(i) ==
    /\ run[i].phase = "closing"
    /\ mark' = [mark EXCEPT ![i] = IF run[i].active THEN MarkAfter(i) ELSE @]
    /\ Becomes(i, NoRun)
    /\ UNCHANGED <<key, serverVars, journalVars, countVars, historyVars>>

\* QGIS dies. The journal, and the request if it was sent, are still there.
Crash(i) ==
    /\ run[i].phase # "idle"
    /\ Becomes(i, NoRun)
    /\ UNCHANGED <<layerVars, serverVars, journalVars, countVars, historyVars>>

-----------------------------------------------------------------------------
(* The server (external), and the other people using it.                   *)

Answer(r, replies) ==
    /\ wire' = wire \ {r}
    /\ \E reply \in replies :
        Becomes(r.by, [run[r.by] EXCEPT !.reply =
            IF run[r.by].phase = "posted" /\ run[r.by].no = r.no /\ Batch(r.by) = r.keys
            THEN reply ELSE @])

\* One transaction for the whole request.
Commit(r) ==
    /\ Answer(r, {"created"})
    /\ alive' = alive \cup r.keys
    /\ landed' = [k \in Keys |-> IF k \in r.keys THEN landed[k] + 1 ELSE landed[k]]
    /\ made' = [f \in Sources |-> IF f \in r.from THEN made[f] + 1 ELSE made[f]]
    /\ UNCHANGED <<layerVars, others, labels, journalVars, countVars, known>>

\* Refused (naming a feature or not), stopped by the rate limiter, or lost.
Reject(r) ==
    /\ Answer(r, {"none", "blamed", "refused", "throttled"})
    /\ UNCHANGED <<layerVars, others, labels, alive, journalVars, countVars, historyVars>>

Foreign ==
    /\ foreign < MaxForeign
    /\ foreign' = foreign + 1
    /\ UNCHANGED <<layerVars, wire, journalVars, runs, edits, historyVars>>

OthersCreate(k) ==
    /\ Foreign
    /\ k \notin others
    /\ others' = others \cup {k}
    /\ UNCHANGED <<labels, alive, run>>

OthersChange(f, k) ==
    /\ Foreign
    /\ labels[f] \notin {NoKey, k}
    /\ labels' = [labels EXCEPT ![f] = k]
    /\ UNCHANGED <<others, alive, run>>

\* Every row with this key is deleted: the pages of a listing under way move.
OthersDelete(k) ==
    /\ Foreign
    /\ k \in OnServer
    /\ others' = others \ {k}
    /\ alive' = alive \ {k}
    /\ labels' = [f \in Labelled |-> IF labels[f] = k THEN NoKey ELSE labels[f]]
    /\ run' = [i \in Instances |->
                 [run[i] EXCEPT !.shifted = @ \/ run[i].phase = "loading"]]

-----------------------------------------------------------------------------

Reading(i) ==
    \/ \E k \in Keys : LoadPage(i, k)
    \/ LoadFails(i)
    \/ \E f \in Sources, k \in Keys :
          \/ FeatureSkipped(i, f, k) \/ FeaturePresent(i, f, k) \/ FeatureHeld(i, f, k)
          \/ FeatureTwin(i, f, k) \/ FeatureTaken(i, f, k)
    \/ \E f \in Sources : FeatureGone(i, f)

Sending(i) ==
    \/ Raises(i) \/ DropBatch(i) \/ Reserve(i) \/ Post(i) \/ NeverSent(i)
    \/ ReceiveCreated(i) \/ ReceiveRefusal(i) \/ ReceiveThrottle(i) \/ ReceiveNothing(i)

Worker(i) == Reading(i) \/ Sending(i) \/ EndLayer(i) \/ Finish(i)

Person(i) ==
    \/ \E f \in Sources : Edit(i, f)
    \/ \E auto \in BOOLEAN : Start(i, auto)
    \/ Cancel(i) \/ ChangeConnection(i) \/ Crash(i)

World ==
    \/ \E r \in wire : Commit(r) \/ Reject(r)
    \/ \E k \in Keys : OthersCreate(k) \/ OthersDelete(k)
    \/ \E f \in Labelled, k \in Keys : OthersChange(f, k)

Next == (\E i \in Instances : Worker(i) \/ Person(i)) \/ World

Spec == Init /\ [][Next]_vars

\* The task's thread runs until the upload ends; every wait in it has a time limit.
LiveSpec == Spec /\ \A i \in Instances : WF_vars(Worker(i))

-----------------------------------------------------------------------------
(* What the upload promises.                                               *)

\* The server cannot tell a repeated feature from a new one, so a key is created by
\* an upload at most once: not by a retry after the rate limiter, not by a second run
\* after an answer was lost or QGIS died, not by another instance of QGIS.
AtMostOnce == \A k \in Keys : landed[k] <= 1

\* "Changed previously uploaded source rows ... are held for review instead of creating
\* another copy": one local feature is uploaded once, under whatever key it has.
SourceOnce == \A f \in Sources : made[f] <= 1

\* "reconnect must not silently recreate deliberately deleted server data": nothing is
\* sent that was once known to be stored, whether or not it still is.
NeverRecreates == [][\A r \in wire' \ wire : r.keys \cap known = {}]_vars

\* What the report says of a feature is so: published means that it was created, and
\* not sent or not created that it was not and, with its request gone, will not be.
ReportIsTrue ==
    \A i \in Instances, f \in Sources :
        LET k == run[i].drafts[f]
        IN  /\ run[i].fate[f] = "published" => landed[k] = 1
            /\ run[i].fate[f] \in {"notSent", "notCreated", "failed"} =>
                   landed[k] = 0 /\ \A r \in wire : k \notin r.keys

\* A copy of a server label is not uploaded as a new one, not even when the label has
\* been deleted or changed since.
LabelsAreNotRecreated == \A f \in Labelled : made[f] = 0

\* A layer stops being offered for upload only when every feature it has is in the
\* journal as stored.
ClearedMeansStored ==
    [][\A i \in Instances : mark[i] # "" /\ mark'[i] = "" =>
          \A f \in Sources : key[f] # NoKey => ledger[key[f]] = "confirmed"]_vars

\* The run of an upload ends, whatever the server does or fails to do: "A publish is
\* already running. Wait for it" (plugin.py) is advice one can follow.
RunEnds == \A i \in Instances : run[i].phase # "idle" ~> run[i].phase = "idle"

\* The journal and the requests under way are those of an upload done at most once.
Once == INSTANCE UploadOnce WITH
            held <- {k \in Keys : ledger[k] # "none"},
            flying <- UNION {r.keys : r \in wire}

KeepsOnce == Once!OnceSpec
=============================================================================
