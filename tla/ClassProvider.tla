--------------------------- MODULE ClassProvider ---------------------------
(***************************************************************************)
(* The write side of one editable class layer: the native QGIS edit buffer *)
(* being committed, group by group, through ClassLayerProvider             *)
(* (qgis_label_client/classprovider.py), and the label server behind it.   *)
(*                                                                         *)
(* The provider has no transaction: it sends one request per feature and   *)
(* remembers, between two Saves of the same edit session, which creates    *)
(* and deletions already succeeded, so that a retry does not repeat them.  *)
(* The server offers no idempotency key, so a POST whose answer is lost    *)
(* must never be sent again by itself.                                     *)
(*                                                                         *)
(* An edit is a model value: a feature to create, a feature whose          *)
(* attributes or geometry change, or a feature to delete.  The payload of  *)
(* a create is a number, which grows when the user edits that new feature  *)
(* again.                                                                  *)
(***************************************************************************)
EXTENDS Integers, FiniteSets

CONSTANTS
    Creates,     \* features the user may draw
    Changes,     \* features of the server the user may change
    Deletes,     \* features of the server the user may delete
    MaxPayload,  \* bound: how many versions of a drawn feature there may be
    MaxSaves,    \* bound: how many Saves are attempted
    None         \* no request is awaited

ASSUME EditsAssumption ==
    /\ Creates \cap Changes = {}
    /\ Creates \cap Deletes = {}
    /\ Changes \cap Deletes = {}
    /\ None \notin Creates \cup Changes \cup Deletes

ASSUME BoundsAssumption == MaxPayload \in Nat \ {0} /\ MaxSaves \in Nat

Edits == Creates \cup Changes \cup Deletes

Payloads == 1..MaxPayload

\* Idle, or the group of the buffer QGIS is committing. The order of the groups
\* is QGIS's; "schema" stands for its checks before the first request.
Stages == {"idle", "changes", "deletes", "creates"}

\* A request in flight: a POST of a new feature, a PUT of one the provider
\* already created (base is the payload of the row it believes it replaces),
\* or the PUT or DELETE of an existing feature. save numbers the Save it is
\* part of: an answer that comes after its Save ended reaches nobody.
Requests ==
    [edit : Edits, verb : {"POST", "PUT", "DELETE"}, payload : Payloads,
     base : 0..MaxPayload, save : 1..MaxSaves]

VARIABLES
    buffer,     \* edits open in the native edit buffer
    content,    \* payload of each drawn feature as it now stands in the buffer
    used,       \* edits the user has made at least once (each is made once)
    saves,      \* history: how many Saves have begun
    stage,      \* which group of the buffer is being committed
    left,       \* edits of that group the provider has not handled yet
    awaited,    \* the edit whose request the provider is waiting for
    reply,      \* the server's answer to that request, once it has one
    wire,       \* requests sent and neither processed nor lost
    rows,       \* server: rows created from each drawn feature
    stored,     \* server: payload of the latest of those rows, 0 if none
    applied,    \* server: changes and deletions in effect
    created,    \* provider: payload of the row it created, 0 if not in _created
    deleted,    \* provider: _deleted
    wrote,      \* provider: _wrote
    refusal,    \* provider: _refusal is set
    uncertain,  \* provider: _uncertain_create
    acked,      \* history: edits that left the buffer as committed
    doubted     \* history: created rows for which an update was never answered

nativeVars == <<buffer, content, used, saves, stage, left>>
requestVars == <<awaited, reply, wire>>
serverVars == <<rows, stored, applied>>
sessionVars == <<created, deleted, wrote, refusal, uncertain>>
historyOfSave == <<acked, doubted>>
providerVars == <<nativeVars, requestVars, serverVars, sessionVars, historyOfSave>>

TypeOK ==
    /\ buffer \subseteq Edits
    /\ content \in [Creates -> Payloads]
    /\ used \subseteq Edits
    /\ saves \in 0..MaxSaves
    /\ stage \in Stages
    /\ left \subseteq Edits
    /\ awaited \in Edits \cup {None}
    /\ reply \in {"none", "ok", "refused"}
    /\ wire \subseteq Requests
    /\ rows \in [Creates -> Nat]
    /\ stored \in [Creates -> 0..MaxPayload]
    /\ applied \subseteq Changes \cup Deletes
    /\ created \in [Creates -> 0..MaxPayload]
    /\ deleted \subseteq Deletes
    /\ wrote \in BOOLEAN
    /\ refusal \in BOOLEAN
    /\ uncertain \in BOOLEAN
    /\ acked \subseteq Edits
    /\ doubted \subseteq Creates

ProviderInit ==
    /\ buffer = {}
    /\ content = [c \in Creates |-> 1]
    /\ used = {}
    /\ saves = 0
    /\ stage = "idle"
    /\ left = {}
    /\ awaited = None
    /\ reply = "none"
    /\ wire = {}
    /\ rows = [c \in Creates |-> 0]
    /\ stored = [c \in Creates |-> 0]
    /\ applied = {}
    /\ created = [c \in Creates |-> 0]
    /\ deleted = {}
    /\ wrote = FALSE
    /\ refusal = FALSE
    /\ uncertain = FALSE
    /\ acked = {}
    /\ doubted = {}

-----------------------------------------------------------------------------
(* The user's side of the native edit buffer. User input is excluded from  *)
(* the event loop the provider runs while it waits for a request, so these *)
(* happen between Saves only.                                              *)

Draw(e) ==
    /\ stage = "idle"
    /\ e \notin used
    /\ buffer' = buffer \cup {e}
    /\ used' = used \cup {e}
    /\ UNCHANGED <<content, saves, stage, left, requestVars, serverVars, sessionVars, historyOfSave>>

\* The user edits a feature which is new in the buffer.
Retouch(c) ==
    /\ stage = "idle"
    /\ c \in buffer
    /\ content[c] < MaxPayload
    /\ content' = [content EXCEPT ![c] = @ + 1]
    /\ UNCHANGED <<buffer, used, saves, stage, left, requestVars, serverVars, sessionVars, historyOfSave>>

\* The user undoes such an edit: after a failed Save QGIS keeps its undo stack.
Revert(c) ==
    /\ stage = "idle"
    /\ c \in buffer
    /\ content[c] > 1
    /\ content' = [content EXCEPT ![c] = @ - 1]
    /\ UNCHANGED <<buffer, used, saves, stage, left, requestVars, serverVars, sessionVars, historyOfSave>>

Undo(e) ==
    /\ stage = "idle"
    /\ e \in buffer
    /\ buffer' = buffer \ {e}
    /\ UNCHANGED <<content, used, saves, stage, left, requestVars, serverVars, sessionVars, historyOfSave>>

\* ClassLayerProvider.begin_save and reset_write_session, as updates.
BeginSaveSession ==
    /\ refusal' = FALSE
    /\ wrote' = FALSE

ResetWriteSession ==
    /\ created' = [c \in Creates |-> 0]
    /\ deleted' = {}
    /\ BeginSaveSession
    /\ UNCHANGED uncertain

\* Discarding the edits ends the edit session (afterRollBack).
RollBack ==
    /\ stage = "idle"
    /\ buffer' = {}
    /\ ResetWriteSession
    /\ UNCHANGED <<content, used, saves, stage, left, requestVars, serverVars, historyOfSave>>

-----------------------------------------------------------------------------
(* QGIS committing the buffer: changed features, then deleted ones, then   *)
(* new ones, stopping at the first group that fails. A group that succeeds *)
(* leaves the buffer.                                                      *)

GroupOf(s) ==
    CASE s = "changes" -> Changes
      [] s = "deletes" -> Deletes
      [] s = "creates" -> Creates

NextStage(s) ==
    CASE s = "changes" -> "deletes"
      [] s = "deletes" -> "creates"
      [] s = "creates" -> "idle"

StartNativeSave ==
    /\ stage = "idle"
    /\ buffer # {}
    /\ saves < MaxSaves
    /\ saves' = saves + 1
    /\ stage' = "changes"
    /\ left' = buffer \cap Changes
    /\ BeginSaveSession
    /\ UNCHANGED <<buffer, content, used, requestVars, serverVars,
                   created, deleted, uncertain, historyOfSave>>

GroupHandled ==
    /\ stage # "idle"
    /\ left = {}
    /\ awaited = None

\* The last lines of _change, deleteFeatures and addFeatures, and QGIS taking
\* the group out of the buffer. The whole commit succeeds with the last group;
\* committed() then resets the provider's write session.
FinishGroup ==
    /\ GroupHandled
    /\ stage # "creates"
    /\ buffer' = buffer \ GroupOf(stage)
    /\ acked' = acked \cup (buffer \cap GroupOf(stage))
    /\ stage' = NextStage(stage)
    /\ left' = (buffer \ GroupOf(stage)) \cap GroupOf(NextStage(stage))
    /\ deleted' = IF stage = "deletes" THEN {} ELSE deleted
    /\ UNCHANGED <<content, used, saves, requestVars, serverVars,
                   created, wrote, refusal, uncertain, doubted>>

FinishSave ==
    /\ GroupHandled
    /\ stage = "creates"
    /\ buffer' = buffer \ Creates
    /\ acked' = acked \cup (buffer \cap Creates)
    /\ stage' = "idle"
    /\ ResetWriteSession
    /\ UNCHANGED <<content, used, saves, left, requestVars, serverVars, doubted>>

\* Any failure ends the commit; the group stays in the buffer as a whole.
StopSave ==
    /\ stage' = "idle"
    /\ left' = {}
    /\ awaited' = None
    /\ reply' = "none"
    /\ UNCHANGED <<buffer, content, used, saves, acked>>

-----------------------------------------------------------------------------
(* The provider's requests, one feature at a time.                         *)

HandledOnce(e) == e \in deleted \/ (e \in Creates /\ created[e] # 0) \* mutant: stale payload kept

AlreadyHandled(e) ==
    \/ e \in deleted
    \/ e \in Creates /\ created[e] = content[e]

\* A deletion kept from an earlier attempt is not repeated; a row this session
\* already created is reused when its payload did not change.
SkipHandled(e) ==
    /\ awaited = None
    /\ e \in left
    /\ stage = "creates" => ~uncertain
    /\ AlreadyHandled(e)
    /\ left' = left \ {e}
    /\ UNCHANGED <<buffer, content, used, saves, stage, requestVars, serverVars, sessionVars, historyOfSave>>

PatchFor(e) == IF e \in Changes THEN "PATCH" ELSE "POST" \* mutant: not an API verb

VerbFor(e) ==
    CASE e \in Creates -> IF created[e] = 0 THEN "POST" ELSE "PUT"
      [] e \in Changes -> "PUT"
      [] e \in Deletes -> "DELETE"

RequestFor(e) ==
    [edit |-> e, verb |-> VerbFor(e), save |-> saves,
     payload |-> IF e \in Creates THEN content[e] ELSE 1,
     base |-> IF e \in Creates THEN created[e] ELSE 0]

Send(e) ==
    /\ awaited = None
    /\ e \in left
    /\ stage = "creates" => ~uncertain
    /\ ~AlreadyHandled(e)
    /\ awaited' = e
    /\ reply' = "none"
    /\ wire' = wire \cup {RequestFor(e)}
    /\ UNCHANGED <<nativeVars, serverVars, sessionVars, historyOfSave>>

\* addFeatures refuses at once while an earlier create has no known outcome.
RefuseUncertainCreates ==
    /\ stage = "creates"
    /\ uncertain
    /\ StopSave
    /\ UNCHANGED <<wire, serverVars, sessionVars, doubted>>

\* The answer arrives: _wrote is set and the row remembered.
ReceiveOk ==
    /\ awaited # None
    /\ reply = "ok"
    /\ wrote' = TRUE
    /\ left' = left \ {awaited}
    /\ created' = IF awaited \in Creates
                  THEN [created EXCEPT ![awaited] = content[awaited]]
                  ELSE created
    /\ deleted' = IF awaited \in Deletes THEN deleted \cup {awaited} ELSE deleted
    /\ awaited' = None
    /\ reply' = "none"
    /\ UNCHANGED <<buffer, content, used, saves, stage, wire, serverVars,
                   refusal, uncertain, historyOfSave>>

\* An HTTP 4xx other than 408: _note_failure records the refusal.
ReceiveRefusal ==
    /\ awaited # None
    /\ reply = "refused"
    /\ refusal' = TRUE
    /\ StopSave
    /\ UNCHANGED <<wire, serverVars, created, deleted, wrote, uncertain, doubted>>

NeverUncertain == FALSE \* mutant: a lost POST leaves no trace

\* No usable answer: a timeout, a broken connection, a 5xx, a 408 or a body that
\* names no row. Only a create makes the layer uncertain.
PostAwaited == awaited \in Creates /\ created[awaited] = 0

\* Mutant: without a timeout the provider waits for ever.
WaitForAnswer == FALSE

ReceiveNothing ==
    /\ awaited # None
    /\ uncertain' = (uncertain \/ PostAwaited)
    /\ doubted' = IF PostAwaited THEN doubted ELSE doubted \cup ({awaited} \cap Creates)
    /\ StopSave
    /\ UNCHANGED <<wire, serverVars, created, deleted, wrote, refusal>>

-----------------------------------------------------------------------------
(* The server (external) and the network: it may process a request after   *)
(* the provider stopped waiting, refuse it for any reason, or never get it.*)

Answer(r, text) ==
    reply' = IF awaited = r.edit /\ r.save = saves THEN text ELSE reply

\* A PUT names the version of the row it replaces; a stale version is refused.
Acceptable(r) ==
    (r.edit \in Creates /\ r.verb = "PUT") => stored[r.edit] = r.base

ServerApplies(r) ==
    /\ r \in wire
    /\ Acceptable(r)
    /\ wire' = wire \ {r}
    /\ IF r.edit \in Creates
       THEN /\ rows' = IF r.verb = "POST" THEN [rows EXCEPT ![r.edit] = @ + 1] ELSE rows
            /\ stored' = [stored EXCEPT ![r.edit] = r.payload]
            /\ UNCHANGED applied
       ELSE /\ applied' = applied \cup {r.edit}
            /\ UNCHANGED <<rows, stored>>
    /\ Answer(r, "ok")
    /\ UNCHANGED <<nativeVars, awaited, sessionVars, historyOfSave>>

ServerRefuses(r) ==
    /\ r \in wire
    /\ wire' = wire \ {r}
    /\ Answer(r, "refused")
    /\ UNCHANGED <<nativeVars, awaited, serverVars, sessionVars, historyOfSave>>

RequestLost(r) ==
    /\ r \in wire
    /\ wire' = wire \ {r}
    /\ UNCHANGED <<nativeVars, awaited, reply, serverVars, sessionVars, historyOfSave>>

-----------------------------------------------------------------------------
ProviderStep ==
    \/ FinishGroup
    \/ FinishSave
    \/ \E e \in Edits : SkipHandled(e) \/ Send(e)
    \/ RefuseUncertainCreates
    \/ ReceiveOk
    \/ ReceiveRefusal
    \/ ReceiveNothing

ServerStep ==
    \E r \in wire : ServerApplies(r) \/ ServerRefuses(r) \/ RequestLost(r)

UserStep ==
    \/ \E e \in Edits : Draw(e) \/ Undo(e)
    \/ \E c \in Creates : Retouch(c) \/ Revert(c)
    \/ RollBack
    \/ StartNativeSave

ProviderNext == UserStep \/ ProviderStep \/ ServerStep

\* The provider's own steps always run on: its event loop keeps turning and QGIS
\* times a request out. The user and the server owe nothing.
ProviderSpec ==
    /\ ProviderInit
    /\ [][ProviderNext]_providerVars
    /\ WF_providerVars(ProviderStep)

-----------------------------------------------------------------------------
(* What the write side promises.                                           *)

\* Within one provider's life no feature is created twice on the server,
\* whatever was lost, refused in part, edited again and saved again
\* (addFeatures: "A partial native batch retry must not recreate ...").
NoDuplicateRow == \A c \in Creates : rows[c] <= 1

\* An edit leaves the buffer as committed only when the server holds it, and a
\* new feature only with the payload it has in the buffer, unless an update of it
\* got no answer.
AckedIsOnServer ==
    \A e \in acked :
        IF e \in Creates
        THEN rows[e] = 1 /\ (stored[e] = content[e] \/ e \in doubted)
        ELSE e \in applied

RefusedLately == refusal /\ ~wrote \* mutant: earlier Saves of the session are forgotten

\* ClassLayerProvider.save_refusal: the refusal is the whole story of the Save.
SaveRefusal ==
    /\ refusal
    /\ ~wrote
    /\ \A c \in Creates : created[c] = 0
    /\ deleted = {}
    /\ ~uncertain

\* After a Save that ended with save_refusal(), no new feature of the buffer is
\* on the server or on its way to it, so sending it again cannot duplicate it.
RefusalIsWholeStory ==
    stage = "idle" /\ SaveRefusal =>
        \A c \in buffer \cap Creates :
            rows[c] = 0 /\ ~\E r \in wire : r.edit = c

\* A Save always ends: the native commit cannot hang on an answer that is lost.
SaveEnds == stage # "idle" ~> stage = "idle"
=============================================================================
