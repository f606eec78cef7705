------------------------ MODULE ClassProviderProofs ------------------------
(* Theorems about ClassProvider: its type correctness, and the two promises  *)
(* of the write side, for any number of features, payloads and Saves.        *)
EXTENDS ClassProvider, TLAPS

\* Where the native commit stands, and that it hands the provider only edits of
\* the group it is committing.
Committing ==
    /\ buffer \subseteq used
    /\ stage = "idle" => left = {}
    /\ stage # "idle" => saves >= 1 /\ left \subseteq buffer \cap GroupOf(stage)
    /\ awaited # None => awaited \in left

\* The server neither holds c nor may still get it.
Untouched(c) == rows[c] = 0 /\ \A r \in wire : r.edit # c

IsPost(r, c) == r.edit = c /\ r.verb = "POST"

\* A drawn feature has one POST that can still be applied, or one row.
OneCreate(c) ==
    /\ rows[c] <= 1
    /\ created[c] # 0 => rows[c] = 1
    /\ \A r \in wire : IsPost(r, c) => rows[c] = 0
    /\ \A r, s \in wire : IsPost(r, c) /\ IsPost(s, c) => r = s

\* While the provider awaits the answer to a POST of c, it is the only request for
\* c, and the answer says what became of it.
TruthfulReply(c) ==
    awaited = c /\ created[c] = 0 =>
        /\ \A r \in wire : r.edit = c => r.verb = "POST"
        /\ reply = "ok" => rows[c] = 1
        /\ reply = "refused" => Untouched(c)

\* What the provider may send again: a new feature which it neither remembers as
\* created nor has in doubt.
NothingHidden(c) ==
    /\ c \notin used => Untouched(c)
    /\ c \in buffer /\ created[c] = 0 /\ ~uncertain /\ awaited # c => Untouched(c)

Sound(c) == OneCreate(c) /\ TruthfulReply(c) /\ NothingHidden(c)

ProviderInv == TypeOK /\ Committing /\ \A c \in Creates : Sound(c)

-----------------------------------------------------------------------------
USE DEF nativeVars, requestVars, serverVars, sessionVars, historyOfSave,
        BeginSaveSession, ResetWriteSession

LEMMA GroupsOfEdits ==
    ASSUME NEW s \in Stages \ {"idle"}
    PROVE  GroupOf(s) \subseteq Edits
BY EditsAssumption DEF Stages, GroupOf, Edits

\* What a new or a reset write session remembers has its type.
LEMMA NothingRemembered == [c \in Creates |-> 0] \in [Creates -> 0..MaxPayload]
BY BoundsAssumption

LEMMA TypeInit == ProviderInit => TypeOK
<1> SUFFICES ASSUME ProviderInit PROVE TypeOK
  OBVIOUS
<1>1. content \in [Creates -> Payloads] /\ rows \in [Creates -> Nat]
  BY BoundsAssumption DEF ProviderInit, Payloads
<1>2. stored \in [Creates -> 0..MaxPayload] /\ created \in [Creates -> 0..MaxPayload]
  BY NothingRemembered DEF ProviderInit
<1>3. saves \in 0..MaxSaves /\ stage \in Stages
  BY BoundsAssumption DEF ProviderInit, Stages
<1>4. wrote \in BOOLEAN /\ refusal \in BOOLEAN /\ uncertain \in BOOLEAN
  BY DEF ProviderInit
<1> QED
  BY <1>1, <1>2, <1>3, <1>4 DEF ProviderInit, TypeOK

LEMMA RequestsAreTyped ==
    ASSUME TypeOK, Committing, NEW e \in left
    PROVE  RequestFor(e) \in Requests
<1>1. e \in Edits /\ saves \in 1..MaxSaves
  BY BoundsAssumption DEF TypeOK, Committing
<1>2. VerbFor(e) \in {"POST", "PUT", "DELETE"}
  BY <1>1 DEF VerbFor, Edits
<1>3. (IF e \in Creates THEN content[e] ELSE 1) \in Payloads
  BY BoundsAssumption DEF TypeOK, Payloads
<1>4. (IF e \in Creates THEN created[e] ELSE 0) \in 0..MaxPayload
  BY BoundsAssumption DEF TypeOK
<1> QED
  BY <1>1, <1>2, <1>3, <1>4 DEF RequestFor, Requests

LEMMA TypeStep ==
    ASSUME TypeOK, Committing, [ProviderNext]_providerVars
    PROVE  TypeOK'
<1> USE BoundsAssumption DEF Payloads
<1>1. CASE \E e \in Edits : Draw(e) \/ Undo(e)
  BY <1>1 DEF TypeOK, Draw, Undo
<1>2. CASE \E c \in Creates : Retouch(c) \/ Revert(c)
  BY <1>2 DEF TypeOK, Retouch, Revert
<1>3. CASE RollBack
  <2>1. created' \in [Creates -> 0..MaxPayload] /\ deleted' \subseteq Deletes
    BY <1>3, NothingRemembered DEF RollBack
  <2>2. wrote' \in BOOLEAN /\ refusal' \in BOOLEAN
    BY <1>3 DEF RollBack
  <2> QED
    BY <1>3, <2>1, <2>2 DEF TypeOK, RollBack
<1>4. CASE StartNativeSave
  <2>1. saves' \in 0..MaxSaves
    BY <1>4 DEF TypeOK, StartNativeSave
  <2>2. stage' \in Stages /\ left' \subseteq Edits
    BY <1>4 DEF TypeOK, StartNativeSave, Stages
  <2>3. wrote' \in BOOLEAN /\ refusal' \in BOOLEAN
    BY <1>4 DEF StartNativeSave
  <2> QED
    BY <1>4, <2>1, <2>2, <2>3 DEF TypeOK, StartNativeSave
<1>5. CASE FinishGroup
  <2>1. stage' \in Stages
    BY <1>5 DEF TypeOK, FinishGroup, GroupHandled, NextStage, Stages
  <2>2. left' \subseteq Edits /\ buffer' \subseteq Edits /\ acked' \subseteq Edits
    BY <1>5 DEF TypeOK, FinishGroup
  <2>3. deleted' \subseteq Deletes
    BY <1>5 DEF TypeOK, FinishGroup
  <2> QED
    BY <1>5, <2>1, <2>2, <2>3 DEF TypeOK, FinishGroup
<1>6. CASE FinishSave
  <2>1. created' \in [Creates -> 0..MaxPayload] /\ deleted' \subseteq Deletes
    BY <1>6, NothingRemembered DEF FinishSave
  <2>2. wrote' \in BOOLEAN /\ refusal' \in BOOLEAN
    BY <1>6 DEF FinishSave
  <2>3. stage' \in Stages /\ buffer' \subseteq Edits /\ acked' \subseteq Edits
    BY <1>6 DEF TypeOK, FinishSave, Stages
  <2> QED
    BY <1>6, <2>1, <2>2, <2>3 DEF TypeOK, FinishSave
<1>7. CASE \E e \in Edits : SkipHandled(e)
  BY <1>7 DEF TypeOK, SkipHandled
<1>8. CASE \E e \in Edits : Send(e)
  BY <1>8, RequestsAreTyped DEF TypeOK, Send
<1>9. CASE RefuseUncertainCreates
  BY <1>9 DEF TypeOK, RefuseUncertainCreates, StopSave, Stages
<1>10. CASE ReceiveOk
  BY <1>10 DEF TypeOK, ReceiveOk
<1>11. CASE ReceiveRefusal
  BY <1>11 DEF TypeOK, ReceiveRefusal, StopSave, Stages
<1>12. CASE ReceiveNothing
  BY <1>12 DEF TypeOK, ReceiveNothing, PostAwaited, StopSave, Stages
<1>13. CASE \E r \in wire : ServerApplies(r)
  BY <1>13 DEF TypeOK, ServerApplies, Answer, Requests, Edits
<1>14. CASE \E r \in wire : ServerRefuses(r)
  BY <1>14 DEF TypeOK, ServerRefuses, Answer
<1>15. CASE \E r \in wire : RequestLost(r)
  BY <1>15 DEF TypeOK, RequestLost
<1>16. CASE UNCHANGED providerVars
  BY <1>16 DEF TypeOK, providerVars
<1> QED
  BY <1>1, <1>2, <1>3, <1>4, <1>5, <1>6, <1>7, <1>8, <1>9, <1>10, <1>11, <1>12, <1>13,
     <1>14, <1>15, <1>16
  DEF ProviderNext, UserStep, ProviderStep, ServerStep

-----------------------------------------------------------------------------
LEMMA CommittingInit == ProviderInit => Committing
BY DEF ProviderInit, Committing

LEMMA CommittingStep ==
    ASSUME TypeOK, Committing, [ProviderNext]_providerVars
    PROVE  Committing'
<1>1. CASE \E e \in Edits : Draw(e) \/ Undo(e)
  BY <1>1 DEF Committing, Draw, Undo
<1>2. CASE \E c \in Creates : Retouch(c) \/ Revert(c)
  BY <1>2 DEF Committing, Retouch, Revert
<1>3. CASE RollBack
  BY <1>3 DEF Committing, RollBack
<1>4. CASE StartNativeSave
  BY <1>4 DEF TypeOK, Committing, StartNativeSave, GroupOf
<1>5. CASE FinishGroup
  <2>1. stage' \in Stages \ {"idle"} /\ stage' = NextStage(stage)
    BY <1>5 DEF TypeOK, FinishGroup, GroupHandled, NextStage, Stages
  <2> QED
    BY <1>5, <2>1 DEF Committing, FinishGroup, GroupHandled
<1>6. CASE FinishSave
  BY <1>6 DEF Committing, FinishSave, GroupHandled
<1>7. CASE \E e \in Edits : SkipHandled(e)
  BY <1>7 DEF Committing, SkipHandled
<1>8. CASE \E e \in Edits : Send(e)
  BY <1>8 DEF Committing, Send
<1>9. CASE RefuseUncertainCreates \/ ReceiveRefusal \/ ReceiveNothing
  BY <1>9 DEF Committing, RefuseUncertainCreates, ReceiveRefusal, ReceiveNothing, StopSave
<1>10. CASE ReceiveOk
  BY <1>10 DEF Committing, ReceiveOk
<1>11. CASE \E r \in wire : ServerApplies(r) \/ ServerRefuses(r) \/ RequestLost(r)
  BY <1>11 DEF Committing, ServerApplies, ServerRefuses, RequestLost
<1>12. CASE UNCHANGED providerVars
  BY <1>12 DEF Committing, providerVars
<1> QED
  BY <1>1, <1>2, <1>3, <1>4, <1>5, <1>6, <1>7, <1>8, <1>9, <1>10, <1>11, <1>12
  DEF ProviderNext, UserStep, ProviderStep, ServerStep

-----------------------------------------------------------------------------
LEMMA SoundInit == ASSUME ProviderInit, NEW c \in Creates PROVE Sound(c)
BY EditsAssumption
DEF ProviderInit, Sound, OneCreate, TruthfulReply, NothingHidden, Untouched, IsPost, Edits

\* Most steps change neither the requests in flight nor the rows.
LEMMA SoundUserStep ==
    ASSUME TypeOK, Committing, UserStep, NEW c \in Creates, Sound(c)
    PROVE  Sound(c)'
<1> USE DEF Sound, OneCreate, TruthfulReply, NothingHidden, Untouched, IsPost,
            Committing, TypeOK
<1>1. CASE \E e \in Edits : Draw(e) \/ Undo(e)
  BY <1>1 DEF Draw, Undo
<1>2. CASE \E d \in Creates : Retouch(d) \/ Revert(d)
  BY <1>2 DEF Retouch, Revert
<1>3. CASE RollBack
  <2>1. awaited # c
    BY <1>3, EditsAssumption DEF RollBack, Edits
  <2>2. buffer' = {} /\ awaited' # c
    BY <1>3, <2>1 DEF RollBack
  <2>3. created'[c] = 0
    BY <1>3 DEF RollBack
  <2> QED
    BY <1>3, <2>2, <2>3 DEF RollBack
<1>4. CASE StartNativeSave
  BY <1>4 DEF StartNativeSave
<1> QED
  BY <1>1, <1>2, <1>3, <1>4 DEF UserStep

LEMMA SoundProviderStep ==
    ASSUME TypeOK, Committing, ProviderStep, NEW c \in Creates, Sound(c)
    PROVE  Sound(c)'
<1> USE DEF Sound, OneCreate, TruthfulReply, NothingHidden, Untouched, IsPost,
            Committing
<1>1. None # c /\ c \in Edits
  BY EditsAssumption DEF Edits
<1>2. CASE FinishGroup
  BY <1>2 DEF FinishGroup
<1>3. CASE FinishSave
  <2>1. created'[c] = 0 /\ c \notin buffer' /\ awaited' # c
    BY <1>1, <1>3 DEF FinishSave, GroupHandled
  <2> QED
    BY <1>3, <2>1 DEF FinishSave
<1>4. CASE \E e \in Edits : SkipHandled(e)
  BY <1>4 DEF SkipHandled
<1>5. ASSUME NEW e \in Edits, Send(e) PROVE Sound(c)'
  <2>1. CASE e # c
    BY <1>1, <1>5, <2>1 DEF Send, RequestFor, VerbFor
  <2>2. CASE e = c /\ created[c] # 0
    BY <1>1, <1>5, <2>2 DEF Send, RequestFor, VerbFor
  <2>3. CASE e = c /\ created[c] = 0
    <3>1. c \in left /\ awaited = None /\ stage \in Stages \ {"idle"}
      BY <1>5, <2>3 DEF Send, TypeOK
    <3>2. stage = "creates"
      <4>1. c \in GroupOf(stage)
        BY <3>1
      <4>2. c \notin Changes /\ c \notin Deletes
        BY EditsAssumption
      <4> QED
        BY <3>1, <4>1, <4>2 DEF GroupOf, Stages
    <3>3. Untouched(c)
      BY <1>1, <1>5, <2>3, <3>1, <3>2 DEF Send
    <3>4. RequestFor(c).edit = c /\ RequestFor(c).verb = "POST"
      BY <2>3, EditsAssumption DEF RequestFor, VerbFor
    <3>5. wire' = wire \cup {RequestFor(c)} /\ awaited' = c /\ reply' = "none"
      BY <1>5, <2>3 DEF Send
    <3>6. UNCHANGED <<rows, created, buffer, used, uncertain>>
      BY <1>5 DEF Send
    <3>7. c \in used
      BY <3>1
    <3> QED
      BY <3>3, <3>4, <3>5, <3>6, <3>7, <2>3 DEF TypeOK
  <2> QED
    BY <2>1, <2>2, <2>3
<1>6. CASE RefuseUncertainCreates
  BY <1>1, <1>6 DEF RefuseUncertainCreates, StopSave
<1>7. CASE ReceiveRefusal
  BY <1>1, <1>7 DEF ReceiveRefusal, StopSave
<1>8. CASE ReceiveNothing
  BY <1>1, <1>8 DEF ReceiveNothing, PostAwaited, StopSave
<1>9. CASE ReceiveOk
  BY <1>1, <1>9, EditsAssumption DEF ReceiveOk, TypeOK, Payloads
<1> QED
  BY <1>2, <1>3, <1>4, <1>5, <1>6, <1>7, <1>8, <1>9 DEF ProviderStep

LEMMA SoundServerStep ==
    ASSUME TypeOK, Committing, ServerStep, NEW c \in Creates, Sound(c)
    PROVE  Sound(c)'
<1> USE DEF Sound, OneCreate, TruthfulReply, NothingHidden, Untouched, IsPost
<1>1. ASSUME NEW r \in wire, ServerApplies(r) PROVE Sound(c)'
  <2>1. CASE r.edit # c
    BY <1>1, <2>1 DEF ServerApplies, Answer, TypeOK
  <2>2. CASE IsPost(r, c)
    BY <1>1, <2>2 DEF ServerApplies, Answer, TypeOK
  <2>3. CASE r.edit = c /\ r.verb # "POST"
    BY <1>1, <2>3 DEF ServerApplies, Answer, TypeOK
  <2> QED
    BY <2>1, <2>2, <2>3
<1>2. ASSUME NEW r \in wire, ServerRefuses(r) PROVE Sound(c)'
  BY <1>2 DEF ServerRefuses, Answer, TypeOK
<1>3. ASSUME NEW r \in wire, RequestLost(r) PROVE Sound(c)'
  BY <1>3 DEF RequestLost, TypeOK
<1> QED
  BY <1>1, <1>2, <1>3 DEF ServerStep

-----------------------------------------------------------------------------
(* The theorems.                                                           *)

LEMMA SoundStep ==
    ASSUME ProviderInv, [ProviderNext]_providerVars
    PROVE  \A c \in Creates : Sound(c)'
<1>1. CASE ProviderNext
  BY <1>1, SoundUserStep, SoundProviderStep, SoundServerStep DEF ProviderNext, ProviderInv
<1>2. CASE UNCHANGED providerVars
  BY <1>2 DEF providerVars, ProviderInv, Sound, OneCreate, TruthfulReply, NothingHidden,
              Untouched, IsPost
<1> QED
  BY <1>1, <1>2

\* ProviderInv is inductive.
THEOREM ProviderIsSound == ProviderSpec => []ProviderInv
<1>1. ProviderInit => ProviderInv
  BY TypeInit, CommittingInit, SoundInit DEF ProviderInv
<1>2. ProviderInv /\ [ProviderNext]_providerVars => ProviderInv'
  BY TypeStep, CommittingStep, SoundStep DEF ProviderInv
<1> QED
  BY <1>1, <1>2, PTL DEF ProviderSpec

\* Every variable of the native buffer, the provider and the server keeps its
\* type, whatever the bounds.
THEOREM ProviderTypes == ProviderSpec => []TypeOK
<1>1. ProviderInv => TypeOK
  BY DEF ProviderInv
<1> QED
  BY <1>1, ProviderIsSound, PTL

\* addFeatures never creates a feature twice within one provider's life, however
\* many features, Saves and lost answers there are.
THEOREM NeverTwice == ProviderSpec => []NoDuplicateRow
<1>1. ProviderInv => NoDuplicateRow
  BY DEF ProviderInv, Sound, OneCreate, NoDuplicateRow
<1> QED
  BY <1>1, ProviderIsSound, PTL

\* save_refusal tells the truth: after a Save it calls refused, no new feature in
\* the buffer is on the server or on its way to it.
THEOREM RefusalIsTrue == ProviderSpec => []RefusalIsWholeStory
<1>1. ASSUME ProviderInv PROVE RefusalIsWholeStory
  <2> SUFFICES ASSUME stage = "idle", SaveRefusal, NEW c \in buffer \cap Creates
               PROVE  Untouched(c)
    BY DEF RefusalIsWholeStory, Untouched
  <2>1. awaited # c
    BY <1>1, EditsAssumption DEF ProviderInv, Committing, Edits
  <2>2. created[c] = 0 /\ ~uncertain
    BY DEF SaveRefusal
  <2> QED
    BY <1>1, <2>1, <2>2 DEF ProviderInv, Sound, NothingHidden
<1> QED
  BY <1>1, ProviderIsSound, PTL

-----------------------------------------------------------------------------
(* What has left the buffer is on the server. The server says nothing of a  *)
(* request the provider stopped waiting for, so what the provider remembers *)
(* of a row is only as good as the answers to its updates (doubted).        *)

\* The part of the group which the provider has put on the server.
Delivered(e) == IF e \in Creates THEN created[e] = content[e] ELSE e \in applied

\* The server has c as the provider remembers it, or as the awaited request has it; that
\* request is the only one which can still change the row.
Known(c) ==
    c \notin doubted =>
        /\ created[c] # 0 /\ ~(awaited = c /\ reply = "ok") => stored[c] = created[c]
        /\ awaited = c /\ reply = "ok" => stored[c] = content[c]
        /\ \A r \in wire : r.edit = c /\ (r.verb # "POST" \/ awaited = c) =>
              /\ awaited = c /\ reply = "none"
              /\ r.payload = content[c] /\ r.save = saves
        /\ \A r, s \in wire : r.edit = c /\ s.edit = c /\ awaited = c => r = s

\* The answers to changes and deletions are kept, and no create is awaited in doubt.
Answered ==
    /\ deleted \subseteq applied
    /\ uncertain => awaited \notin Creates
    /\ awaited \in Changes \cup Deletes /\ reply = "ok" => awaited \in applied

GroupDelivered ==
    stage # "idle" => \A e \in (buffer \cap GroupOf(stage)) \ left : Delivered(e)

Acknowledged ==
    /\ ProviderInv
    /\ \A c \in Creates : Known(c)
    /\ Answered
    /\ GroupDelivered
    /\ acked \subseteq used \ buffer
    /\ AckedIsOnServer

\* No request is awaited between Saves.
LEMMA IdleAwaitsNothing ==
    ASSUME ProviderInv, stage = "idle"
    PROVE  awaited = None /\ left = {}
BY DEF ProviderInv, Committing

LEMMA KnownUserStep ==
    ASSUME ProviderInv, UserStep, NEW c \in Creates, Known(c)
    PROVE  Known(c)'
<1> USE DEF Known
<1>0. None # c
  BY EditsAssumption
<1>1. CASE \E e \in Edits : Draw(e) \/ Undo(e)
  BY <1>1 DEF Draw, Undo
<1>2. CASE \E d \in Creates : Retouch(d) \/ Revert(d)
  BY <1>0, <1>2, IdleAwaitsNothing DEF Retouch, Revert
<1>3. CASE RollBack
  BY <1>0, <1>3, IdleAwaitsNothing DEF RollBack
<1>4. CASE StartNativeSave
  BY <1>0, <1>4, IdleAwaitsNothing DEF StartNativeSave
<1> QED
  BY <1>1, <1>2, <1>3, <1>4 DEF UserStep

LEMMA KnownProviderStep ==
    ASSUME ProviderInv, Answered, ProviderStep, NEW c \in Creates, Known(c)
    PROVE  Known(c)'
<1> USE DEF Known
<1>0. None # c /\ c \in Edits /\ c \notin Changes /\ c \notin Deletes
  BY EditsAssumption DEF Edits
<1>1. /\ created[c] # 0 => rows[c] = 1
      /\ \A r \in wire : IsPost(r, c) => rows[c] = 0
      /\ awaited = c /\ created[c] = 0 => \A r \in wire : r.edit = c => r.verb = "POST"
  BY DEF ProviderInv, Sound, OneCreate, TruthfulReply
<1>2. CASE FinishGroup
  BY <1>2 DEF FinishGroup
<1>3. CASE FinishSave
  BY <1>0, <1>3 DEF FinishSave, GroupHandled
<1>4. CASE \E e \in Edits : SkipHandled(e)
  BY <1>4 DEF SkipHandled
<1>5. ASSUME NEW e \in Edits, Send(e) PROVE Known(c)'
  <2>0. /\ awaited = None /\ awaited' = e /\ reply' = "none" /\ wire' = wire \cup {RequestFor(e)}
        /\ UNCHANGED <<created, stored, content, saves, doubted, rows>> /\ RequestFor(e).edit = e
    BY <1>5 DEF Send, RequestFor
  <2>1. CASE e # c
    BY <1>0, <2>0, <2>1
  <2>2. CASE e = c
    <3>1. RequestFor(c).payload = content[c] /\ RequestFor(c).save = saves
      BY DEF RequestFor
    <3>2. CASE created[c] # 0
      <4>1. \A r \in wire : r.edit = c => c \in doubted
        BY <1>0, <1>1, <2>0, <3>2 DEF IsPost
      <4> HIDE DEF IsPost
      <4> QED
        BY <1>0, <2>0, <2>2, <3>1, <4>1
    <3>3. CASE created[c] = 0
      <4>1. c \in left /\ stage \in Stages \ {"idle"}
        BY <1>5, <2>2 DEF Send, ProviderInv, Committing, TypeOK
      <4>2. c \in buffer \cap GroupOf(stage)
        BY <4>1 DEF ProviderInv, Committing
      <4>3. stage = "creates"
        BY <1>0, <4>1, <4>2 DEF GroupOf, Stages
      <4>4. Untouched(c)
        BY <1>0, <1>5, <2>0, <2>2, <3>3, <4>2, <4>3 DEF Send, ProviderInv, Sound, NothingHidden
      <4> QED
        BY <1>0, <2>0, <2>2, <3>1, <3>3, <4>4 DEF Untouched
    <3> QED
      BY <3>2, <3>3
  <2> QED
    BY <2>1, <2>2
<1>6. CASE RefuseUncertainCreates
  BY <1>0, <1>6 DEF RefuseUncertainCreates, StopSave, Answered
<1>7. CASE ReceiveRefusal
  BY <1>0, <1>7 DEF ReceiveRefusal, StopSave
<1>8. CASE ReceiveNothing
  BY <1>0, <1>1, <1>8 DEF ReceiveNothing, PostAwaited, StopSave
<1>9. CASE ReceiveOk
  BY <1>0, <1>9 DEF ReceiveOk, ProviderInv, TypeOK
<1> QED
  BY <1>2, <1>3, <1>4, <1>5, <1>6, <1>7, <1>8, <1>9 DEF ProviderStep

LEMMA KnownServerStep ==
    ASSUME ProviderInv, ServerStep, NEW c \in Creates, Known(c)
    PROVE  Known(c)'
<1> USE DEF Known
<1>1. ASSUME NEW r \in wire, ServerApplies(r) PROVE Known(c)'
  <2>1. CASE r.edit # c
    BY <1>1, <2>1 DEF ServerApplies, Answer, ProviderInv, TypeOK
  <2>2. CASE r.edit = c /\ r.verb = "POST" /\ awaited # c
    <3>1. created[c] = 0
      BY <2>2 DEF ProviderInv, Sound, OneCreate, IsPost
    <3> QED
      BY <1>1, <2>2, <3>1 DEF ServerApplies, Answer, ProviderInv, TypeOK
  <2>3. CASE r.edit = c /\ ~(r.verb = "POST" /\ awaited # c)
    BY <1>1, <2>3 DEF ServerApplies, Answer, ProviderInv, TypeOK
  <2> QED
    BY <2>1, <2>2, <2>3
<1>2. ASSUME NEW r \in wire, ServerRefuses(r) PROVE Known(c)'
  BY <1>2 DEF ServerRefuses, Answer
<1>3. ASSUME NEW r \in wire, RequestLost(r) PROVE Known(c)'
  BY <1>3 DEF RequestLost
<1> QED
  BY <1>1, <1>2, <1>3 DEF ServerStep

LEMMA KnownStep ==
    ASSUME Acknowledged, [ProviderNext]_providerVars
    PROVE  \A c \in Creates : Known(c)'
<1>1. CASE ProviderNext
  BY <1>1, KnownUserStep, KnownProviderStep, KnownServerStep DEF ProviderNext, Acknowledged
<1>2. CASE UNCHANGED providerVars
  BY <1>2 DEF providerVars, Acknowledged, Known
<1> QED
  BY <1>1, <1>2

LEMMA AnsweredStep ==
    ASSUME ProviderInv, Answered, [ProviderNext]_providerVars
    PROVE  Answered'
<1> USE EditsAssumption DEF Answered
<1>0. None \notin Changes \cup Deletes \cup Creates
  OBVIOUS
<1>1. CASE UserStep
  <2>1. CASE RollBack
    BY <1>0, <2>1, IdleAwaitsNothing DEF RollBack
  <2> QED
    BY <1>1, <2>1 DEF UserStep, Draw, Undo, Retouch, Revert, StartNativeSave
<1>2. CASE FinishGroup \/ FinishSave
  BY <1>0, <1>2 DEF FinishGroup, FinishSave, GroupHandled
<1>3. CASE \E e \in Edits : SkipHandled(e)
  BY <1>3 DEF SkipHandled
<1>4. ASSUME NEW e \in Edits, Send(e) PROVE Answered'
  <2>1. e \in Creates => ~uncertain
    <3>1. SUFFICES ASSUME e \in Creates PROVE stage = "creates"
      BY <1>4 DEF Send
    <3>2. e \in GroupOf(stage) /\ stage \in Stages \ {"idle"}
      BY <1>4 DEF Send, ProviderInv, Committing, TypeOK
    <3>3. e \notin Changes /\ e \notin Deletes
      BY <3>1
    <3> QED
      BY <3>2, <3>3 DEF GroupOf, Stages
  <2> QED
    BY <1>4, <2>1 DEF Send
<1>5. CASE RefuseUncertainCreates \/ ReceiveRefusal \/ ReceiveNothing
  BY <1>0, <1>5 DEF RefuseUncertainCreates, ReceiveRefusal, ReceiveNothing, StopSave
<1>6. CASE ReceiveOk
  BY <1>0, <1>6 DEF ReceiveOk
<1>7. CASE ServerStep
  <2>1. ASSUME NEW r \in wire, ServerApplies(r) PROVE Answered'
    BY <2>1 DEF ServerApplies, Answer
  <2>2. ASSUME NEW r \in wire, ServerRefuses(r) \/ RequestLost(r) PROVE Answered'
    BY <2>2 DEF ServerRefuses, RequestLost, Answer
  <2> QED
    BY <1>7, <2>1, <2>2 DEF ServerStep
<1>8. CASE UNCHANGED providerVars
  BY <1>8 DEF providerVars
<1> QED
  BY <1>1, <1>2, <1>3, <1>4, <1>5, <1>6, <1>7, <1>8 DEF ProviderNext, ProviderStep

LEMMA DeliveredStep ==
    ASSUME ProviderInv, Answered, GroupDelivered, [ProviderNext]_providerVars
    PROVE  GroupDelivered'
<1> USE EditsAssumption DEF GroupDelivered, Delivered
<1>1. CASE UserStep
  <2>1. CASE StartNativeSave
    BY <2>1 DEF StartNativeSave, GroupOf
  <2>2. CASE ~StartNativeSave
    BY <1>1, <2>2 DEF UserStep, Draw, Undo, Retouch, Revert, RollBack
  <2> QED
    BY <2>1, <2>2
<1>2. CASE FinishGroup
  BY <1>2 DEF FinishGroup
<1>3. CASE FinishSave
  BY <1>3 DEF FinishSave
<1>4. CASE \E e \in Edits : SkipHandled(e)
  <2>1. PICK e \in Edits : SkipHandled(e)
    BY <1>4
  <2>2. Delivered(e)
    BY <2>1 DEF SkipHandled, AlreadyHandled, Answered, ProviderInv, TypeOK
  <2> QED
    BY <2>1, <2>2 DEF SkipHandled
<1>5. CASE \E e \in Edits : Send(e)
  BY <1>5 DEF Send
<1>6. CASE RefuseUncertainCreates \/ ReceiveRefusal \/ ReceiveNothing
  BY <1>6 DEF RefuseUncertainCreates, ReceiveRefusal, ReceiveNothing, StopSave
<1>7. CASE ReceiveOk
  <2>1. awaited \in Edits /\ created \in [Creates -> 0..MaxPayload]
    BY <1>7 DEF ReceiveOk, ProviderInv, TypeOK
  <2>2. awaited \notin Creates => awaited \in applied
    BY <1>7, <2>1 DEF ReceiveOk, Answered, Edits
  <2> QED
    BY <1>7, <2>1, <2>2 DEF ReceiveOk
<1>8. CASE ServerStep
  BY <1>8 DEF ServerStep, ServerApplies, ServerRefuses, RequestLost
<1>9. CASE UNCHANGED providerVars
  BY <1>9 DEF providerVars
<1> QED
  BY <1>1, <1>2, <1>3, <1>4, <1>5, <1>6, <1>7, <1>8, <1>9 DEF ProviderNext, ProviderStep

\* An edit is made once, so what has left the buffer does not come back.
LEMMA AckedStep ==
    ASSUME Acknowledged, [ProviderNext]_providerVars
    PROVE  /\ (acked \subseteq used \ buffer)'
           /\ AckedIsOnServer'
<1> USE DEF AckedIsOnServer
<1>0. /\ ProviderInv /\ GroupDelivered /\ AckedIsOnServer /\ acked \subseteq used \ buffer
      /\ buffer \subseteq used /\ acked \subseteq Edits
  BY DEF Acknowledged, ProviderInv, Committing, TypeOK
<1>1. CASE \E e \in Edits : Draw(e) \/ Undo(e)
  BY <1>0, <1>1 DEF Draw, Undo
<1>2. CASE \E d \in Creates : Retouch(d) \/ Revert(d)
  BY <1>0, <1>2 DEF Retouch, Revert, ProviderInv, TypeOK
<1>3. CASE RollBack
  BY <1>0, <1>3 DEF RollBack
<1>4. CASE StartNativeSave
  BY <1>0, <1>4 DEF StartNativeSave
<1>5. CASE FinishGroup
  <2>1. stage \in {"changes", "deletes"} /\ left = {}
    BY <1>0, <1>5 DEF FinishGroup, GroupHandled, ProviderInv, TypeOK, Stages
  <2>2. \A e \in buffer \cap GroupOf(stage) : e \notin Creates /\ e \in applied
    BY <1>0, <2>1, EditsAssumption DEF GroupOf, GroupDelivered, Delivered
  <2> QED
    BY <1>0, <1>5, <2>2 DEF FinishGroup
<1>6. CASE FinishSave
  <2>1. ASSUME NEW c \in buffer \cap Creates
        PROVE  rows[c] = 1 /\ (stored[c] = content[c] \/ c \in doubted)
    <3>1. created[c] = content[c] /\ awaited = None
      BY <1>0, <1>6 DEF FinishSave, GroupHandled, GroupDelivered, Delivered, GroupOf
    <3>2. content[c] # 0 /\ awaited # c
      BY <1>0, <3>1, EditsAssumption, BoundsAssumption DEF ProviderInv, TypeOK, Payloads
    <3>3. Known(c) /\ Sound(c)
      BY DEF Acknowledged, ProviderInv
    <3> QED
      BY <3>1, <3>2, <3>3 DEF Known, Sound, OneCreate
  <2> QED
    BY <1>0, <1>6, <2>1 DEF FinishSave
<1>7. CASE \E e \in Edits : SkipHandled(e) \/ Send(e)
  BY <1>0, <1>7 DEF SkipHandled, Send
<1>8. CASE RefuseUncertainCreates \/ ReceiveRefusal \/ ReceiveNothing
  BY <1>0, <1>8 DEF RefuseUncertainCreates, ReceiveRefusal, ReceiveNothing, StopSave
<1>9. CASE ReceiveOk
  BY <1>0, <1>9 DEF ReceiveOk
<1>10. ASSUME NEW r \in wire, ServerApplies(r)
       PROVE  (acked \subseteq used \ buffer)' /\ AckedIsOnServer'
  <2>1. rows \in [Creates -> Nat] /\ stored \in [Creates -> 0..MaxPayload]
    BY <1>0 DEF ProviderInv, TypeOK
  <2>2. ASSUME r.edit \in acked, r.edit \in Creates
        PROVE  r.verb # "POST" /\ r.edit \in doubted
    <3>1. rows[r.edit] = 1 /\ r.edit \notin buffer
      BY <1>0, <2>2
    <3>2. r.verb # "POST"
      BY <1>0, <2>2, <3>1 DEF ProviderInv, Sound, OneCreate, IsPost
    <3>3. awaited # r.edit
      BY <1>0, <2>2, <3>1, EditsAssumption DEF ProviderInv, Committing
    <3> QED
      BY <2>2, <3>2, <3>3 DEF Acknowledged, Known
  <2> QED
    BY <1>0, <1>10, <2>1, <2>2 DEF ServerApplies
<1>11. CASE \E r \in wire : ServerRefuses(r) \/ RequestLost(r)
  BY <1>0, <1>11 DEF ServerRefuses, RequestLost
<1>12. CASE UNCHANGED providerVars
  BY <1>0, <1>12 DEF providerVars
<1> QED
  BY <1>1, <1>2, <1>3, <1>4, <1>5, <1>6, <1>7, <1>8, <1>9, <1>10, <1>11, <1>12
  DEF ProviderNext, UserStep, ProviderStep, ServerStep

\* An edit leaves the buffer as committed only when the server holds it, and a new
\* feature as it is in the buffer, or an update of it was never answered: for any number
\* of features, Saves, and requests lost, refused or answered late.
THEOREM AckedIsStored == ProviderSpec => []AckedIsOnServer
<1>1. ProviderInit => Acknowledged
  <2> SUFFICES ASSUME ProviderInit PROVE Acknowledged
    OBVIOUS
  <2>1. ProviderInv
    BY TypeInit, CommittingInit, SoundInit DEF ProviderInv
  <2> QED
    BY <2>1, EditsAssumption
    DEF ProviderInit, Acknowledged, Known, Answered, GroupDelivered, AckedIsOnServer
<1>2. Acknowledged /\ [ProviderNext]_providerVars => Acknowledged'
  <2> SUFFICES ASSUME Acknowledged, [ProviderNext]_providerVars PROVE Acknowledged'
    OBVIOUS
  <2>1. ProviderInv /\ Answered /\ GroupDelivered
    BY DEF Acknowledged
  <2>2. ProviderInv'
    BY <2>1, TypeStep, CommittingStep, SoundStep DEF ProviderInv
  <2> QED
    BY <2>1, <2>2, KnownStep, AnsweredStep, DeliveredStep, AckedStep DEF Acknowledged
<1>3. Acknowledged => AckedIsOnServer
  BY DEF Acknowledged
<1> QED
  BY <1>1, <1>2, <1>3, PTL DEF ProviderSpec
=============================================================================
