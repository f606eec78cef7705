------------------------ MODULE UnpushedEditsProofs ------------------------
(* Theorems about UnpushedEdits that hold whichever journal writes fail: its  *)
(* type correctness, and what an upload on Connect sends and leaves on disk,  *)
(* for any number of edits, copies, Saves and crashes.                        *)
EXTENDS UnpushedEdits, ClassProviderProofs

\* The entries a copy may hold: of edits which were made, with the one version a
\* changed or a deleted feature has.
Fitting == {op \in Operations : op[1] \in used /\ (op[1] \in Creates \/ op[2] = 1)}

CopiesFit ==
    /\ \A d \in Docs : disk[d].ops \subseteq Fitting
    /\ mine.copy.ops \subseteq Fitting
    /\ sync.copy.ops \subseteq Fitting

\* Edits which are in no copy of their own have room for one.
RoomForCopy == buffer # {} /\ (mine.doc = NoDoc \/ ~mine.bound) => issued < MaxDocs

\* The groups already committed have left the buffer.
GroupsGone ==
    /\ stage = "deletes" => buffer \cap Changes = {}
    /\ stage = "creates" => buffer \subseteq Creates

EditsAreOpen == buffer # {} => editing

\* Who awaits the native commit, and the claim an upload on Connect holds meanwhile.
Callers ==
    /\ caller = "nobody" => stage = "idle"
    /\ caller = "person" => stage # "idle"
    /\ caller = "connect" => sync.phase = "claimed"
    /\ sync.phase = "claimed" => caller # "person"

CheckHasCopy == sync.phase # "idle" => sync.doc \in Docs

\* Until the upload on Connect saves, the layer's copy is the one that was checked.
ClaimIsOwn == Claimed => mine.doc = sync.doc /\ mine.copy = sync.copy

BufferInv == TypeOK /\ Committing /\ GroupsGone /\ EditsAreOpen
JournalInv ==
    /\ BufferInv /\ JournalTypeOK /\ CopiesFit /\ RoomForCopy
    /\ Callers /\ CheckHasCopy /\ ClaimIsOwn

-----------------------------------------------------------------------------
USE DEF nativeVars, requestVars, serverVars, sessionVars, historyOfSave,
        storeVars, layerVars, timerVars, aroundVars, historyVars,
        BeginSaveSession, ResetWriteSession

(* What a snapshot makes of the journal. *)

\* The layer's copy is written anew, rather than kept beside a new one.
Adopted == mine.doc # NoDoc /\ ~Orphaned

OwnId == IF Adopted THEN mine.doc ELSE issued + 1

OwnCopy ==
    IF Adopted
    THEN [mine.copy EXCEPT !.ops = BufferOps,
                           !.noted = @ /\ (\/ mine.copy.state # "pending"
                                           \/ mine.copy.ops = BufferOps)]
    ELSE [state |-> IF Orphaned \/ marked THEN "conflict" ELSE "pending",
          ops |-> BufferOps, noted |-> FALSE, email |-> owner]

SetAside == [mine.copy EXCEPT !.state = "conflict", !.noted = FALSE]

KeptDisk == IF Orphaned THEN [disk EXCEPT ![mine.doc] = SetAside] ELSE disk

Passed(s) ==
    /\ ~s.raised
    /\ s.disk = disk /\ s.mine = mine /\ s.marked = marked /\ s.issued = issued

Emptied(s) ==
    /\ mine.bound /\ mine.copy.state = "pending"
    /\ ~s.raised
    /\ s.disk = Without(mine.doc) /\ s.mine = Forgotten
    /\ s.marked = FALSE /\ s.issued = issued

Refused(s, fault) ==
    /\ s.raised
    /\ s.marked = marked /\ s.issued = issued
    /\ \/ Orphaned /\ fault = "keep" /\ s.disk = disk /\ s.mine = mine
       \/ /\ fault = "write" \/ ~Persistable(OwnId, OwnCopy)
          /\ s.disk = KeptDisk
          /\ s.mine = [mine EXCEPT !.bound = (mine.doc # NoDoc)]

Written(s) ==
    /\ ~s.raised
    /\ Persistable(OwnId, OwnCopy)
    /\ s.disk = [KeptDisk EXCEPT ![OwnId] = OwnCopy]
    /\ s.mine = [doc |-> OwnId, copy |-> OwnCopy, bound |-> TRUE]
    /\ s.marked = (OwnCopy.state = "conflict")
    /\ s.issued = IF OwnId = mine.doc THEN issued ELSE OwnId

LEMMA SnapshotOfEdits ==
    ASSUME editing, buffer # {}, NEW fault
    PROVE  Refused(Snapshot(fault), fault) \/ Written(Snapshot(fault))
<1>1. CASE Orphaned /\ fault = "keep"
  BY <1>1 DEF Snapshot, Refused, Orphaned
<1>2. CASE ~(Orphaned /\ fault = "keep") /\ (fault = "write" \/ ~Persistable(OwnId, OwnCopy))
  BY <1>2 DEF Snapshot, Refused, OwnId, OwnCopy, KeptDisk, SetAside, Adopted
<1>3. CASE ~(Orphaned /\ fault = "keep") /\ ~(fault = "write" \/ ~Persistable(OwnId, OwnCopy))
  BY <1>3 DEF Snapshot, Written, OwnId, OwnCopy, KeptDisk, SetAside, Adopted
<1> QED
  BY <1>1, <1>2, <1>3

LEMMA SnapshotOfNone ==
    ASSUME editing \in BOOLEAN, ~editing \/ buffer = {}, NEW fault
    PROVE  \/ Passed(Snapshot(fault))
           \/ editing /\ buffer = {} /\ Emptied(Snapshot(fault))
BY DEF Snapshot, Passed, Emptied

\* Marking a copy that could not be written leaves the journal as the snapshot left
\* it; else the layer's copy is uncertain, in memory and, unless the mark itself could
\* not be written, on disk.
MarkFails(fault) ==
    /\ Refused(Snapshot(fault), fault)
    /\ Journal(Snapshot(fault))
    /\ UNCHANGED <<commit, fresh, judgeDue, owed>>

Marked(fault) ==
    /\ Persistable(OwnId, OwnCopy)
    /\ fresh' = (OwnCopy.state = "pending")
    /\ mine' = [doc |-> OwnId, copy |-> Attempted(OwnCopy), bound |-> TRUE]
    /\ issued' = IF OwnId = mine.doc THEN issued ELSE OwnId
    /\ owed' = owed \cup buffer
    /\ IF fault = "mark"
       THEN /\ disk' = [KeptDisk EXCEPT ![OwnId] = OwnCopy]
            /\ marked' = (OwnCopy.state = "conflict")
            /\ UNCHANGED <<commit, judgeDue>>
       ELSE /\ disk' = [KeptDisk EXCEPT ![OwnId] = Attempted(OwnCopy)]
            /\ marked' = FALSE
            /\ commit' = OwnId
            /\ judgeDue' = TRUE

LEMMA MarkOfEdits ==
    ASSUME editing, buffer # {}, NEW fault, MarkUncertain(fault)
    PROVE  MarkFails(fault) \/ Marked(fault)
<1>1. CASE Refused(Snapshot(fault), fault)
  BY <1>1 DEF MarkUncertain, MarkFails, Refused
<1>2. CASE Written(Snapshot(fault))
  <2> DEFINE s == Snapshot(fault)
             m == [s.mine EXCEPT !.copy = Attempted(@)]
  <2>1. m = [doc |-> OwnId, copy |-> Attempted(OwnCopy), bound |-> TRUE]
    <3>1. s.mine = [doc |-> OwnId, copy |-> OwnCopy, bound |-> TRUE]
      BY <1>2 DEF Written
    <3>2. m = [s.mine EXCEPT !.copy = Attempted(s.mine.copy)]
      OBVIOUS
    <3>3. s.mine.copy = OwnCopy
      BY <3>1
    <3> HIDE DEF s, m
    <3>4. m = [[doc |-> OwnId, copy |-> OwnCopy, bound |-> TRUE] EXCEPT
                  !.copy = Attempted(OwnCopy)]
      BY <3>1, <3>2, <3>3, Zenon
    <3> QED
      BY <3>4
  <2>2. /\ ~s.raised /\ s.mine.copy = OwnCopy
        /\ s.disk = [KeptDisk EXCEPT ![OwnId] = OwnCopy]
        /\ s.marked = (OwnCopy.state = "conflict")
        /\ s.issued = IF OwnId = mine.doc THEN issued ELSE OwnId
        /\ Persistable(OwnId, OwnCopy)
    BY <1>2 DEF Written
  <2>3. /\ fresh' = (s.mine.copy.state = "pending")
        /\ mine' = m
        /\ issued' = s.issued
        /\ owed' = owed \cup buffer
        /\ IF fault = "mark"
           THEN disk' = s.disk /\ marked' = s.marked /\ UNCHANGED <<commit, judgeDue>>
           ELSE /\ disk' = [s.disk EXCEPT ![m.doc] = m.copy]
                /\ marked' = FALSE
                /\ commit' = m.doc
                /\ judgeDue' = TRUE
    BY <2>2 DEF MarkUncertain
  <2> HIDE DEF s, m
  <2>4. m.doc = OwnId /\ m.copy = Attempted(OwnCopy)
    BY <2>1
  <2>5. [s.disk EXCEPT ![OwnId] = Attempted(OwnCopy)]
            = [KeptDisk EXCEPT ![OwnId] = Attempted(OwnCopy)]
    BY <2>2
  <2> QED
    BY <2>1, <2>2, <2>3, <2>4, <2>5 DEF Marked
<1> QED
  BY <1>1, <1>2, SnapshotOfEdits

-----------------------------------------------------------------------------
(* Types. *)

LEMMA BufferFits ==
    ASSUME TypeOK, Committing
    PROVE  BufferOps \subseteq Fitting
<1> SUFFICES ASSUME NEW e \in buffer
             PROVE  <<e, IF e \in Creates THEN content[e] ELSE 1>> \in Fitting
  BY DEF BufferOps
<1>1. e \in Edits /\ e \in used
  BY DEF TypeOK, Committing
<1>2. (IF e \in Creates THEN content[e] ELSE 1) \in Payloads
  BY BoundsAssumption DEF TypeOK, Payloads
<1> QED
  BY <1>1, <1>2 DEF Fitting, Operations

LEMMA OwnIdIsDoc ==
    ASSUME JournalInv, buffer # {}
    PROVE  /\ OwnId \in Docs
           /\ OwnId # mine.doc => OwnId = issued + 1 /\ issued + 1 \in 0..MaxDocs
<1>1. mine.doc \in Docs \cup {NoDoc} /\ issued \in 0..MaxDocs /\ MaxDocs \in Nat
  BY JournalAssumption DEF JournalInv, JournalTypeOK
<1>2. CASE Adopted
  BY <1>1, <1>2 DEF OwnId, Adopted
<1>3. CASE ~Adopted
  <2>1. mine.doc = NoDoc \/ ~mine.bound
    BY <1>3 DEF Adopted, Orphaned
  <2>2. issued < MaxDocs
    BY <2>1 DEF JournalInv, RoomForCopy
  <2> QED
    BY <1>1, <1>3, <2>2 DEF OwnId, Docs
<1> QED
  BY <1>2, <1>3

LEMMA CopyFields ==
    ASSUME NEW copy \in Copies
    PROVE  /\ copy.state \in States \cup {"absent"} /\ copy.noted \in BOOLEAN
           /\ copy.email \in Accounts \cup {Nobody} /\ copy.ops \subseteq Operations
BY DEF Copies

\* The copies a snapshot or a mark writes, field by field.
LEMMA OwnCopyIs ==
    ASSUME JournalInv
    PROVE  /\ OwnCopy \in Copies /\ OwnCopy.ops = BufferOps
           /\ Attempted(OwnCopy) \in Copies /\ Attempted(OwnCopy).ops = BufferOps
           /\ Attempted(OwnCopy).state = "uncertain"
           /\ Attempted(OwnCopy).email = OwnCopy.email
           /\ Adopted => OwnCopy.state = mine.copy.state /\ OwnCopy.email = mine.copy.email
           /\ ~Adopted => OwnCopy.state = IF Orphaned \/ marked THEN "conflict" ELSE "pending"
<1>1. mine.copy \in Copies /\ owner \in Accounts
  BY DEF JournalInv, JournalTypeOK
<1>2. BufferOps \in SUBSET Operations
  BY BufferFits DEF JournalInv, BufferInv, Fitting
<1>3. /\ OwnCopy \in Copies /\ OwnCopy.ops = BufferOps
      /\ Adopted => OwnCopy.state = mine.copy.state /\ OwnCopy.email = mine.copy.email
      /\ ~Adopted => OwnCopy.state = IF Orphaned \/ marked THEN "conflict" ELSE "pending"
  <2>1. CASE Adopted
    <3> DEFINE n == mine.copy.noted /\ (\/ mine.copy.state # "pending"
                                        \/ mine.copy.ops = BufferOps)
    <3>1. n \in BOOLEAN
      OBVIOUS
    <3>2. OwnCopy = [mine.copy EXCEPT !.ops = BufferOps, !.noted = n]
      BY <2>1 DEF OwnCopy
    <3> HIDE DEF n
    <3> QED
      BY <1>1, <1>2, <2>1, <3>1, <3>2 DEF Copies
  <2>2. CASE ~Adopted
    BY <1>1, <1>2, <2>2 DEF OwnCopy, Copies, States
  <2> QED
    BY <2>1, <2>2
<1> HIDE DEF OwnCopy
<1>4. /\ Attempted(OwnCopy) \in Copies /\ Attempted(OwnCopy).ops = BufferOps
      /\ Attempted(OwnCopy).state = "uncertain"
      /\ Attempted(OwnCopy).email = OwnCopy.email
  BY <1>3 DEF Attempted, Copies, States
<1> QED
  BY <1>3, <1>4

LEMMA SetAsideIs ==
    ASSUME JournalInv
    PROVE  SetAside \in Copies /\ SetAside.ops = mine.copy.ops /\ SetAside.state = "conflict"
<1>1. mine.copy \in Copies
  BY DEF JournalInv, JournalTypeOK
<1> QED
  BY <1>1 DEF SetAside, Copies, States

LEMMA KeptDiskIs ==
    ASSUME JournalInv
    PROVE  /\ KeptDisk \in [Docs -> Copies]
           /\ \A d \in Docs : \/ KeptDisk[d] = disk[d]
                              \/ d = mine.doc /\ Orphaned /\ KeptDisk[d] = SetAside
           /\ ~Orphaned => KeptDisk = disk
           /\ \A d \in Docs : KeptDisk[d].ops \subseteq Fitting
<1>1. disk \in [Docs -> Copies]
  BY DEF JournalInv, JournalTypeOK
<1>2. /\ \A d \in Docs : disk[d].ops \subseteq Fitting
      /\ SetAside \in Copies /\ SetAside.ops \subseteq Fitting
  BY SetAsideIs DEF JournalInv, CopiesFit
<1>3. /\ KeptDisk \in [Docs -> Copies]
      /\ \A d \in Docs : \/ KeptDisk[d] = disk[d]
                         \/ d = mine.doc /\ Orphaned /\ KeptDisk[d] = SetAside
      /\ ~Orphaned => KeptDisk = disk
  BY <1>1, <1>2 DEF KeptDisk
<1> QED
  BY <1>2, <1>3

\* What every write of the layer's copy leaves typed.
WriteIsTyped ==
    /\ disk' \in [Docs -> Copies]
    /\ mine' \in [doc : Docs \cup {NoDoc}, copy : Copies, bound : BOOLEAN]
    /\ marked' \in BOOLEAN
    /\ issued' \in 0..MaxDocs
    /\ \A d \in Docs : disk'[d].ops \subseteq Fitting
    /\ mine'.copy.ops \subseteq Fitting
    /\ buffer # {} /\ (mine'.doc = NoDoc \/ ~mine'.bound) => issued' < MaxDocs

LEMMA AbsentIsTyped ==
    /\ Absent \in Copies /\ Absent.ops = {} /\ Absent.state = "absent" /\ Absent.ops \subseteq Fitting
    /\ Forgotten \in [doc : Docs \cup {NoDoc}, copy : Copies, bound : BOOLEAN]
    /\ Forgotten.doc = NoDoc /\ Forgotten.copy = Absent /\ Forgotten.bound = FALSE
BY DEF Absent, Copies, Forgotten, States

LEMMA WithoutIs ==
    ASSUME disk \in [Docs -> Copies], NEW d
    PROVE  /\ Without(d) \in [Docs -> Copies]
           /\ \A x \in Docs : Without(d)[x] = IF x = d THEN Absent ELSE disk[x]
<1> HIDE DEF Absent, Copies
<1> QED
  BY AbsentIsTyped DEF Without

LEMMA RefusedIsTyped ==
    ASSUME JournalInv, buffer # {}, NEW fault, Refused(Snapshot(fault), fault),
           Journal(Snapshot(fault))
    PROVE  WriteIsTyped
<1>0. /\ disk \in [Docs -> Copies] /\ marked \in BOOLEAN /\ issued \in 0..MaxDocs
      /\ mine \in [doc : Docs \cup {NoDoc}, copy : Copies, bound : BOOLEAN]
      /\ CopiesFit /\ RoomForCopy
  BY DEF JournalInv, JournalTypeOK
<1>1. marked' = marked /\ issued' = issued
  BY DEF Refused, Journal
<1>2. disk' \in {disk, KeptDisk} /\ mine' \in {mine, [mine EXCEPT !.bound = (mine.doc # NoDoc)]}
  BY DEF Refused, Journal
<1>3. disk' \in [Docs -> Copies] /\ \A d \in Docs : disk'[d].ops \subseteq Fitting
  BY <1>0, <1>2, KeptDiskIs DEF CopiesFit
<1>4. /\ mine' \in [doc : Docs \cup {NoDoc}, copy : Copies, bound : BOOLEAN]
      /\ mine'.copy = mine.copy /\ mine'.doc = mine.doc
      /\ mine'.bound \in {mine.bound, mine.doc # NoDoc}
  BY <1>0, <1>2
<1>5. buffer # {} /\ (mine'.doc = NoDoc \/ ~mine'.bound) => issued' < MaxDocs
  BY <1>0, <1>1, <1>4 DEF RoomForCopy
<1> QED
  BY <1>0, <1>1, <1>3, <1>4, <1>5 DEF WriteIsTyped, CopiesFit

\* The copy on disk and the one in memory may differ in their state.
LEMMA WrittenIsTyped ==
    ASSUME JournalInv, buffer # {}, NEW c1 \in {OwnCopy, Attempted(OwnCopy)},
           NEW c2 \in {OwnCopy, Attempted(OwnCopy)},
           disk' = [KeptDisk EXCEPT ![OwnId] = c1],
           mine' = [doc |-> OwnId, copy |-> c2, bound |-> TRUE],
           marked' \in BOOLEAN,
           issued' = IF OwnId = mine.doc THEN issued ELSE OwnId
    PROVE  WriteIsTyped
<1>1. /\ c1 \in Copies /\ c2 \in Copies
      /\ c1.ops \subseteq Fitting /\ c2.ops \subseteq Fitting
  BY OwnCopyIs, BufferFits DEF JournalInv, BufferInv
<1>2. OwnId \in Docs /\ issued' \in 0..MaxDocs
  BY OwnIdIsDoc DEF JournalInv, JournalTypeOK
<1>3. KeptDisk \in [Docs -> Copies] /\ \A d \in Docs : KeptDisk[d].ops \subseteq Fitting
  BY KeptDiskIs
<1>4. disk' \in [Docs -> Copies] /\ \A d \in Docs : disk'[d].ops \subseteq Fitting
  BY <1>1, <1>2, <1>3
<1>5. OwnId # NoDoc
  BY <1>2 DEF Docs, NoDoc
<1> QED
  BY <1>1, <1>2, <1>4, <1>5 DEF WriteIsTyped

LEMMA FlushIsTyped ==
    ASSUME JournalInv, NEW fault, Journal(Snapshot(fault))
    PROVE  WriteIsTyped
<1>0. /\ disk \in [Docs -> Copies] /\ marked \in BOOLEAN /\ issued \in 0..MaxDocs
      /\ mine \in [doc : Docs \cup {NoDoc}, copy : Copies, bound : BOOLEAN]
      /\ editing \in BOOLEAN /\ CopiesFit /\ RoomForCopy
  BY DEF JournalInv, JournalTypeOK
<1>1. CASE editing /\ buffer # {}
  <2>1. CASE Refused(Snapshot(fault), fault)
    BY <1>1, <2>1, RefusedIsTyped
  <2>2. CASE Written(Snapshot(fault))
    <3>1. /\ disk' = [KeptDisk EXCEPT ![OwnId] = OwnCopy]
          /\ mine' = [doc |-> OwnId, copy |-> OwnCopy, bound |-> TRUE]
          /\ marked' \in BOOLEAN
          /\ issued' = IF OwnId = mine.doc THEN issued ELSE OwnId
      BY <2>2 DEF Written, Journal
    <3> QED
      BY <1>1, <3>1, WrittenIsTyped
  <2> QED
    BY <1>1, <2>1, <2>2, SnapshotOfEdits
<1>2. CASE ~editing \/ buffer = {}
  <2>1. buffer = {}
    BY <1>2 DEF JournalInv, BufferInv, EditsAreOpen
  <2>2. CASE Passed(Snapshot(fault))
    BY <1>0, <2>1, <2>2 DEF Passed, Journal, WriteIsTyped, CopiesFit
  <2>3. CASE Emptied(Snapshot(fault))
    <3>1. disk' = Without(mine.doc) /\ mine' = Forgotten /\ marked' = FALSE /\ issued' = issued
      BY <2>3 DEF Emptied, Journal
    <3>2. disk' \in [Docs -> Copies] /\ \A d \in Docs : disk'[d] \in {disk[d], Absent}
      BY <1>0, <3>1, WithoutIs
    <3>3. \A d \in Docs : disk'[d].ops \subseteq Fitting
      BY <1>0, <3>2, AbsentIsTyped DEF CopiesFit
    <3> QED
      BY <1>0, <2>1, <3>1, <3>2, <3>3, AbsentIsTyped DEF WriteIsTyped
  <2> QED
    BY <1>0, <1>2, <2>2, <2>3, SnapshotOfNone
<1> QED
  BY <1>1, <1>2

LEMMA MarkIsTyped ==
    ASSUME JournalInv, buffer # {}, NEW fault, MarkUncertain(fault)
    PROVE  /\ WriteIsTyped
           /\ commit' \in Docs \cup {NoDoc} /\ fresh' \in BOOLEAN /\ judgeDue' \in BOOLEAN
           /\ owed' \subseteq Edits
<1>0. /\ commit \in Docs \cup {NoDoc} /\ fresh \in BOOLEAN /\ judgeDue \in BOOLEAN
      /\ owed \subseteq Edits /\ buffer \subseteq Edits /\ editing
  BY DEF JournalInv, JournalTypeOK, BufferInv, TypeOK, EditsAreOpen
<1>1. CASE MarkFails(fault)
  <2>1. WriteIsTyped
    BY <1>1, RefusedIsTyped DEF MarkFails
  <2> QED
    BY <1>0, <1>1, <2>1 DEF MarkFails
<1>2. CASE Marked(fault)
  <2>1. PICK c \in {OwnCopy, Attempted(OwnCopy)} : disk' = [KeptDisk EXCEPT ![OwnId] = c]
    BY <1>2 DEF Marked
  <2>2. /\ mine' = [doc |-> OwnId, copy |-> Attempted(OwnCopy), bound |-> TRUE]
        /\ marked' \in BOOLEAN
        /\ issued' = IF OwnId = mine.doc THEN issued ELSE OwnId
    BY <1>2 DEF Marked
  <2>3. WriteIsTyped
    BY <2>1, <2>2, WrittenIsTyped
  <2>4. OwnId \in Docs
    BY OwnIdIsDoc
  <2> QED
    BY <1>0, <1>2, <2>3, <2>4 DEF Marked
<1> QED
  BY <1>0, <1>1, <1>2, MarkOfEdits

-----------------------------------------------------------------------------
(* The native buffer under the journal's steps. *)

\* Every step is one of the provider's, the user's or the server's, or leaves them
\* alone, but for these.
Reloads == Crash \/ ReopenProject
Restores == UploadRestores \/ \E d \in Docs : RestoreForReview(d)

LEMMA ProviderOrElse ==
    ASSUME Next
    PROVE  [ProviderNext]_providerVars \/ EmptySave \/ UploadGivesUp \/ Restores \/ Reloads
<1> USE DEF ProviderNext, providerVars
<1>1. CASE PersonStep
  <2>1. Edit \/ UndoEdit \/ Discard \/ Save => UserStep
    BY DEF Edit, UndoEdit, Discard, Save, UserStep
  <2>2. BeginCheck \/ SwitchAccount \/ (\E d \in Docs : DeleteCopy(d)) => UNCHANGED providerVars
    BY DEF BeginCheck, SwitchAccount, DeleteCopy
  <2> QED
    BY <1>1, <2>1, <2>2 DEF PersonStep, Restores, Reloads
<1>2. CASE TimerStep
  BY <1>2 DEF TimerStep, Flush, AfterCommitReturns
<1>3. CASE SaveStep
  BY <1>3 DEF SaveStep, SaveSucceeds, SaveGroupSucceeds, SaveStops, SaveAdvances, ProviderStep
<1>4. CASE UploadStep
  <2>1. UploadStarts => UserStep
    BY DEF UploadStarts, UserStep
  <2>2. \/ ReadVersions \/ CheckFails \/ CheckIsStale \/ CheckFindsConflict \/ Claim \/ UploadReturns
        => UNCHANGED providerVars
    BY DEF ReadVersions, CheckFails, CheckIsStale, CheckFindsConflict, Claim, UploadReturns
  <2> QED
    BY <1>4, <2>1, <2>2 DEF UploadStep, Restores
<1>5. CASE WorldStep
  BY <1>5 DEF WorldStep, ForeignEdit, OtherSessionDeletes, Reloads
<1> QED
  BY <1>1, <1>2, <1>3, <1>4, <1>5 DEF Next

LEMMA RestoredBuffer ==
    ASSUME BufferInv, stage = "idle", NEW copy, copy.ops \subseteq Fitting, Restore(copy)
    PROVE  BufferInv'
<1>1. EditsOf(copy.ops) \subseteq Edits \cap used
  BY DEF EditsOf, Fitting, Operations
<1>2. content' \in [Creates -> Payloads]
  <2> SUFFICES ASSUME NEW c \in Creates
               PROVE  (IF \E p \in Payloads : <<c, p>> \in copy.ops
                       THEN CHOOSE p \in Payloads : <<c, p>> \in copy.ops
                       ELSE content[c]) \in Payloads
    BY DEF Restore
  <2> QED
    BY DEF BufferInv, TypeOK
<1>3. created' \in [Creates -> 0..MaxPayload]
  BY BoundsAssumption DEF Restore, BufferInv, TypeOK
<1>4. TypeOK'
  BY <1>1, <1>2, <1>3 DEF Restore, BufferInv, TypeOK
<1>5. Committing' /\ GroupsGone' /\ EditsAreOpen'
  BY <1>1 DEF Restore, BufferInv, Committing, GroupsGone, EditsAreOpen
<1> QED
  BY <1>4, <1>5 DEF BufferInv

LEMMA ReloadedBuffer ==
    ASSUME BufferInv, LayerLoads(disk)
    PROVE  BufferInv'
<1>1. created' \in [Creates -> 0..MaxPayload] /\ stage' \in Stages /\ uncertain' \in BOOLEAN
  BY NothingRemembered DEF LayerLoads, Stages, BufferInv, TypeOK
<1>2. TypeOK'
  BY <1>1 DEF LayerLoads, BufferInv, TypeOK
<1>3. Committing' /\ GroupsGone' /\ EditsAreOpen'
  BY DEF LayerLoads, BufferInv, Committing, GroupsGone, EditsAreOpen
<1> QED
  BY <1>2, <1>3 DEF BufferInv

\* The native commit takes its groups out of the buffer in their order.
LEMMA GroupsStep ==
    ASSUME TypeOK, Committing, GroupsGone, [ProviderNext]_providerVars
    PROVE  GroupsGone'
<1>1. CASE UserStep
  BY <1>1 DEF GroupsGone, UserStep, Draw, Undo, Retouch, Revert, RollBack, StartNativeSave
<1>2. CASE FinishGroup
  BY <1>2, EditsAssumption
  DEF GroupsGone, FinishGroup, GroupHandled, NextStage, GroupOf, TypeOK, Stages, Edits
<1>3. CASE ProviderStep /\ ~FinishGroup
  BY <1>3 DEF GroupsGone, ProviderStep, FinishSave, SkipHandled, Send, RefuseUncertainCreates,
              ReceiveOk, ReceiveRefusal, ReceiveNothing, StopSave
<1>4. CASE ServerStep
  BY <1>4 DEF GroupsGone, ServerStep, ServerApplies, ServerRefuses, RequestLost
<1>5. CASE UNCHANGED providerVars
  BY <1>5 DEF GroupsGone, providerVars
<1> QED
  BY <1>1, <1>2, <1>3, <1>4, <1>5 DEF ProviderNext, ProviderStep

\* Only the person's edits and a restored copy fill the buffer, and only a commit, or
\* discarding the edits, ends editing.
LEMMA OpenStep ==
    ASSUME BufferInv, Next
    PROVE  EditsAreOpen'
<1> USE DEF EditsAreOpen
<1>0. EditsAreOpen /\ GroupsGone
  BY DEF BufferInv
<1>1. CASE Edit \/ UndoEdit \/ Discard \/ Save \/ EmptySave
  BY <1>0, <1>1 DEF Edit, UndoEdit, Undo, Discard, RollBack, Save, StartNativeSave, EmptySave
<1>2. CASE BeginCheck \/ SwitchAccount \/ \E d \in Docs : DeleteCopy(d)
  BY <1>0, <1>2 DEF BeginCheck, SwitchAccount, DeleteCopy, providerVars
<1>3. CASE TimerStep
  BY <1>0, <1>3 DEF TimerStep, Flush, AfterCommitReturns, providerVars
<1>4. CASE SaveStep
  <2>1. CASE SaveSucceeds
    BY <1>0, <2>1 DEF SaveSucceeds, FinishSave, GroupsGone
  <2>2. CASE SaveGroupSucceeds \/ SaveStops \/ SaveAdvances
    BY <1>0, <2>2
    DEF SaveGroupSucceeds, FinishGroup, SaveStops, ReceiveRefusal, ReceiveNothing,
        RefuseUncertainCreates, StopSave, SaveAdvances, SkipHandled, Send, ReceiveOk, journalVars
  <2> QED
    BY <1>4, <2>1, <2>2 DEF SaveStep
<1>5. CASE UploadStep /\ ~UploadRestores
  BY <1>0, <1>5
  DEF UploadStep, ReadVersions, CheckFails, CheckIsStale, CheckFindsConflict, Claim,
      UploadStarts, StartNativeSave, UploadGivesUp, UploadReturns, providerVars
<1>6. CASE Restores
  BY <1>6 DEF Restores, UploadRestores, RestoreForReview, Restore
<1>7. CASE Reloads
  BY <1>7 DEF Reloads, Crash, ReopenProject, LayerLoads
<1>8. CASE WorldStep /\ ~Crash
  BY <1>0, <1>8 DEF WorldStep, ServerStep, ServerApplies, ServerRefuses, RequestLost,
                    ForeignEdit, OtherSessionDeletes, journalVars, providerVars
<1> QED
  BY <1>1, <1>2, <1>3, <1>4, <1>5, <1>6, <1>7, <1>8
  DEF Next, PersonStep, UploadStep, WorldStep, Restores, Reloads

LEMMA BufferStep ==
    ASSUME BufferInv, JournalTypeOK, Callers, CopiesFit, Next
    PROVE  BufferInv'
<1>0. TypeOK /\ Committing /\ GroupsGone
  BY DEF BufferInv
<1>1. CASE [ProviderNext]_providerVars
  BY <1>0, <1>1, TypeStep, CommittingStep, GroupsStep, OpenStep DEF BufferInv
<1>2. CASE EmptySave
  <2>1. TypeOK'
    BY <1>0, <1>2, NothingRemembered DEF EmptySave, TypeOK
  <2>2. Committing' /\ GroupsGone'
    BY <1>0, <1>2 DEF EmptySave, Committing, GroupsGone
  <2> QED
    BY <2>1, <2>2, OpenStep DEF BufferInv
<1>3. CASE UploadGivesUp
  <2>1. TypeOK'
    BY <1>0, <1>3 DEF UploadGivesUp, TypeOK
  <2>2. Committing' /\ GroupsGone'
    BY <1>0, <1>3 DEF UploadGivesUp, Committing, GroupsGone
  <2> QED
    BY <2>1, <2>2, OpenStep DEF BufferInv
<1>4. CASE UploadRestores
  BY <1>4, RestoredBuffer DEF UploadRestores, Claimed, Callers, CopiesFit
<1>5. ASSUME NEW d \in Docs, RestoreForReview(d) PROVE BufferInv'
  BY <1>5, RestoredBuffer DEF RestoreForReview, CopiesFit
<1>6. CASE Reloads
  BY <1>6, ReloadedBuffer DEF Reloads, Crash, ReopenProject
<1> QED
  BY <1>1, <1>2, <1>3, <1>4, <1>5, <1>6, ProviderOrElse DEF Restores

\* Between Saves nobody waits for a commit, so nothing of the person's runs beside
\* an upload.
LEMMA QuietIsUnclaimed ==
    ASSUME JournalInv, Quiet, stage = "idle"
    PROVE  sync.phase # "claimed" /\ caller = "nobody"
BY DEF JournalInv, JournalTypeOK, Callers, Quiet, CallbackRunning

LEMMA CallersStep ==
    ASSUME JournalInv, Next
    PROVE  Callers'
<1> USE DEF Callers
<1>0. /\ Callers /\ caller \in {"nobody", "person", "connect"}
      /\ sync \in [phase : {"idle", "reading", "answered", "claimed"},
                   doc : Docs \cup {NoDoc}, copy : Copies, account : Accounts \cup {Nobody},
                   touched : BOOLEAN, problem : BOOLEAN]
  BY DEF JournalInv, JournalTypeOK
<1>1. CASE Edit \/ UndoEdit
  <2>1. sync'.phase = sync.phase
    BY <1>0, <1>1 DEF Edit, UndoEdit, Touch
  <2> QED
    BY <1>0, <1>1, <2>1 DEF Edit, UndoEdit, Draw, Retouch, Revert, Undo
<1>2. CASE Discard \/ EmptySave \/ SwitchAccount \/ \E d \in Docs : DeleteCopy(d)
  BY <1>0, <1>2 DEF Discard, RollBack, EmptySave, SwitchAccount, DeleteCopy, providerVars
<1>3. CASE Save
  BY <1>0, <1>3, QuietIsUnclaimed DEF Save, StartNativeSave
<1>4. CASE BeginCheck
  BY <1>0, <1>4 DEF BeginCheck, providerVars
<1>5. CASE TimerStep
  BY <1>0, <1>5 DEF TimerStep, Flush, AfterCommitReturns, providerVars
<1>6. CASE SaveSucceeds \/ SaveStops
  BY <1>0, <1>6 DEF SaveSucceeds, FinishSave, SaveStops, ReceiveRefusal, ReceiveNothing,
                    RefuseUncertainCreates, StopSave
<1>7. CASE SaveGroupSucceeds
  BY <1>0, <1>7 DEF SaveGroupSucceeds, FinishGroup, GroupHandled, NextStage, JournalInv,
                    BufferInv, TypeOK, Stages
<1>8. CASE SaveAdvances
  BY <1>0, <1>8 DEF SaveAdvances, SkipHandled, Send, ReceiveOk, journalVars
<1>9. CASE ReadVersions
  <2>1. sync'.phase = "answered"
    BY <1>0, <1>9 DEF ReadVersions
  <2> QED
    BY <1>0, <1>9, <2>1 DEF ReadVersions, providerVars
<1>10. CASE CheckFails \/ CheckIsStale \/ CheckFindsConflict
  BY <1>0, <1>10
  DEF CheckFails, CheckIsStale, CheckFindsConflict, NoSync, providerVars
<1>11. CASE Claim
  <2>1. sync'.phase = "claimed"
    BY <1>0, <1>11 DEF Claim
  <2> QED
    BY <1>0, <1>11, <2>1 DEF Claim, providerVars
<1>12. CASE UploadRestores \/ UploadStarts
  BY <1>0, <1>12 DEF UploadRestores, Restore, UploadStarts, StartNativeSave, Claimed
<1>13. CASE UploadGivesUp \/ UploadReturns
  BY <1>0, <1>13 DEF UploadGivesUp, UploadReturns, Claimed, NoSync, providerVars
<1>14. CASE \E d \in Docs : RestoreForReview(d)
  BY <1>0, <1>14 DEF RestoreForReview, Restore
<1>15. CASE Reloads
  BY <1>0, <1>15 DEF Reloads, Crash, ReopenProject, LayerLoads, NoSync, Quiet, CallbackRunning
<1>16. CASE WorldStep /\ ~Crash
  BY <1>0, <1>16 DEF WorldStep, ServerStep, ServerApplies, ServerRefuses, RequestLost,
                     ForeignEdit, OtherSessionDeletes, journalVars, providerVars
<1> QED
  BY <1>1, <1>2, <1>3, <1>4, <1>5, <1>6, <1>7, <1>8, <1>9, <1>10, <1>11, <1>12, <1>13, <1>14,
     <1>15, <1>16
  DEF Next, PersonStep, SaveStep, UploadStep, WorldStep, Reloads

-----------------------------------------------------------------------------
(* The journal under every step. *)

\* The rest of JournalTypeOK, CopiesFit and RoomForCopy.
SyncIsTyped ==
    /\ sync \in [phase : {"idle", "reading", "answered", "claimed"},
                 doc : Docs \cup {NoDoc}, copy : Copies, account : Accounts \cup {Nobody},
                 touched : BOOLEAN, problem : BOOLEAN]
    /\ sync.copy.ops \subseteq Fitting

LayerIsTyped ==
    /\ commit \in Docs \cup {NoDoc}
    /\ fresh \in BOOLEAN /\ editing \in BOOLEAN /\ stray \in BOOLEAN
    /\ owner \in Accounts /\ account \in Accounts
    /\ locks \subseteq Docs
    /\ flushDue \in BOOLEAN /\ judgeDue \in BOOLEAN
    /\ caller \in {"nobody", "person", "connect"}
    /\ foreign \subseteq Changes \cup Deletes /\ gone \subseteq foreign
    /\ crashes \in 0..MaxCrashes
    /\ owed \subseteq Edits /\ reviewed \subseteq Edits

CopiesAreTyped ==
    /\ disk \in [Docs -> Copies]
    /\ mine \in [doc : Docs \cup {NoDoc}, copy : Copies, bound : BOOLEAN]
    /\ marked \in BOOLEAN
    /\ issued \in 0..MaxDocs
    /\ \A d \in Docs : disk[d].ops \subseteq Fitting
    /\ mine.copy.ops \subseteq Fitting

LEMMA JournalTypesAre ==
    JournalTypeOK /\ CopiesFit <=> SyncIsTyped /\ LayerIsTyped /\ CopiesAreTyped
BY DEF JournalTypeOK, CopiesFit, SyncIsTyped, LayerIsTyped, CopiesAreTyped

\* What was made stays made, so what fits goes on fitting.
LEMMA FittingGrows ==
    ASSUME Next, TypeOK
    PROVE  Fitting \subseteq Fitting' /\ Operations' = Operations
<1>1. used \subseteq used'
  <2>1. CASE [ProviderNext]_providerVars
    BY <2>1
    DEF ProviderNext, providerVars, UserStep, Draw, Undo, Retouch, Revert, RollBack, StartNativeSave,
        ProviderStep, FinishGroup, FinishSave, SkipHandled, Send, RefuseUncertainCreates,
        ReceiveOk, ReceiveRefusal, ReceiveNothing, StopSave,
        ServerStep, ServerApplies, ServerRefuses, RequestLost
  <2>2. CASE EmptySave \/ UploadGivesUp \/ Restores \/ Reloads
    BY <2>2 DEF EmptySave, UploadGivesUp, Restores, UploadRestores, RestoreForReview, Restore,
                Reloads, Crash, ReopenProject, LayerLoads
  <2> QED
    BY <2>1, <2>2, ProviderOrElse
<1> QED
  BY <1>1 DEF Fitting, Operations

LEMMA NoSyncIsTyped ==
    /\ NoSync \in [phase : {"idle", "reading", "answered", "claimed"},
                   doc : Docs \cup {NoDoc}, copy : Copies, account : Accounts \cup {Nobody},
                   touched : BOOLEAN, problem : BOOLEAN]
    /\ NoSync.copy.ops = {}
    /\ NoSync.phase = "idle" /\ NoSync.doc = NoDoc
<1> HIDE DEF Absent, Copies
<1> QED
  BY AbsentIsTyped DEF NoSync

LEMMA SyncStep ==
    ASSUME JournalInv, Next
    PROVE  SyncIsTyped' /\ CheckHasCopy'
<1> USE DEF CheckHasCopy
<1>0. /\ SyncIsTyped /\ CopiesAreTyped /\ CheckHasCopy /\ account \in Accounts
      /\ Fitting \subseteq Fitting'
  BY JournalTypesAre, FittingGrows DEF JournalInv, BufferInv, LayerIsTyped
<1>1. CASE UNCHANGED sync
  BY <1>0, <1>1 DEF SyncIsTyped
<1>2. CASE sync' = NoSync
  BY <1>2, NoSyncIsTyped DEF SyncIsTyped
<1>3. CASE Touch
  BY <1>0, <1>3 DEF Touch, SyncIsTyped
<1>4. CASE BeginCheck
  <2>1. /\ sync' = [phase |-> "reading", doc |-> mine.doc, copy |-> mine.copy,
                    account |-> account, touched |-> FALSE, problem |-> FALSE]
        /\ mine.doc \in Docs /\ mine.copy \in Copies /\ mine.copy.ops \subseteq Fitting'
    BY <1>0, <1>4 DEF BeginCheck, CanUpload, CopiesAreTyped
  <2> HIDE DEF Copies, Docs, NoDoc
  <2>2. sync' \in [phase : {"idle", "reading", "answered", "claimed"},
                   doc : Docs \cup {NoDoc}, copy : Copies, account : Accounts \cup {Nobody},
                   touched : BOOLEAN, problem : BOOLEAN]
    BY <1>0, <2>1
  <2> QED
    BY <2>1, <2>2 DEF SyncIsTyped
<1>5. CASE ReadVersions
  <2> DEFINE p == EditsOf(sync.copy.ops) \cap foreign # {}
  <2>1. sync' = [sync EXCEPT !.phase = "answered", !.problem = p] /\ p \in BOOLEAN
        /\ sync.phase = "reading"
    BY <1>5 DEF ReadVersions
  <2> HIDE DEF p
  <2> QED
    BY <1>0, <2>1 DEF SyncIsTyped
<1>6. CASE Claim
  BY <1>0, <1>6 DEF Claim, SyncIsTyped
<1>7. Edit \/ UndoEdit => Touch
  BY DEF Edit, UndoEdit
<1>8. CASE PersonStep
  BY <1>1, <1>2, <1>3, <1>4, <1>7, <1>8
  DEF PersonStep, Discard, Save, EmptySave, RestoreForReview, DeleteCopy, SwitchAccount,
      ReopenProject
<1>9. CASE TimerStep \/ SaveStep
  BY <1>1, <1>9 DEF TimerStep, Flush, AfterCommitReturns, SaveStep, SaveSucceeds,
                    SaveGroupSucceeds, SaveStops, SaveAdvances, journalVars
<1>10. CASE UploadStep
  BY <1>1, <1>2, <1>5, <1>6, <1>10
  DEF UploadStep, CheckFails, CheckIsStale, CheckFindsConflict, UploadRestores, UploadStarts,
      UploadGivesUp, UploadReturns
<1>11. CASE WorldStep
  BY <1>1, <1>2, <1>11 DEF WorldStep, ForeignEdit, OtherSessionDeletes, Crash, journalVars
<1> QED
  BY <1>8, <1>9, <1>10, <1>11 DEF Next

LEMMA LayerStep ==
    ASSUME JournalInv, Next
    PROVE  LayerIsTyped'
<1> USE DEF LayerIsTyped
<1>0. /\ LayerIsTyped /\ CopiesAreTyped /\ CheckHasCopy
      /\ sync.doc \in Docs \cup {NoDoc} /\ buffer \subseteq Edits
      /\ MaxCrashes \in Nat
  BY JournalTypesAre, JournalAssumption
  DEF JournalInv, JournalTypeOK, BufferInv, TypeOK
<1>1. CASE Edit \/ UndoEdit \/ Discard
  BY <1>0, <1>1 DEF Edit, UndoEdit, Discard, Touch
<1>2. CASE Save \/ UploadStarts \/ UploadGivesUp
  <2>1. CASE UNCHANGED <<commit, fresh, judgeDue, owed>>
    BY <1>0, <1>2, <2>1 DEF Save, UploadStarts, UploadGivesUp, ReleaseClaim
  <2>2. CASE \E fault \in Faults \cup {"none"} : MarkUncertain(fault) /\ buffer # {}
    BY <1>0, <1>2, <2>2, MarkIsTyped DEF Save, UploadStarts, UploadGivesUp, ReleaseClaim
  <2> QED
    BY <1>2, <2>1, <2>2 DEF Save, UploadStarts, UploadGivesUp, StartNativeSave
<1>3. CASE SaveSucceeds \/ EmptySave
  BY <1>0, <1>3 DEF SaveSucceeds, EmptySave, Committed
<1>4. CASE SaveGroupSucceeds \/ SaveStops \/ SaveAdvances
  BY <1>0, <1>4 DEF SaveGroupSucceeds, SaveStops, SaveAdvances, journalVars
<1>5. CASE AfterCommitReturns \/ UploadReturns
  BY <1>0, <1>5 DEF AfterCommitReturns, UploadReturns, Judge, ReleaseClaim
<1>6. CASE Flush
  BY <1>0, <1>6 DEF Flush
<1>7. CASE BeginCheck \/ ReadVersions \/ CheckFails \/ CheckIsStale \/ CheckFindsConflict
  BY <1>0, <1>7 DEF BeginCheck, ReadVersions, CheckFails, CheckIsStale, CheckFindsConflict
<1>8. CASE Claim
  BY <1>0, <1>8 DEF Claim, CheckHasCopy
<1>9. CASE UploadRestores
  BY <1>0, <1>9 DEF UploadRestores, Restore
<1>10. ASSUME NEW d \in Docs, RestoreForReview(d) PROVE LayerIsTyped'
  <2>1. EditsOf(disk[d].ops) \subseteq Edits
    BY <1>0 DEF CopiesAreTyped, EditsOf, Fitting, Operations
  <2> QED
    BY <1>0, <1>10, <2>1 DEF RestoreForReview, Restore
<1>11. CASE \E d \in Docs : DeleteCopy(d) \/ OtherSessionDeletes(d)
  BY <1>0, <1>11 DEF DeleteCopy, OtherSessionDeletes
<1>12. CASE ForeignEdit \/ SwitchAccount
  BY <1>0, <1>12 DEF ForeignEdit, SwitchAccount
<1>13. CASE Crash
  <2>1. crashes' \in 0..MaxCrashes
    BY <1>0, <1>13 DEF Crash
  <2> QED
    BY <1>0, <1>13, <2>1 DEF Crash, LayerLoads
<1>14. CASE ReopenProject
  BY <1>0, <1>14 DEF ReopenProject, LayerLoads
<1>15. CASE ServerStep /\ UNCHANGED journalVars
  BY <1>0, <1>15 DEF journalVars
<1> QED
  BY <1>1, <1>2, <1>3, <1>4, <1>5, <1>6, <1>7, <1>8, <1>9, <1>10, <1>11, <1>12, <1>13, <1>14,
     <1>15
  DEF Next, PersonStep, TimerStep, SaveStep, UploadStep, WorldStep

\* Judging a Save may turn the layer's copy from uncertain to pending, in memory and on
\* disk; its edits stay.
LEMMA JudgeIs ==
    ASSUME CopiesAreTyped, Judge
    PROVE  \/ UNCHANGED <<mine, disk>>
           \/ /\ RefusedOutright /\ mine.doc \in Docs /\ mine.copy.state = "uncertain"
              /\ disk[mine.doc].state = "uncertain" /\ disk[mine.doc].ops = mine.copy.ops
              /\ mine' \in [doc : Docs \cup {NoDoc}, copy : Copies, bound : BOOLEAN]
              /\ mine'.doc = mine.doc /\ mine'.bound = mine.bound
              /\ mine'.copy.ops = mine.copy.ops /\ mine'.copy.state = "pending"
              /\ disk' = [disk EXCEPT ![mine.doc] = mine'.copy]
              /\ ~fresh'
<1> SUFFICES ASSUME ~UNCHANGED <<mine, disk>>
             PROVE  /\ RefusedOutright /\ mine.doc \in Docs /\ mine.copy.state = "uncertain"
                    /\ disk[mine.doc].state = "uncertain" /\ disk[mine.doc].ops = mine.copy.ops
                    /\ mine' \in [doc : Docs \cup {NoDoc}, copy : Copies, bound : BOOLEAN]
                    /\ mine'.doc = mine.doc /\ mine'.bound = mine.bound
                    /\ mine'.copy.ops = mine.copy.ops /\ mine'.copy.state = "pending"
                    /\ disk' = [disk EXCEPT ![mine.doc] = mine'.copy]
                    /\ ~fresh'
  OBVIOUS
<1> DEFINE released == [mine.copy EXCEPT !.state = "pending", !.noted = TRUE]
<1>1. /\ RefusedOutright /\ mine.doc # NoDoc /\ mine.copy.state = "uncertain"
      /\ disk[mine.doc].state = "uncertain" /\ disk[mine.doc].ops = mine.copy.ops
      /\ mine' = [mine EXCEPT !.copy = released]
      /\ disk' = [disk EXCEPT ![mine.doc] = released]
      /\ ~fresh'
  BY DEF Judge
<1>2. mine \in [doc : Docs \cup {NoDoc}, copy : Copies, bound : BOOLEAN]
  BY DEF CopiesAreTyped
<1>3. released \in Copies /\ released.ops = mine.copy.ops /\ released.state = "pending"
  BY <1>2 DEF Copies, States
<1> HIDE DEF released, Copies
<1>4. mine' \in [doc : Docs \cup {NoDoc}, copy : Copies, bound : BOOLEAN]
  BY <1>1, <1>2, <1>3
<1>5. mine'.doc = mine.doc /\ mine'.bound = mine.bound /\ mine'.copy = released
  BY <1>1, <1>2
<1> QED
  BY <1>1, <1>2, <1>3, <1>4, <1>5

\* The copies CheckFindsConflict writes: those of the check, held for a person.
LEMMA ConflictIs ==
    ASSUME JournalInv, CheckFindsConflict
    PROVE  \/ UNCHANGED <<mine, disk, marked>>
           \/ \E copy \in Copies :
                /\ copy.ops = sync.copy.ops /\ copy.state = "conflict"
                /\ Persistable(sync.doc, copy)
                /\ disk' = [disk EXCEPT ![sync.doc] = copy]
                /\ mine' \in [doc : Docs \cup {NoDoc}, copy : Copies, bound : BOOLEAN]
                /\ mine'.doc = mine.doc /\ mine'.bound = mine.bound /\ mine'.copy = copy
                /\ marked' = TRUE
<1> DEFINE copy == [sync.copy EXCEPT !.state = "conflict", !.noted = FALSE]
<1>1. /\ sync.copy \in Copies
      /\ mine \in [doc : Docs \cup {NoDoc}, copy : Copies, bound : BOOLEAN]
  BY DEF JournalInv, JournalTypeOK
<1>2. copy \in Copies /\ copy.ops = sync.copy.ops /\ copy.state = "conflict"
  BY <1>1 DEF Copies, States
<1>3. IF Persistable(sync.doc, copy)
      THEN /\ disk' = [disk EXCEPT ![sync.doc] = copy]
           /\ mine' = [mine EXCEPT !.copy = copy]
           /\ marked' = TRUE
      ELSE UNCHANGED <<disk, mine, marked>>
  BY DEF CheckFindsConflict
<1> HIDE DEF copy, Copies
<1> QED
  BY <1>1, <1>2, <1>3

LEMMA ReloadIs ==
    ASSUME JournalInv, LayerLoads(disk)
    PROVE  /\ marked' \in BOOLEAN
           /\ \/ mine' = Forgotten /\ \A d \in Docs : disk[d].state = "absent"
              \/ \E d \in Docs :
                    /\ disk[d].state # "absent"
                    /\ mine' = [doc |-> d, copy |-> disk[d], bound |-> FALSE]
BY DEF LayerLoads, JournalInv, JournalTypeOK

LEMMA CopiesStep ==
    ASSUME JournalInv, Next
    PROVE  CopiesAreTyped' /\ RoomForCopy'
<1> USE DEF CopiesAreTyped, RoomForCopy
<1>0. /\ CopiesAreTyped /\ RoomForCopy /\ Fitting \subseteq Fitting' /\ BufferInv
      /\ SyncIsTyped /\ CheckHasCopy /\ MaxDocs \in Nat
  BY JournalTypesAre, FittingGrows, JournalAssumption DEF JournalInv, BufferInv
<1> HIDE DEF Copies, Fitting, Docs
<1>1. CASE UNCHANGED <<disk, mine, marked, issued>> /\ buffer' \subseteq buffer
  BY <1>0, <1>1
<1>2. CASE WriteIsTyped /\ buffer' \subseteq buffer
  BY <1>0, <1>2 DEF WriteIsTyped
<1>3. CASE Edit
  BY <1>0, <1>3 DEF Edit, Room
<1>4. CASE UndoEdit
  BY <1>1, <1>4 DEF UndoEdit, Undo
<1>5. CASE Flush
  BY <1>2, <1>5, FlushIsTyped DEF Flush, providerVars
<1>6. CASE Save \/ UploadStarts
  BY <1>2, <1>6, MarkIsTyped DEF Save, UploadStarts, StartNativeSave
<1>7. CASE UploadGivesUp
  BY <1>1, <1>2, <1>7, MarkIsTyped DEF UploadGivesUp
<1>8. ASSUME mine' = Forgotten, marked' = FALSE, disk' = Without(mine.doc), buffer' = {},
             UNCHANGED issued
      PROVE  CopiesAreTyped' /\ RoomForCopy'
  <2>1. disk' \in [Docs -> Copies] /\ \A d \in Docs : disk'[d] \in {disk[d], Absent}
    BY <1>0, <1>8, WithoutIs
  <2>2. \A d \in Docs : disk'[d].ops \subseteq Fitting'
    BY <1>0, <2>1, AbsentIsTyped
  <2> QED
    BY <1>0, <1>8, <2>1, <2>2, AbsentIsTyped
<1>9. CASE Discard
  <2>1. CASE DiscardDeletes
    BY <1>8, <1>9, <2>1 DEF Discard, RollBack
  <2>2. CASE ~DiscardDeletes
    BY <1>0, <1>9, <2>2 DEF Discard, RollBack
  <2> QED
    BY <2>1, <2>2
<1>10. CASE SaveSucceeds \/ EmptySave
  <2>1. buffer' = {} /\ UNCHANGED issued /\ Committed
    BY <1>0, <1>10 DEF SaveSucceeds, EmptySave, FinishSave, BufferInv, GroupsGone
  <2>2. CASE commit # NoDoc /\ commit = mine.doc
    BY <1>8, <2>1, <2>2 DEF Committed
  <2>3. CASE ~(commit # NoDoc /\ commit = mine.doc)
    BY <1>1, <2>1, <2>3 DEF Committed
  <2> QED
    BY <2>2, <2>3
<1>11. CASE SaveGroupSucceeds \/ SaveStops \/ SaveAdvances
  BY <1>1, <1>11
  DEF SaveGroupSucceeds, FinishGroup, SaveStops, ReceiveRefusal, ReceiveNothing,
      RefuseUncertainCreates, StopSave, SaveAdvances, SkipHandled, Send, ReceiveOk, journalVars
<1>12. CASE AfterCommitReturns \/ UploadReturns
  <2>1. UNCHANGED <<providerVars, issued, marked>> /\ (UNCHANGED <<mine, disk>> \/ Judge)
    BY <1>12 DEF AfterCommitReturns, UploadReturns
  <2>2. UNCHANGED <<buffer, issued, marked>>
    BY <2>1 DEF providerVars
  <2>3. CASE UNCHANGED <<mine, disk>>
    BY <1>1, <2>2, <2>3
  <2>4. CASE Judge /\ ~UNCHANGED <<mine, disk>>
    <3>1. /\ mine' \in [doc : Docs \cup {NoDoc}, copy : Copies, bound : BOOLEAN]
          /\ mine'.doc = mine.doc /\ mine'.bound = mine.bound /\ mine'.copy.ops = mine.copy.ops
          /\ disk' = [disk EXCEPT ![mine.doc] = mine'.copy]
      BY <1>0, <2>4, JudgeIs
    <3> QED
      BY <1>0, <2>2, <3>1
  <2> QED
    BY <2>1, <2>3, <2>4
<1>13. CASE BeginCheck \/ ReadVersions \/ CheckFails \/ CheckIsStale \/ Claim
  BY <1>1, <1>13 DEF BeginCheck, ReadVersions, CheckFails, CheckIsStale, Claim, providerVars
<1>14. CASE CheckFindsConflict
  <2>1. UNCHANGED <<buffer, issued>>
    BY <1>14 DEF CheckFindsConflict, providerVars
  <2>2. CASE UNCHANGED <<mine, disk, marked>>
    BY <1>1, <2>1, <2>2
  <2>3. ASSUME NEW copy \in Copies, copy.ops = sync.copy.ops,
               disk' = [disk EXCEPT ![sync.doc] = copy],
               mine' \in [doc : Docs \cup {NoDoc}, copy : Copies, bound : BOOLEAN],
               mine'.doc = mine.doc, mine'.bound = mine.bound, mine'.copy = copy, marked' = TRUE
        PROVE  CopiesAreTyped' /\ RoomForCopy'
    BY <1>0, <2>1, <2>3 DEF SyncIsTyped
  <2> QED
    BY <1>14, <2>2, <2>3, ConflictIs
<1>15. CASE UploadRestores
  <2>1. /\ mine' = [mine EXCEPT !.bound = TRUE] /\ UNCHANGED <<disk, issued, marked>>
        /\ mine.doc \in Docs /\ mine.doc # NoDoc
    BY <1>0, <1>15 DEF UploadRestores, JournalInv, ClaimIsOwn, CheckHasCopy, Claimed, Docs, NoDoc
  <2>2. /\ mine' \in [doc : Docs \cup {NoDoc}, copy : Copies, bound : BOOLEAN]
        /\ mine'.doc = mine.doc /\ mine'.copy = mine.copy /\ mine'.bound = TRUE
    BY <1>0, <2>1
  <2> QED
    BY <1>0, <2>1, <2>2
<1>16. ASSUME NEW d \in Docs, RestoreForReview(d) PROVE CopiesAreTyped' /\ RoomForCopy'
  <2>1. issued < MaxDocs /\ UNCHANGED <<disk, issued>> /\ marked' \in BOOLEAN
    BY <1>0, <1>16 DEF RestoreForReview, Room
  <2>2. CASE mine' = [doc |-> d, copy |-> disk[d], bound |-> TRUE]
    BY <1>0, <2>1, <2>2
  <2>3. CASE mine' = [mine EXCEPT !.bound = TRUE]
    <3>1. /\ mine' \in [doc : Docs \cup {NoDoc}, copy : Copies, bound : BOOLEAN]
          /\ mine'.copy = mine.copy
      BY <1>0, <2>3
    <3> QED
      BY <1>0, <2>1, <3>1
  <2> QED
    BY <1>16, <2>2, <2>3 DEF RestoreForReview
<1>17. ASSUME NEW d \in Docs, DeleteCopy(d) \/ OtherSessionDeletes(d)
       PROVE  CopiesAreTyped' /\ RoomForCopy'
  <2>0. UNCHANGED <<buffer, issued>> /\ disk' = Without(d)
    BY <1>17 DEF DeleteCopy, OtherSessionDeletes, providerVars
  <2>1. disk' \in [Docs -> Copies] /\ \A x \in Docs : disk'[x] \in {disk[x], Absent}
    BY <1>0, <2>0, WithoutIs
  <2>2. \A x \in Docs : disk'[x].ops \subseteq Fitting'
    BY <1>0, <2>1, AbsentIsTyped
  <2>3. CASE UNCHANGED <<mine, marked>>
    BY <1>0, <2>0, <2>1, <2>2, <2>3
  <2>4. CASE mine' = Forgotten /\ marked' = FALSE /\ buffer = {}
    BY <1>0, <2>0, <2>1, <2>2, <2>4, AbsentIsTyped
  <2> QED
    BY <1>17, <2>3, <2>4 DEF DeleteCopy, OtherSessionDeletes
<1>18. CASE ForeignEdit \/ SwitchAccount
  BY <1>1, <1>18 DEF ForeignEdit, SwitchAccount, providerVars
<1>19. CASE Reloads
  <2>1. LayerLoads(disk) /\ UNCHANGED <<disk, issued>> /\ buffer' = {}
    BY <1>19 DEF Reloads, Crash, ReopenProject, LayerLoads
  <2>2. CASE mine' = Forgotten
    BY <1>0, <2>1, <2>2, ReloadIs, AbsentIsTyped
  <2>3. ASSUME NEW d \in Docs, mine' = [doc |-> d, copy |-> disk[d], bound |-> FALSE]
        PROVE  CopiesAreTyped' /\ RoomForCopy'
    BY <1>0, <2>1, <2>3, ReloadIs
  <2> QED
    BY <2>1, <2>2, <2>3, ReloadIs
<1>20. CASE ServerStep /\ UNCHANGED journalVars
  BY <1>1, <1>20 DEF ServerStep, ServerApplies, ServerRefuses, RequestLost, journalVars
<1> QED
  BY <1>3, <1>4, <1>5, <1>6, <1>7, <1>9, <1>10, <1>11, <1>12, <1>13, <1>14, <1>15, <1>16, <1>17,
     <1>18, <1>19, <1>20
  DEF Next, PersonStep, TimerStep, SaveStep, UploadStep, WorldStep, Reloads

\* While an upload is claimed, nothing of the person's runs.
LEMMA ClaimStep ==
    ASSUME JournalInv, Next
    PROVE  ClaimIsOwn'
<1> USE DEF ClaimIsOwn, Claimed
<1>0. /\ ClaimIsOwn /\ CopiesAreTyped /\ (Claimed => stage = "idle") /\ (Claimed => ~Quiet)
      /\ mine \in [doc : Docs \cup {NoDoc}, copy : Copies, bound : BOOLEAN]
      /\ sync \in [phase : {"idle", "reading", "answered", "claimed"},
                   doc : Docs \cup {NoDoc}, copy : Copies, account : Accounts \cup {Nobody},
                   touched : BOOLEAN, problem : BOOLEAN]
      /\ Callers /\ caller \in {"nobody", "person", "connect"}
  BY JournalTypesAre
  DEF JournalInv, JournalTypeOK, Callers, Quiet, CallbackRunning, CopiesAreTyped
<1>1. CASE ~Claimed'
  BY <1>1
<1>2. CASE UNCHANGED <<mine, sync, caller>>
  BY <1>0, <1>2
<1>3. CASE Edit \/ UndoEdit
  BY <1>0, <1>3 DEF Edit, UndoEdit, Touch
<1>4. CASE PersonStep /\ ~(Edit \/ UndoEdit)
  <2>1. Quiet
    BY <1>4 DEF PersonStep, Discard, Save, EmptySave, BeginCheck, RestoreForReview, DeleteCopy,
                SwitchAccount, ReopenProject
  <2>2. sync'.phase # "claimed" \/ UNCHANGED <<sync, caller>> \/ caller' # "nobody"
    BY <1>4 DEF PersonStep, Discard, Save, EmptySave, BeginCheck, RestoreForReview, DeleteCopy,
                SwitchAccount, ReopenProject, NoSync
  <2> QED
    BY <1>0, <2>1, <2>2
<1>5. CASE TimerStep
  BY <1>0, <1>5 DEF TimerStep, Flush, AfterCommitReturns
<1>6. CASE SaveStep
  <2>1. stage # "idle"
    BY <1>6 DEF JournalInv, BufferInv, Committing,
        SaveStep, SaveSucceeds, SaveGroupSucceeds, SaveStops, SaveAdvances, FinishSave, FinishGroup,
        GroupHandled, ReceiveRefusal, ReceiveNothing, RefuseUncertainCreates, SkipHandled, Send,
        ReceiveOk
  <2>2. UNCHANGED sync /\ (caller' = "nobody" => caller # "connect")
    BY <1>6 DEF SaveStep, SaveSucceeds, SaveGroupSucceeds, SaveStops, SaveAdvances, journalVars
  <2> QED
    BY <1>0, <2>1, <2>2 DEF Callers
<1>7. CASE Claim
  <2>1. sync'.doc = sync.doc /\ sync'.copy = sync.copy
    BY <1>0, <1>7 DEF Claim
  <2> QED
    BY <1>7, <2>1 DEF Claim, StillFrozen
<1>8. CASE UploadRestores
  BY <1>0, <1>8 DEF UploadRestores
<1>9. CASE UploadStep /\ ~Claim /\ ~UploadRestores
  <2>1. ReadVersions => sync'.phase = "answered"
    BY <1>0 DEF ReadVersions
  <2> QED
    BY <1>9, <2>1
    DEF UploadStep, CheckFails, CheckIsStale, CheckFindsConflict, UploadStarts, UploadGivesUp,
        UploadReturns, NoSync
<1>10. CASE WorldStep
  BY <1>1, <1>2, <1>10 DEF WorldStep, ForeignEdit, OtherSessionDeletes, Crash, NoSync, journalVars
<1> QED
  BY <1>3, <1>4, <1>5, <1>6, <1>7, <1>8, <1>9, <1>10 DEF Next

LEMMA JournalInit == Init => JournalInv
<1> SUFFICES ASSUME Init PROVE JournalInv
  OBVIOUS
<1>1. TypeOK /\ Committing
  BY TypeInit, CommittingInit DEF Init
<1>2. GroupsGone /\ EditsAreOpen /\ RoomForCopy /\ Callers /\ CheckHasCopy /\ ClaimIsOwn
  BY NoSyncIsTyped DEF Init, ProviderInit, GroupsGone, EditsAreOpen, RoomForCopy, Callers,
                       CheckHasCopy, ClaimIsOwn, Claimed
<1>3. CopiesAreTyped
  <2>1. mine = Forgotten /\ issued = 0 /\ marked = FALSE
    BY DEF Init, Forgotten
  <2>0. 0 \in 0..MaxDocs
    BY JournalAssumption
  <2>2. disk = [d \in Docs |-> Absent]
    BY DEF Init
  <2> HIDE DEF Absent, Copies, Forgotten, Docs
  <2> QED
    BY <2>0, <2>1, <2>2, AbsentIsTyped DEF CopiesAreTyped
<1>4. SyncIsTyped
  BY NoSyncIsTyped DEF Init, SyncIsTyped
<1>5. LayerIsTyped
  <2>1. 0 \in 0..MaxCrashes
    BY JournalAssumption
  <2> QED
    BY <2>1 DEF Init, LayerIsTyped
<1> QED
  BY <1>1, <1>2, <1>3, <1>4, <1>5, JournalTypesAre DEF JournalInv, BufferInv

LEMMA JournalStep ==
    ASSUME JournalInv, [Next]_vars
    PROVE  JournalInv'
<1>1. CASE Next
  <2>1. BufferInv'
    BY <1>1, BufferStep DEF JournalInv
  <2>2. SyncIsTyped' /\ LayerIsTyped' /\ CopiesAreTyped' /\ CheckHasCopy' /\ RoomForCopy'
    BY <1>1, SyncStep, LayerStep, CopiesStep
  <2>3. JournalTypeOK' /\ CopiesFit'
    BY <2>2 DEF JournalTypeOK, CopiesFit, SyncIsTyped, LayerIsTyped, CopiesAreTyped
  <2>4. Callers' /\ ClaimIsOwn'
    BY <1>1, CallersStep, ClaimStep
  <2> QED
    BY <2>1, <2>2, <2>3, <2>4 DEF JournalInv
<1>2. CASE UNCHANGED vars
  BY <1>2
  DEF vars, providerVars, journalVars, JournalInv, BufferInv, TypeOK, Committing, GroupsGone,
      EditsAreOpen, JournalTypeOK, CopiesFit, Fitting, RoomForCopy, BufferOps, Callers, CheckHasCopy,
      ClaimIsOwn, Claimed
<1> QED
  BY <1>1, <1>2

\* JournalInv is inductive.
THEOREM JournalIsSound == Spec => []JournalInv
<1> QED
  BY JournalInit, JournalStep, PTL DEF Spec

\* Everything the recovery journal keeps, in memory and on disk, has its type, whatever
\* the bounds and whichever writes fail.
THEOREM JournalTypes == Spec => []JournalTypeOK
<1>1. JournalInv => JournalTypeOK
  BY DEF JournalInv
<1> QED
  BY <1>1, JournalIsSound, PTL

-----------------------------------------------------------------------------
(* The upload on Connect. *)

\* The edits of a copy under check are the layer's own, unless they were touched.
Frozen ==
    sync.phase # "idle" /\ ~sync.touched /\ mine.doc = sync.doc /\ buffer # {} => mine.bound

ClaimIsHeld ==
    sync.phase = "claimed" => sync.doc \in locks /\ ~sync.touched /\ sync.account = account

UploadIsMarked ==
    caller = "connect" /\ stage # "idle" =>
        /\ mine.doc = sync.doc /\ mine.bound /\ mine.copy.state = "uncertain"
        /\ disk[sync.doc].state \in {"uncertain", "absent"}

CheckIsForOwner == sync.phase # "idle" => sync.copy.email = sync.account

UploadInv == JournalInv /\ Frozen /\ ClaimIsHeld /\ UploadIsMarked /\ CheckIsForOwner

LEMMA BoundIsAdopted ==
    ASSUME mine.bound, mine.doc # NoDoc
    PROVE  Adopted /\ ~Orphaned /\ OwnId = mine.doc /\ KeptDisk = disk
BY DEF Adopted, Orphaned, OwnId, KeptDisk

\* What a snapshot makes of the layer's copy in memory.
LEMMA FlushedMine ==
    ASSUME JournalInv, NEW fault, Journal(Snapshot(fault))
    PROVE  \/ mine' = mine
           \/ buffer = {} /\ mine' = Forgotten /\ mine.bound /\ mine.copy.state = "pending"
           \/ /\ mine'.doc = mine.doc /\ mine'.copy = mine.copy
              /\ mine'.bound = (mine.doc # NoDoc)
           \/ /\ mine'.doc = OwnId /\ mine'.copy = OwnCopy /\ mine'.bound
              /\ buffer # {} /\ disk' = [KeptDisk EXCEPT ![OwnId] = OwnCopy]
<1>0. /\ mine \in [doc : Docs \cup {NoDoc}, copy : Copies, bound : BOOLEAN]
      /\ editing \in BOOLEAN
  BY DEF JournalInv, JournalTypeOK
<1>1. CASE Passed(Snapshot(fault)) \/ Emptied(Snapshot(fault))
  <2>1. CASE ~editing \/ buffer = {}
    <3>1. buffer = {}
      BY <2>1 DEF JournalInv, BufferInv, EditsAreOpen
    <3> QED
      BY <1>1, <3>1 DEF Passed, Emptied, Journal
  <2>2. CASE editing /\ buffer # {}
    <3>1. Refused(Snapshot(fault), fault) \/ Written(Snapshot(fault))
      BY <2>2, SnapshotOfEdits
    <3> QED
      BY <1>1, <3>1 DEF Passed, Emptied, Refused, Written, Journal
  <2> QED
    BY <1>0, <2>1, <2>2
<1>2. CASE Refused(Snapshot(fault), fault)
  <2>1. mine' = mine \/ mine' = [mine EXCEPT !.bound = (mine.doc # NoDoc)]
    BY <1>2 DEF Refused, Journal
  <2> QED
    BY <1>0, <2>1
<1>3. CASE Written(Snapshot(fault)) /\ buffer # {}
  <2>1. /\ mine' = [doc |-> OwnId, copy |-> OwnCopy, bound |-> TRUE]
        /\ disk' = [KeptDisk EXCEPT ![OwnId] = OwnCopy]
    BY <1>3 DEF Written, Journal
  <2> QED
    BY <1>3, <2>1
<1> QED
  BY <1>0, <1>1, <1>2, <1>3, SnapshotOfEdits, SnapshotOfNone

\* The same for a mark: the copy is the one there was, or the one written.
LEMMA MarkedMine ==
    ASSUME JournalInv, buffer # {}, NEW fault, MarkUncertain(fault)
    PROVE  \/ mine'.doc = mine.doc /\ mine'.copy = mine.copy
              /\ mine'.bound \in {mine.bound, mine.doc # NoDoc}
           \/ mine'.doc = OwnId /\ mine'.copy = Attempted(OwnCopy) /\ mine'.bound
<1>0. /\ mine \in [doc : Docs \cup {NoDoc}, copy : Copies, bound : BOOLEAN] /\ editing
  BY DEF JournalInv, JournalTypeOK, BufferInv, EditsAreOpen
<1>1. CASE MarkFails(fault)
  <2>1. mine' = mine \/ mine' = [mine EXCEPT !.bound = (mine.doc # NoDoc)]
    BY <1>1 DEF MarkFails, Refused, Journal
  <2> QED
    BY <1>0, <2>1
<1>2. CASE Marked(fault)
  <2>1. mine' = [doc |-> OwnId, copy |-> Attempted(OwnCopy), bound |-> TRUE]
    BY <1>2 DEF Marked
  <2> QED
    BY <2>1
<1> QED
  BY <1>0, <1>1, <1>2, MarkOfEdits

\* The check's own variables: who touches them, and when.
LEMMA ClaimIsHeldStep ==
    ASSUME JournalInv, ClaimIsHeld, CheckIsForOwner, Next
    PROVE  ClaimIsHeld' /\ CheckIsForOwner'
<1> USE DEF ClaimIsHeld, CheckIsForOwner
<1>0. /\ sync \in [phase : {"idle", "reading", "answered", "claimed"},
                   doc : Docs \cup {NoDoc}, copy : Copies, account : Accounts \cup {Nobody},
                   touched : BOOLEAN, problem : BOOLEAN]
      /\ ClaimIsHeld /\ CheckIsForOwner
  BY DEF JournalInv, JournalTypeOK
<1>1. CASE UNCHANGED <<sync, locks, account>>
  BY <1>0, <1>1
<1>2. CASE sync' = NoSync
  BY <1>2, NoSyncIsTyped
<1>3. CASE Edit \/ UndoEdit
  <2>1. Quiet /\ stage = "idle" /\ UNCHANGED <<locks, account>> /\ Touch
    BY <1>3 DEF Edit, UndoEdit, Draw, Retouch, Revert, Undo
  <2>2. sync.phase # "claimed"
    BY <2>1, QuietIsUnclaimed
  <2> QED
    BY <1>0, <2>1, <2>2 DEF Touch
<1>4. CASE BeginCheck
  BY <1>4 DEF BeginCheck, CanUpload
<1>5. CASE ReadVersions
  BY <1>0, <1>5 DEF ReadVersions
<1>6. CASE Claim
  <2>1. /\ sync' = [sync EXCEPT !.phase = "claimed"] /\ sync.phase # "idle"
        /\ locks' = locks \cup {sync.doc} /\ account' = account /\ StillFrozen
    BY <1>6 DEF Claim
  <2>2. sync'.doc = sync.doc /\ sync'.touched = sync.touched /\ sync'.account = sync.account
        /\ sync'.copy = sync.copy
    BY <1>0, <2>1
  <2> QED
    BY <1>0, <2>1, <2>2 DEF StillFrozen
<1>7. CASE SwitchAccount
  <2>1. sync.phase # "claimed" /\ UNCHANGED sync
    BY <1>7, QuietIsUnclaimed DEF SwitchAccount
  <2> QED
    BY <1>0, <2>1
<1>8. CASE PersonStep
  BY <1>1, <1>2, <1>3, <1>4, <1>7, <1>8
  DEF PersonStep, Discard, Save, EmptySave, RestoreForReview, DeleteCopy, ReopenProject
<1>9. CASE TimerStep \/ SaveStep
  BY <1>1, <1>9 DEF TimerStep, Flush, AfterCommitReturns, SaveStep, SaveSucceeds,
                    SaveGroupSucceeds, SaveStops, SaveAdvances, journalVars
<1>10. CASE UploadStep
  BY <1>1, <1>2, <1>5, <1>6, <1>10
  DEF UploadStep, CheckFails, CheckIsStale, CheckFindsConflict, UploadRestores, UploadStarts,
      UploadGivesUp, UploadReturns
<1>11. CASE WorldStep
  BY <1>1, <1>2, <1>11 DEF WorldStep, ForeignEdit, OtherSessionDeletes, Crash, journalVars
<1> QED
  BY <1>8, <1>9, <1>10, <1>11 DEF Next

LEMMA FrozenStep ==
    ASSUME JournalInv, Frozen, Next
    PROVE  Frozen'
<1> USE DEF Frozen
<1>0. /\ mine \in [doc : Docs \cup {NoDoc}, copy : Copies, bound : BOOLEAN]
      /\ sync \in [phase : {"idle", "reading", "answered", "claimed"},
                   doc : Docs \cup {NoDoc}, copy : Copies, account : Accounts \cup {Nobody},
                   touched : BOOLEAN, problem : BOOLEAN]
      /\ CheckHasCopy /\ GroupsGone /\ CopiesAreTyped /\ Frozen
  BY JournalTypesAre DEF JournalInv, JournalTypeOK, BufferInv
<1>1. CASE buffer' = {} \/ sync' = NoSync \/ sync'.touched
  BY <1>1, NoSyncIsTyped
<1>2. CASE UNCHANGED <<mine, sync>> /\ buffer' \subseteq buffer
  BY <1>0, <1>2
<1>3. CASE Edit \/ UndoEdit
  <2>1. sync' = [sync EXCEPT !.touched = sync.phase # "idle"]
    BY <1>3 DEF Edit, UndoEdit, Touch
  <2> QED
    BY <1>0, <2>1
<1>4. CASE Flush
  <2>1. UNCHANGED <<sync, buffer>> /\ \E fault : Journal(Snapshot(fault))
    BY <1>4 DEF Flush, providerVars
  <2>2. mine'.bound \/ mine' = mine \/ mine'.doc = NoDoc \/ buffer = {}
    BY <2>1, FlushedMine
  <2>3. sync.phase # "idle" => sync.doc # NoDoc
    BY <1>0 DEF CheckHasCopy, Docs, NoDoc
  <2> QED
    BY <1>0, <2>1, <2>2, <2>3
<1>5. CASE Save \/ UploadStarts
  <2>1. /\ UNCHANGED <<sync, buffer>> /\ buffer # {}
        /\ \E fault : MarkUncertain(fault)
    BY <1>5 DEF Save, UploadStarts, StartNativeSave
  <2>2. mine'.bound \/ (mine'.bound = mine.bound /\ mine'.doc = mine.doc) \/ mine'.doc = NoDoc
    BY <2>1, MarkedMine
  <2>3. sync.phase # "idle" => sync.doc # NoDoc
    BY <1>0 DEF CheckHasCopy, Docs, NoDoc
  <2> QED
    BY <1>0, <2>1, <2>2, <2>3
<1>6. CASE Discard \/ SaveSucceeds \/ EmptySave \/ Reloads
  BY <1>0, <1>1, <1>6 DEF Discard, RollBack, SaveSucceeds, FinishSave, EmptySave, Reloads, Crash,
                          ReopenProject, LayerLoads, GroupsGone
<1>7. CASE SaveGroupSucceeds \/ SaveStops \/ SaveAdvances
  BY <1>2, <1>7
  DEF SaveGroupSucceeds, FinishGroup, SaveStops, ReceiveRefusal, ReceiveNothing,
      RefuseUncertainCreates, StopSave, SaveAdvances, SkipHandled, Send, ReceiveOk, journalVars
<1>8. CASE AfterCommitReturns
  <2>1. UNCHANGED <<buffer, sync>> /\ Judge
    BY <1>8 DEF AfterCommitReturns, providerVars
  <2>2. mine' = mine \/ (mine'.doc = mine.doc /\ mine'.bound = mine.bound)
    BY <1>0, <2>1, JudgeIs
  <2> QED
    BY <1>0, <2>1, <2>2
<1>9. CASE BeginCheck
  BY <1>0, <1>9 DEF BeginCheck, providerVars
<1>10. CASE ReadVersions \/ Claim
  <2>1. /\ UNCHANGED <<mine, buffer>> /\ sync.phase # "idle"
        /\ sync'.doc = sync.doc /\ sync'.touched = sync.touched
    BY <1>0, <1>10 DEF ReadVersions, Claim, providerVars
  <2> QED
    BY <1>0, <2>1
<1>11. CASE CheckFails \/ CheckIsStale \/ CheckFindsConflict \/ UploadGivesUp \/ UploadReturns
  BY <1>1, <1>11 DEF CheckFails, CheckIsStale, CheckFindsConflict, UploadGivesUp, UploadReturns
<1>12. CASE Restores
  <2>1. mine'.bound
    BY <1>0, <1>12 DEF Restores, UploadRestores, RestoreForReview
  <2> QED
    BY <2>1
<1>13. CASE \E d \in Docs : DeleteCopy(d)
  <2>1. UNCHANGED <<buffer, sync>> /\ (mine' = mine \/ mine' = Forgotten)
    BY <1>13 DEF DeleteCopy, providerVars
  <2>2. sync.phase # "idle" => sync.doc # NoDoc
    BY <1>0 DEF CheckHasCopy, Docs, NoDoc
  <2> QED
    BY <1>0, <2>1, <2>2, AbsentIsTyped
<1>14. CASE SwitchAccount \/ (WorldStep /\ ~Crash)
  BY <1>2, <1>14 DEF SwitchAccount, WorldStep, ServerStep, ServerApplies, ServerRefuses,
                     RequestLost, ForeignEdit, OtherSessionDeletes, journalVars, providerVars
<1> QED
  BY <1>3, <1>4, <1>5, <1>6, <1>7, <1>8, <1>9, <1>10, <1>11, <1>12, <1>13, <1>14
  DEF Next, PersonStep, TimerStep, SaveStep, UploadStep, WorldStep, Restores, Reloads

\* Until the native commit ends, the claimed copy stays marked, whatever the timers and
\* other sessions do meanwhile.
LEMMA UploadIsMarkedStep ==
    ASSUME UploadInv, Next
    PROVE  UploadIsMarked'
<1> USE DEF UploadIsMarked
<1>0. /\ mine \in [doc : Docs \cup {NoDoc}, copy : Copies, bound : BOOLEAN]
      /\ disk \in [Docs -> Copies]
      /\ JournalInv /\ Frozen /\ ClaimIsHeld /\ UploadIsMarked /\ Callers /\ CheckHasCopy
      /\ CopiesAreTyped /\ NoDoc \notin Docs
  BY JournalTypesAre DEF UploadInv, JournalInv, JournalTypeOK, Docs, NoDoc
<1>1. CASE caller' # "connect" \/ stage' = "idle"
  BY <1>1
<1>2. CASE /\ UNCHANGED <<mine, disk, sync, caller>>
           /\ stage # "idle" \/ UNCHANGED stage
  BY <1>0, <1>2
<1>3. CASE UploadStarts
  <2>1. /\ Claimed /\ stage = "idle" /\ buffer # {} /\ MarkUncertain("none") /\ UNCHANGED sync
    BY <1>3 DEF UploadStarts, StartNativeSave
  <2>2. mine.doc = sync.doc /\ sync.doc \in Docs /\ mine.bound
    BY <1>0, <2>1 DEF JournalInv, ClaimIsOwn, Claimed, CheckHasCopy, ClaimIsHeld, Frozen
  <2>3. Adopted /\ ~Orphaned /\ OwnId = mine.doc /\ KeptDisk = disk
    BY <1>0, <2>2, BoundIsAdopted
  <2>4. Persistable(OwnId, OwnCopy)
    BY <2>1, <2>2, <2>3 DEF Persistable, Claimed
  <2>5. ~MarkFails("none")
    BY <2>4 DEF MarkFails, Refused
  <2>6. Marked("none")
    BY <1>0, <2>1, <2>5, MarkOfEdits DEF JournalInv, BufferInv, EditsAreOpen
  <2>7. /\ mine' = [doc |-> OwnId, copy |-> Attempted(OwnCopy), bound |-> TRUE]
        /\ disk' = [disk EXCEPT ![OwnId] = Attempted(OwnCopy)]
    BY <2>3, <2>6 DEF Marked
  <2> QED
    BY <1>0, <2>1, <2>2, <2>3, <2>7, OwnCopyIs
<1>4. CASE Flush /\ caller = "connect" /\ stage # "idle"
  <2>1. UNCHANGED <<sync, buffer, caller, stage>> /\ \E fault : Journal(Snapshot(fault))
    BY <1>4 DEF Flush, providerVars
  <2>2. PICK fault : Journal(Snapshot(fault))
    BY <2>1
  <2>3. /\ mine.doc = sync.doc /\ mine.bound /\ mine.copy.state = "uncertain"
        /\ disk[sync.doc].state \in {"uncertain", "absent"} /\ sync.doc \in Docs
    BY <1>0, <1>4 DEF Callers, CheckHasCopy
  <2>4. Adopted /\ ~Orphaned /\ OwnId = mine.doc /\ KeptDisk = disk
    BY <1>0, <2>3, BoundIsAdopted
  <2>5. OwnCopy.state = "uncertain"
    BY <1>0, <2>3, <2>4, OwnCopyIs
  <2>6. CASE buffer = {} \/ ~editing
    <3>1. mine' = mine /\ disk' = disk
      BY <1>0, <2>2, <2>3, <2>6, SnapshotOfNone
      DEF JournalInv, JournalTypeOK, Passed, Emptied, Journal
    <3> QED
      BY <1>0, <2>1, <2>3, <3>1
  <2>7. CASE buffer # {} /\ editing
    <3>1. CASE Refused(Snapshot(fault), fault)
      <4>1. disk' = disk /\ mine' \in {mine, [mine EXCEPT !.bound = (mine.doc # NoDoc)]}
        BY <2>2, <2>4, <3>1 DEF Refused, Journal
      <4> QED
        BY <1>0, <2>1, <2>3, <4>1
    <3>2. CASE Written(Snapshot(fault))
      <4>1. /\ mine' = [doc |-> OwnId, copy |-> OwnCopy, bound |-> TRUE]
            /\ disk' = [disk EXCEPT ![OwnId] = OwnCopy]
        BY <2>2, <2>4, <3>2 DEF Written, Journal
      <4> QED
        BY <1>0, <2>1, <2>3, <2>4, <2>5, <4>1
    <3> QED
      BY <2>7, <3>1, <3>2, SnapshotOfEdits
  <2> QED
    BY <2>6, <2>7
<1>5. CASE (Flush \/ AfterCommitReturns) /\ ~(caller = "connect" /\ stage # "idle")
  BY <1>1, <1>5 DEF Flush, AfterCommitReturns, providerVars
<1>6. CASE AfterCommitReturns
  BY <1>1, <1>6 DEF AfterCommitReturns, providerVars
<1>7. CASE SaveSucceeds \/ SaveStops
  BY <1>1, <1>7 DEF SaveSucceeds, FinishSave, SaveStops, ReceiveRefusal, ReceiveNothing,
                    RefuseUncertainCreates, StopSave
<1>8. CASE SaveGroupSucceeds \/ SaveAdvances
  BY <1>0, <1>8 DEF SaveGroupSucceeds, FinishGroup, GroupHandled, SaveAdvances, SkipHandled, Send,
                    ReceiveOk, journalVars
<1>9. CASE PersonStep
  <2>1. \/ Quiet /\ stage = "idle" /\ UNCHANGED stage
        \/ caller' = "person" \/ BeginCheck \/ Discard
    BY <1>9 DEF PersonStep, Edit, Draw, Retouch, Revert, UndoEdit, Undo, Save,
                EmptySave, RestoreForReview, Restore, DeleteCopy, SwitchAccount, ReopenProject,
                LayerLoads, providerVars
  <2>2. BeginCheck \/ Discard => Quiet /\ stage = "idle" /\ UNCHANGED stage
    BY DEF BeginCheck, Discard, RollBack, providerVars
  <2> QED
    BY <1>1, <2>1, <2>2
<1>10. CASE UploadStep /\ ~UploadStarts
  <2>1. UploadReturns \/ UploadGivesUp \/ UploadRestores => caller' # "connect"
    BY DEF UploadReturns, UploadGivesUp, UploadRestores, Claimed
  <2>2. \/ ReadVersions \/ CheckFails \/ CheckIsStale \/ CheckFindsConflict \/ Claim
        => caller # "connect" /\ UNCHANGED caller
    BY <1>0 DEF ReadVersions, CheckFails, CheckIsStale, CheckFindsConflict, Claim, Callers
  <2> QED
    BY <1>1, <1>10, <2>1, <2>2 DEF UploadStep
<1>11. CASE ServerStep /\ UNCHANGED journalVars
  BY <1>2, <1>11 DEF ServerStep, ServerApplies, ServerRefuses, RequestLost, journalVars
<1>12. CASE ForeignEdit
  BY <1>2, <1>12 DEF ForeignEdit, providerVars
<1>13. ASSUME NEW d \in Docs, OtherSessionDeletes(d) PROVE UploadIsMarked'
  <2>1. UNCHANGED <<mine, sync, caller, stage>> /\ disk' = Without(d)
    BY <1>13 DEF OtherSessionDeletes, providerVars
  <2>2. \A x \in Docs : disk'[x] \in {disk[x], Absent}
    BY <1>0, <2>1, WithoutIs
  <2>3. sync.phase # "idle" => sync.doc \in Docs
    BY <1>0 DEF CheckHasCopy
  <2> QED
    BY <1>0, <2>1, <2>2, <2>3, AbsentIsTyped DEF Callers
<1>14. CASE Crash
  BY <1>1, <1>14 DEF Crash
<1> QED
  BY <1>3, <1>4, <1>5, <1>6, <1>7, <1>8, <1>9, <1>10, <1>11, <1>12, <1>13, <1>14
  DEF Next, TimerStep, SaveStep, WorldStep

LEMMA UploadInit == Init => UploadInv
BY JournalInit, NoSyncIsTyped
DEF Init, ProviderInit, UploadInv, Frozen, ClaimIsHeld, UploadIsMarked, CheckIsForOwner

LEMMA UploadInvStep ==
    ASSUME UploadInv, [Next]_vars
    PROVE  UploadInv'
<1>1. JournalInv'
  BY JournalStep DEF UploadInv
<1>2. CASE Next
  BY <1>1, <1>2, FrozenStep, ClaimIsHeldStep, UploadIsMarkedStep DEF UploadInv
<1>3. CASE UNCHANGED vars
  BY <1>1, <1>3
  DEF vars, providerVars, journalVars, UploadInv, Frozen, ClaimIsHeld, UploadIsMarked,
      CheckIsForOwner
<1> QED
  BY <1>2, <1>3

\* UploadInv is inductive.
THEOREM UploadIsSound == Spec => []UploadInv
<1> QED
  BY UploadInit, UploadInvStep, PTL DEF Spec

\* While Connect uploads, the copy is claimed and uncertain on disk, unless another
\* session deleted it, whichever journal writes failed: were QGIS to die now, nobody
\* would send it again by itself.
THEOREM MarkedBeforeSent == Spec => []UploadIsDurablyUncertain
<1>1. UploadInv => UploadIsDurablyUncertain
  BY DEF UploadInv, UploadIsMarked, ClaimIsHeld, JournalInv, Callers, UploadIsDurablyUncertain
<1> QED
  BY <1>1, UploadIsSound, PTL

-----------------------------------------------------------------------------
(* What an upload sends. *)

\* Edits nobody touched since the check began are those of the copy that was checked.
Checked ==
    ~StaleLock =>
        /\ /\ sync.phase # "idle" /\ ~sync.touched
           /\ mine.doc = sync.doc /\ mine.copy.ops = sync.copy.ops
           => BufferOps \subseteq sync.copy.ops
        /\ sync.phase = "claimed" => BufferOps \subseteq sync.copy.ops

\* A claim that a crash left behind is never given back.
LEMMA StaleStays ==
    ASSUME JournalInv, StaleLock, Next
    PROVE  StaleLock'
<1> USE DEF StaleLock
<1>0. PICK d \in locks : ~(sync.phase = "claimed" /\ sync.doc = d)
  OBVIOUS
<1>1. sync \in [phase : {"idle", "reading", "answered", "claimed"},
                doc : Docs \cup {NoDoc}, copy : Copies, account : Accounts \cup {Nobody},
                touched : BOOLEAN, problem : BOOLEAN]
  BY DEF JournalInv, JournalTypeOK
<1>2. CASE UNCHANGED <<locks, sync>> \/ (UNCHANGED locks /\ sync' = NoSync)
  BY <1>0, <1>2, NoSyncIsTyped
<1>3. CASE Edit \/ UndoEdit
  <2>1. UNCHANGED locks /\ sync' = [sync EXCEPT !.touched = sync.phase # "idle"]
    BY <1>3 DEF Edit, UndoEdit, Touch
  <2> QED
    BY <1>0, <1>1, <2>1
<1>4. CASE BeginCheck
  BY <1>0, <1>4 DEF BeginCheck
<1>5. CASE ReadVersions
  <2>1. UNCHANGED locks /\ sync'.phase = "answered"
    BY <1>1, <1>5 DEF ReadVersions
  <2> QED
    BY <1>0, <2>1
<1>6. CASE Claim
  <2>1. d \in locks' /\ d # sync.doc /\ sync'.doc = sync.doc
    BY <1>0, <1>1, <1>6 DEF Claim
  <2> QED
    BY <2>1
<1>7. CASE UploadGivesUp \/ UploadReturns
  <2>1. sync.phase = "claimed" /\ locks' = locks \ {sync.doc} /\ sync' = NoSync
    BY <1>7 DEF UploadGivesUp, UploadReturns, Claimed, ReleaseClaim, JournalInv, Callers
  <2> QED
    BY <1>0, <2>1, NoSyncIsTyped
<1>8. CASE PersonStep
  BY <1>2, <1>3, <1>4, <1>8
  DEF PersonStep, Discard, Save, EmptySave, RestoreForReview, DeleteCopy, SwitchAccount,
      ReopenProject
<1>9. CASE TimerStep \/ SaveStep
  BY <1>2, <1>9 DEF TimerStep, Flush, AfterCommitReturns, SaveStep, SaveSucceeds,
                    SaveGroupSucceeds, SaveStops, SaveAdvances, journalVars
<1>10. CASE UploadStep
  BY <1>2, <1>5, <1>6, <1>7, <1>10
  DEF UploadStep, CheckFails, CheckIsStale, CheckFindsConflict, UploadRestores, UploadStarts
<1>11. CASE WorldStep
  BY <1>2, <1>11 DEF WorldStep, ForeignEdit, OtherSessionDeletes, Crash, journalVars
<1> QED
  BY <1>8, <1>9, <1>10, <1>11 DEF Next

LEMMA OpsShrink ==
    ASSUME buffer' \subseteq buffer, UNCHANGED content
    PROVE  BufferOps' \subseteq BufferOps
BY DEF BufferOps

\* What _restore brings into the buffer is what the copy holds.
LEMMA RestoredOps ==
    ASSUME NEW copy, copy.ops \subseteq Fitting, Restore(copy)
    PROVE  BufferOps' \subseteq copy.ops
<1> SUFFICES ASSUME NEW e \in buffer'
             PROVE  <<e, IF e \in Creates THEN content'[e] ELSE 1>> \in copy.ops
  BY DEF BufferOps
<1>1. PICK op \in copy.ops : op[1] = e
  BY DEF Restore, EditsOf
<1>2. /\ op = <<e, op[2]>> /\ op[2] \in Payloads /\ (e \in Creates \/ op[2] = 1)
  BY <1>1 DEF Fitting, Operations
<1>3. CASE e \in Creates
  <2>1. \E p \in Payloads : <<e, p>> \in copy.ops
    BY <1>1, <1>2
  <2>2. content'[e] = CHOOSE p \in Payloads : <<e, p>> \in copy.ops
    BY <1>3, <2>1 DEF Restore
  <2> QED
    BY <1>3, <2>1, <2>2
<1>4. CASE e \notin Creates
  BY <1>1, <1>2, <1>4
<1> QED
  BY <1>3, <1>4

\* A copy that enters the buffer for review and cannot become the layer's own is one
\* that a crash left claimed.
LEMMA UnwrittenIsStale ==
    ASSUME JournalInv, NEW d \in Docs, RestoreForReview(d), ~Persistable(d, disk[d])
    PROVE  StaleLock
<1>1. sync.phase # "claimed"
  BY QuietIsUnclaimed DEF RestoreForReview
<1>2. d \in locks
  BY DEF RestoreForReview, Persistable
<1> QED
  BY <1>1, <1>2 DEF StaleLock

LEMMA CheckedStep ==
    ASSUME UploadInv, Checked, Next
    PROVE  Checked'
<1> SUFFICES ASSUME ~StaleLock'
             PROVE  /\ /\ sync'.phase # "idle" /\ ~sync'.touched
                       /\ mine'.doc = sync'.doc /\ mine'.copy.ops = sync'.copy.ops
                       => BufferOps' \subseteq sync'.copy.ops
                    /\ sync'.phase = "claimed" => BufferOps' \subseteq sync'.copy.ops
  BY DEF Checked
<1> DEFINE Goal == /\ /\ sync'.phase # "idle" /\ ~sync'.touched
                      /\ mine'.doc = sync'.doc /\ mine'.copy.ops = sync'.copy.ops
                      => BufferOps' \subseteq sync'.copy.ops
                   /\ sync'.phase = "claimed" => BufferOps' \subseteq sync'.copy.ops
<1>0. /\ sync \in [phase : {"idle", "reading", "answered", "claimed"},
                   doc : Docs \cup {NoDoc}, copy : Copies, account : Accounts \cup {Nobody},
                   touched : BOOLEAN, problem : BOOLEAN]
      /\ mine \in [doc : Docs \cup {NoDoc}, copy : Copies, bound : BOOLEAN]
      /\ JournalInv /\ CheckHasCopy /\ GroupsGone /\ CopiesFit /\ ClaimIsOwn /\ CopiesAreTyped
      /\ sync.phase # "idle" => sync.doc # NoDoc
  BY JournalTypesAre
  DEF UploadInv, JournalInv, JournalTypeOK, BufferInv, CheckHasCopy, Docs, NoDoc
<1>00. /\ /\ sync.phase # "idle" /\ ~sync.touched
          /\ mine.doc = sync.doc /\ mine.copy.ops = sync.copy.ops
          => BufferOps \subseteq sync.copy.ops
       /\ sync.phase = "claimed" => BufferOps \subseteq sync.copy.ops
  BY <1>0, StaleStays DEF Checked
<1>1. CASE sync' = NoSync
  BY <1>1, NoSyncIsTyped
<1>2. ASSUME UNCHANGED <<sync, mine, content>>, buffer' \subseteq buffer PROVE Goal
  BY <1>00, <1>2, OpsShrink
<1>3. CASE Edit \/ UndoEdit
  <2>1. sync' = [sync EXCEPT !.touched = sync.phase # "idle"] /\ Quiet /\ stage = "idle"
    BY <1>3 DEF Edit, UndoEdit, Touch, Draw, Retouch, Revert, Undo
  <2>2. sync.phase # "claimed"
    BY <1>0, <2>1, QuietIsUnclaimed
  <2> QED
    BY <1>0, <2>1, <2>2
<1>4. ASSUME UNCHANGED <<sync, buffer, content>>,
             \/ mine'.doc = mine.doc /\ mine'.copy.ops = mine.copy.ops
             \/ mine'.doc = NoDoc
             \/ mine'.copy.ops = BufferOps
      PROVE  Goal
  <2>1. BufferOps' = BufferOps
    BY <1>4 DEF BufferOps
  <2> QED
    BY <1>0, <1>00, <1>4, <2>1
<1>5. CASE Flush
  <2>1. UNCHANGED <<sync, buffer, content>> /\ \E fault : Journal(Snapshot(fault))
    BY <1>5 DEF Flush, providerVars
  <2>2. \/ mine'.doc = mine.doc /\ mine'.copy = mine.copy
        \/ mine'.doc = NoDoc
        \/ mine'.copy = OwnCopy
    BY <1>0, <2>1, FlushedMine, AbsentIsTyped
  <2> QED
    BY <1>0, <1>4, <2>1, <2>2, OwnCopyIs
<1>6. CASE Save \/ UploadStarts
  <2>1. UNCHANGED <<sync, buffer, content>> /\ buffer # {} /\ \E fault : MarkUncertain(fault)
    BY <1>6 DEF Save, UploadStarts, StartNativeSave
  <2>2. \/ mine'.doc = mine.doc /\ mine'.copy = mine.copy
        \/ mine'.copy = Attempted(OwnCopy)
    BY <1>0, <2>1, MarkedMine
  <2> QED
    BY <1>0, <1>4, <2>1, <2>2, OwnCopyIs
<1>7. CASE Discard \/ SaveSucceeds \/ EmptySave
  <2>1. buffer' = {} /\ UNCHANGED sync
    BY <1>0, <1>7 DEF Discard, RollBack, SaveSucceeds, FinishSave, EmptySave, GroupsGone
  <2> QED
    BY <2>1 DEF BufferOps
<1>8. CASE SaveGroupSucceeds \/ SaveStops \/ SaveAdvances
  BY <1>2, <1>8
  DEF SaveGroupSucceeds, FinishGroup, SaveStops, ReceiveRefusal, ReceiveNothing,
      RefuseUncertainCreates, StopSave, SaveAdvances, SkipHandled, Send, ReceiveOk, journalVars
<1>9. CASE AfterCommitReturns
  <2>1. UNCHANGED <<buffer, content, sync>> /\ Judge
    BY <1>9 DEF AfterCommitReturns, providerVars
  <2>2. mine' = mine \/ (mine'.doc = mine.doc /\ mine'.copy.ops = mine.copy.ops)
    BY <1>0, <2>1, JudgeIs
  <2> QED
    BY <1>4, <2>1, <2>2
<1>10. CASE BeginCheck
  <2>1. /\ sync'.phase = "reading" /\ sync'.copy = mine.copy /\ UNCHANGED <<buffer, content>>
        /\ buffer # {} => mine.copy.ops = BufferOps
    BY <1>10 DEF BeginCheck, providerVars
  <2>2. BufferOps' = BufferOps /\ (buffer = {} => BufferOps = {})
    BY <2>1 DEF BufferOps
  <2> QED
    BY <2>1, <2>2
<1>11. CASE ReadVersions \/ Claim
  <2>1. /\ UNCHANGED <<mine, buffer, content>> /\ sync.phase # "idle"
        /\ sync'.doc = sync.doc /\ sync'.touched = sync.touched /\ sync'.copy = sync.copy
        /\ ReadVersions => sync'.phase = "answered"
        /\ Claim => StillFrozen
    BY <1>0, <1>11 DEF ReadVersions, Claim, providerVars
  <2>2. BufferOps' = BufferOps
    BY <2>1 DEF BufferOps
  <2> QED
    BY <1>00, <1>11, <2>1, <2>2 DEF StillFrozen
<1>12. CASE CheckFails \/ CheckIsStale \/ CheckFindsConflict \/ UploadGivesUp \/ UploadReturns
  BY <1>1, <1>12 DEF CheckFails, CheckIsStale, CheckFindsConflict, UploadGivesUp, UploadReturns
<1>13. CASE UploadRestores
  <2>1. BufferOps' \subseteq sync.copy.ops /\ UNCHANGED sync
    BY <1>0, <1>13, RestoredOps DEF UploadRestores, CopiesFit
  <2> QED
    BY <2>1
<1>14. ASSUME NEW d \in Docs, RestoreForReview(d) PROVE Goal
  <2>1. Persistable(d, disk[d])
    BY <1>0, <1>14, StaleStays, UnwrittenIsStale
  <2>2. mine'.copy = disk[d] /\ UNCHANGED sync
    BY <1>14, <2>1 DEF RestoreForReview
  <2>3. BufferOps' \subseteq disk[d].ops
    BY <1>0, <1>14, RestoredOps DEF RestoreForReview, CopiesFit
  <2>4. sync.phase # "claimed"
    BY <1>0, <1>14, QuietIsUnclaimed DEF RestoreForReview
  <2> QED
    BY <2>2, <2>3, <2>4
<1>15. CASE \E d \in Docs : DeleteCopy(d)
  <2>1. UNCHANGED <<buffer, content, sync>> /\ (mine' = mine \/ mine' = Forgotten)
    BY <1>15 DEF DeleteCopy, providerVars
  <2> QED
    BY <1>4, <2>1, AbsentIsTyped
<1>16. CASE Reloads
  BY <1>1, <1>16 DEF Reloads, Crash, ReopenProject
<1>17. CASE SwitchAccount \/ (WorldStep /\ ~Crash)
  BY <1>2, <1>17 DEF SwitchAccount, WorldStep, ServerStep, ServerApplies, ServerRefuses,
                     RequestLost, ForeignEdit, OtherSessionDeletes, journalVars, providerVars
<1> QED
  BY <1>3, <1>5, <1>6, <1>7, <1>8, <1>9, <1>10, <1>11, <1>12, <1>13, <1>14, <1>15, <1>16, <1>17
  DEF Next, PersonStep, TimerStep, SaveStep, UploadStep, WorldStep, Reloads

\* An upload on Connect sends edits of the copy whose versions were checked, for the
\* account that made them, and no others, unless an earlier crash left a claim behind.
THEOREM SendsWhatWasChecked == Spec => []UploadIsWhatWasChecked
<1>1. Init => UploadInv /\ Checked
  BY UploadInit, NoSyncIsTyped DEF Init, Checked
<1>2. UploadInv /\ Checked /\ [Next]_vars => UploadInv' /\ Checked'
  <2> SUFFICES ASSUME UploadInv, Checked, [Next]_vars PROVE UploadInv' /\ Checked'
    OBVIOUS
  <2>1. CASE UNCHANGED vars
    BY <2>1, UploadInvStep
    DEF Checked, vars, providerVars, journalVars, StaleLock, BufferOps
  <2> QED
    BY <2>1, UploadInvStep, CheckedStep
<1>3. UploadInv /\ Checked => UploadIsWhatWasChecked
  BY DEF UploadInv, JournalInv, Callers, CheckIsForOwner, ClaimIsHeld, Checked,
         UploadIsWhatWasChecked, UploadIsAlwaysWhatWasChecked
<1> QED
  BY <1>1, <1>2, <1>3, PTL DEF Spec
=============================================================================
