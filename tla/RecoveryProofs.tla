--------------------------- MODULE RecoveryProofs ---------------------------
(* Theorems about what the recovery journal of UnpushedEdits promises as long *)
(* as its files can be written: no copy that uploads itself holds what the    *)
(* server has, nothing but a review creates a feature twice, and no journaled *)
(* edit is lost; for any number of edits, copies, Saves and crashes.          *)
EXTENDS UnpushedEditsProofs

\* What the theorems assume of the disk. With a write that fails TLC finds each broken.
JournalIsWritten == Faults = {}

Holding(copy) == EditsOf(copy.ops)

\* Copy d is locked and no upload of this session holds the claim.
Stale(d) == d \in locks /\ ~(sync.phase = "claimed" /\ sync.doc = d)

Uploading == caller = "connect" /\ stage # "idle"

\* What the journal ids tell, and that a copy which is gone holds nothing.
CopyIds ==
    /\ \A d \in Docs : disk[d].state = "absent" => Holding(disk[d]) = {}
    /\ \A d \in Docs : d > issued => disk[d].state = "absent" /\ d \notin locks
    /\ mine.doc <= issued /\ sync.doc <= issued
    /\ mine.doc # NoDoc => mine.copy.state # "absent"
    /\ mine.doc = NoDoc => mine.copy.state = "absent"

\* The layer's copy is on disk as it is in memory, unless it was deleted.
OwnCopyKept ==
    mine.doc # NoDoc =>
        \/ disk[mine.doc].state = "absent"
        \/ /\ disk[mine.doc].state = mine.copy.state
           /\ Holding(disk[mine.doc]) = Holding(mine.copy)

CheckIsPending == sync.phase # "idle" => sync.copy.state = "pending"

CopyInv == UploadInv /\ CopyIds /\ OwnCopyKept /\ CheckIsPending

-----------------------------------------------------------------------------
USE DEF nativeVars, requestVars, serverVars, sessionVars, historyOfSave,
        storeVars, layerVars, timerVars, aroundVars, historyVars,
        BeginSaveSession, ResetWriteSession

(* What a step makes of the copies: the kinds of steps the proofs distinguish. *)

SameFile(d) == disk'[d].state = disk[d].state /\ Holding(disk'[d]) = Holding(disk[d])
SameFiles == \A d \in Docs : SameFile(d)
OtherFiles(d) == \A x \in Docs \ {d} : SameFile(x)

SameOwn ==
    /\ mine'.doc = mine.doc
    /\ mine'.copy.state = mine.copy.state
    /\ Holding(mine'.copy) = Holding(mine.copy)

\* No Save starts in the step.
Ongoing == stage' = "idle" \/ stage # "idle"

\* The copies stay, and at most an edit is made or some leave the buffer.
Stays ==
    /\ SameFiles /\ SameOwn /\ mine'.bound = mine.bound /\ issued' = issued /\ Ongoing
    /\ \/ buffer' \subseteq buffer
       \/ stage' = "idle" /\ buffer' \subseteq buffer \cup (Edits \ used)

\* Copy d is deleted; if it was the layer's own, the layer has none now.
Dropped(d) ==
    /\ disk'[d].state = "absent" /\ Holding(disk'[d]) = {} /\ OtherFiles(d)
    /\ issued' = issued /\ Ongoing /\ buffer' \subseteq buffer
    /\ \/ SameOwn /\ mine'.bound = mine.bound
       \/ mine.doc = d /\ mine'.doc = NoDoc /\ mine'.copy.state = "absent" /\ buffer' = {}

\* The edits are discarded and the copy is kept.
LetGo ==
    /\ SameFiles /\ SameOwn /\ ~mine'.bound /\ issued' = issued /\ Ongoing
    /\ buffer' = {}

\* The layer's copy cannot be written: it is deleted, or locked since a crash.
StillHeld ==
    /\ SameFiles /\ SameOwn /\ mine'.bound /\ issued' = issued
    /\ mine.doc \in Docs /\ Adopted
    /\ disk[mine.doc].state = "absent" \/ Stale(mine.doc)
    /\ ~Uploading'
    /\ buffer' = buffer

\* The edits of the buffer are written to the layer's copy.
Writes ==
    /\ buffer # {} /\ buffer' = buffer
    /\ mine'.doc \in Docs /\ mine'.bound /\ ~Stale(mine'.doc)
    /\ mine'.copy.state # "absent" /\ disk'[mine'.doc].state = mine'.copy.state
    /\ Holding(mine'.copy) = buffer /\ Holding(disk'[mine'.doc]) = buffer
    /\ Ongoing \/ mine'.copy.state = "uncertain"

\* They go to the copy it has, or to a new one beside it.
Adopts ==
    /\ Writes /\ Adopted
    /\ mine'.doc = mine.doc /\ issued' = issued /\ OtherFiles(mine.doc)
    /\ mine'.copy.state \in {mine.copy.state, "uncertain"}
    /\ disk[mine.doc].state # "absent" \/ (Uploading /\ mine.copy.state = "uncertain")

Opens ==
    /\ Writes /\ ~Adopted
    /\ mine'.doc = issued + 1 /\ issued' = issued + 1
    /\ \A x \in Docs \ {issued + 1} :
        \/ SameFile(x)
        \/ /\ x = mine.doc /\ Orphaned
           /\ disk'[x].state = "conflict" /\ Holding(disk'[x]) = Holding(mine.copy)
    /\ Orphaned => mine'.copy.state # "pending"
    /\ mine'.copy.state # "absent"

\* The layer's copy changes its state, with the edits it holds.
Turns(state) ==
    /\ mine.doc \in Docs
    /\ disk[mine.doc].state # "absent"
    /\ disk'[mine.doc].state = state /\ Holding(disk'[mine.doc]) = Holding(mine.copy)
    /\ OtherFiles(mine.doc) /\ issued' = issued
    /\ mine'.doc = mine.doc /\ mine'.bound = mine.bound
    /\ mine'.copy.state = state /\ Holding(mine'.copy) = Holding(mine.copy)
    /\ buffer' = buffer /\ Ongoing

\* A refused first attempt goes back to pending.
Released ==
    /\ Turns("pending") /\ RefusedOutright /\ stage = "idle"
    /\ disk[mine.doc].state = "uncertain" /\ ~fresh'

Conflicted ==
    /\ Turns("conflict") /\ mine.doc \notin locks /\ mine.copy.state = "pending"
    /\ sync.phase = "answered"

\* The edits of copy d enter the buffer, and the copy becomes the layer's own.
Restored(d) ==
    /\ SameFiles /\ issued' = issued /\ stage = "idle" /\ stage' = "idle"
    /\ buffer = {} /\ buffer' = Holding(disk[d])
    /\ ~Stale(d) /\ disk[d].state # "absent"
    /\ mine'.doc = d /\ mine'.bound /\ mine'.copy.state = disk[d].state
    /\ Holding(mine'.copy) = Holding(disk[d])
    /\ disk[d].state # "pending" => Holding(disk[d]) \subseteq reviewed'

\* Those of a copy that cannot be written enter it, for review only.
RestoredHeld ==
    /\ SameFiles /\ SameOwn /\ issued' = issued /\ stage = "idle" /\ stage' = "idle"
    /\ buffer = {} /\ buffer' \subseteq reviewed'
    /\ mine'.bound

\* The layer is loaded anew, with any copy or none.
Reloaded ==
    /\ SameFiles /\ issued' = issued /\ stage' = "idle" /\ buffer' = {} /\ ~mine'.bound
    /\ \/ mine'.doc = NoDoc /\ mine'.copy.state = "absent"
       \/ \E d \in Docs :
            /\ disk[d].state # "absent" /\ mine'.doc = d
            /\ mine'.copy.state = disk[d].state /\ Holding(mine'.copy) = Holding(disk[d])

Kinds ==
    \/ Stays \/ LetGo \/ StillHeld \/ Adopts \/ Opens \/ Released \/ Conflicted
    \/ RestoredHeld \/ Reloaded
    \/ \E d \in Docs : Dropped(d) \/ Restored(d)

-----------------------------------------------------------------------------
LEMMA HoldingIs ==
    /\ \A copy : copy.ops = {} => Holding(copy) = {}
    /\ \A copy : copy.ops = BufferOps => Holding(copy) = buffer
    /\ \A c1, c2 : c1.ops = c2.ops => Holding(c1) = Holding(c2)
<1>1. EditsOf(BufferOps) = buffer
  <2> DEFINE op(e) == <<e, IF e \in Creates THEN content[e] ELSE 1>>
  <2>1. \A e \in buffer : op(e) \in BufferOps /\ op(e)[1] = e
    BY DEF BufferOps
  <2>2. \A o \in BufferOps : o[1] \in buffer
    BY DEF BufferOps
  <2> HIDE DEF op
  <2>3. \A e \in buffer : e \in EditsOf(BufferOps)
    BY <2>1 DEF EditsOf
  <2>4. \A e \in EditsOf(BufferOps) : e \in buffer
    BY <2>2 DEF EditsOf
  <2> QED
    BY <2>3, <2>4
<1>2. EditsOf({}) = {}
  BY DEF EditsOf
<1> QED
  BY <1>1, <1>2 DEF Holding

\* What CopyInv says of the types, in one place.
LEMMA CopyTypes ==
    ASSUME CopyInv
    PROVE  /\ JournalInv /\ disk \in [Docs -> Copies] /\ locks \subseteq Docs
           /\ issued \in 0..MaxDocs /\ MaxDocs \in Nat
           /\ mine \in [doc : Docs \cup {NoDoc}, copy : Copies, bound : BOOLEAN]
           /\ sync \in [phase : {"idle", "reading", "answered", "claimed"},
                        doc : Docs \cup {NoDoc}, copy : Copies, account : Accounts \cup {Nobody},
                        touched : BOOLEAN, problem : BOOLEAN]
           /\ editing \in BOOLEAN /\ caller \in {"nobody", "person", "connect"}
           /\ stage \in Stages /\ buffer \subseteq Edits /\ NoDoc \notin Docs
BY JournalAssumption
DEF CopyInv, UploadInv, JournalInv, JournalTypeOK, BufferInv, TypeOK, Docs, NoDoc

\* A new id names a file nobody has, so it can be written.
LEMMA NewIdIsFree ==
    ASSUME CopyInv, buffer # {}, ~Adopted
    PROVE  /\ OwnId = issued + 1 /\ OwnId \in Docs /\ OwnId # mine.doc
           /\ disk[OwnId].state = "absent" /\ OwnId \notin locks
           /\ \A copy : Persistable(OwnId, copy)
<1>1. OwnId = issued + 1 /\ OwnId \in Docs
  BY CopyTypes, OwnIdIsDoc DEF OwnId
<1>2. mine.doc <= issued /\ issued \in Nat /\ mine.doc \in Nat
  BY CopyTypes DEF CopyInv, CopyIds, Docs, NoDoc
<1>3. OwnId # mine.doc /\ OwnId > issued
  BY <1>1, <1>2
<1>4. disk[OwnId].state = "absent" /\ OwnId \notin locks
  BY <1>1, <1>3 DEF CopyInv, CopyIds
<1> QED
  BY <1>1, <1>3, <1>4 DEF Persistable, Exists

\* While Connect's claim is held and its upload has not begun, the layer's copy is the
\* one on disk that was claimed.
LEMMA ClaimIsWritable ==
    ASSUME CopyInv, sync.phase = "claimed"
    PROVE  /\ sync.doc \in Docs /\ sync.doc \in locks
           /\ \A copy : Persistable(sync.doc, copy)
           /\ ~Stale(sync.doc)
           /\ Claimed => mine.doc = sync.doc /\ mine.copy = sync.copy
           /\ Uploading => mine.doc = sync.doc /\ mine.copy.state = "uncertain"
BY DEF CopyInv, UploadInv, JournalInv, CheckHasCopy, ClaimIsHeld, ClaimIsOwn, UploadIsMarked,
       Persistable, Stale, Uploading

\* A write that is refused is one of the layer's own copy, deleted or locked.
LEMMA RefusedIsHeld ==
    ASSUME CopyInv, buffer # {}, Refused(Snapshot("none"), "none"), Journal(Snapshot("none"))
    PROVE  /\ SameFiles /\ SameOwn /\ mine'.bound /\ issued' = issued
           /\ mine.doc \in Docs /\ Adopted
           /\ disk[mine.doc].state = "absent" \/ Stale(mine.doc)
           /\ sync.phase = "claimed" => sync.doc # mine.doc
<1>1. ~Persistable(OwnId, OwnCopy) /\ disk' = KeptDisk /\ issued' = issued
      /\ mine' = [mine EXCEPT !.bound = (mine.doc # NoDoc)]
  BY DEF Refused, Journal
<1>2. Adopted
  BY <1>1, NewIdIsFree
<1>3. ~Orphaned /\ mine.doc # NoDoc /\ OwnId = mine.doc /\ mine.doc \in Docs
  BY <1>2, CopyTypes DEF Adopted, OwnId
<1>4. disk' = disk /\ mine'.doc = mine.doc /\ mine'.copy = mine.copy /\ mine'.bound
  BY <1>1, <1>3, CopyTypes DEF KeptDisk
<1>5. OwnCopy.state = mine.copy.state
  BY <1>2, CopyTypes, OwnCopyIs
<1>6. disk[mine.doc].state = "absent" \/ Stale(mine.doc)
  BY <1>1, <1>3, <1>5 DEF Persistable, Exists, Stale, CopyInv, OwnCopyKept
<1>7. sync.phase = "claimed" => sync.doc # mine.doc
  BY <1>1, <1>3 DEF Persistable
<1> QED
  BY <1>1, <1>2, <1>3, <1>4, <1>6, <1>7 DEF SameFiles, SameFile, SameOwn

\* A write that is made.
LEMMA WrittenAre ==
    ASSUME CopyInv, buffer # {}, buffer' = buffer, Persistable(OwnId, OwnCopy),
           NEW c \in {OwnCopy, Attempted(OwnCopy)}, Ongoing \/ c = Attempted(OwnCopy),
           disk' = [KeptDisk EXCEPT ![OwnId] = c],
           mine' = [doc |-> OwnId, copy |-> c, bound |-> TRUE],
           issued' = IF OwnId = mine.doc THEN issued ELSE OwnId,
           sync.phase = "claimed" => Uploading \/ disk[sync.doc].state # "absent"
    PROVE  Adopts \/ Opens
<1>1. /\ c.ops = BufferOps /\ c.state \in {OwnCopy.state, "uncertain"}
      /\ c = Attempted(OwnCopy) => c.state = "uncertain"
      /\ Adopted => OwnCopy.state = mine.copy.state
      /\ ~Adopted => OwnCopy.state = IF Orphaned \/ marked THEN "conflict" ELSE "pending"
  BY CopyTypes, OwnCopyIs
<1>2. OwnId \in Docs /\ KeptDisk \in [Docs -> Copies]
  BY CopyTypes, OwnIdIsDoc, KeptDiskIs
<1>3. /\ disk'[OwnId] = c /\ \A x \in Docs \ {OwnId} : disk'[x] = KeptDisk[x]
      /\ mine'.doc = OwnId /\ mine'.copy = c /\ mine'.bound
  BY <1>2
<1>4. Holding(c) = buffer
  BY <1>1, HoldingIs
<1>5. ~Stale(OwnId)
  BY DEF Persistable, Stale
<1>6. CASE Adopted
  <2>1. OwnId = mine.doc /\ mine.doc # NoDoc /\ KeptDisk = disk
    BY <1>6 DEF Adopted, OwnId, KeptDisk
  <2>2. c.state \in {mine.copy.state, "uncertain"} /\ c.state # "absent"
    BY <1>1, <1>6, <2>1 DEF CopyInv, CopyIds
  <2>3. disk[mine.doc].state # "absent" \/ (Uploading /\ mine.copy.state = "uncertain")
    <3>1. CASE sync.phase = "claimed" /\ sync.doc = mine.doc
      BY <3>1, ClaimIsWritable
    <3>2. CASE ~(sync.phase = "claimed" /\ sync.doc = mine.doc)
      BY <2>1, <3>2 DEF Persistable, Exists
    <3> QED
      BY <3>1, <3>2
  <2>4. OtherFiles(mine.doc)
    BY <1>3, <2>1 DEF OtherFiles, SameFile
  <2>5. Writes
    BY <1>1, <1>2, <1>3, <1>4, <1>5, <2>2 DEF Writes
  <2> QED
    BY <1>3, <1>6, <2>1, <2>2, <2>3, <2>4, <2>5 DEF Adopts
<1>7. CASE ~Adopted
  <2>1. OwnId = issued + 1 /\ OwnId # mine.doc
    BY <1>7, NewIdIsFree
  <2>2. c.state # "absent" /\ (Orphaned => c.state # "pending")
    BY <1>1, <1>7
  <2>3. Writes
    BY <1>1, <1>2, <1>3, <1>4, <1>5, <2>2 DEF Writes
  <2>4. SetAside.ops = mine.copy.ops /\ SetAside.state = "conflict"
    BY CopyTypes, SetAsideIs
  <2>5. Holding(SetAside) = Holding(mine.copy)
    BY <2>4, HoldingIs
  <2>6. \A x \in Docs \ {issued + 1} :
        \/ SameFile(x)
        \/ /\ x = mine.doc /\ Orphaned
           /\ disk'[x].state = "conflict" /\ Holding(disk'[x]) = Holding(mine.copy)
    <3> SUFFICES ASSUME NEW x \in Docs \ {issued + 1}
                 PROVE  \/ SameFile(x)
                        \/ /\ x = mine.doc /\ Orphaned
                           /\ disk'[x].state = "conflict"
                           /\ Holding(disk'[x]) = Holding(mine.copy)
      OBVIOUS
    <3>1. disk'[x] = KeptDisk[x]
      BY <1>3, <2>1
    <3>2. KeptDisk[x] = disk[x] \/ (x = mine.doc /\ Orphaned /\ KeptDisk[x] = SetAside)
      BY CopyTypes, KeptDiskIs
    <3> QED
      BY <2>4, <2>5, <3>1, <3>2 DEF SameFile
  <2> QED
    BY <1>3, <1>7, <2>1, <2>2, <2>3, <2>6 DEF Opens
<1> QED
  BY <1>6, <1>7

\* The snapshot and the mark of a Save.
LEMMA MarkIs ==
    ASSUME CopyInv, buffer # {}, buffer' = buffer, ~Uploading' \/ sync.phase = "claimed",
           MarkUncertain("none"),
           sync.phase = "claimed" => sync.doc = mine.doc /\ disk[sync.doc].state # "absent"
    PROVE  \/ StillHeld /\ MarkFails("none")
           \/ /\ Adopts \/ Opens
              /\ Marked("none") /\ mine'.copy.state = "uncertain"
<1>0. editing
  BY CopyTypes DEF JournalInv, BufferInv, EditsAreOpen
<1>1. CASE MarkFails("none")
  <2>1. Refused(Snapshot("none"), "none") /\ Journal(Snapshot("none"))
    BY <1>1 DEF MarkFails
  <2>2. sync.phase # "claimed"
    BY <2>1, RefusedIsHeld
  <2> QED
    BY <1>1, <2>1, <2>2, RefusedIsHeld DEF StillHeld
<1>2. CASE Marked("none")
  <2>1. /\ Persistable(OwnId, OwnCopy)
        /\ disk' = [KeptDisk EXCEPT ![OwnId] = Attempted(OwnCopy)]
        /\ mine' = [doc |-> OwnId, copy |-> Attempted(OwnCopy), bound |-> TRUE]
        /\ issued' = IF OwnId = mine.doc THEN issued ELSE OwnId
    BY <1>2 DEF Marked
  <2>2. Adopts \/ Opens
    BY <2>1, WrittenAre
  <2>3. mine'.copy.state = "uncertain"
    BY <2>1, CopyTypes, OwnCopyIs
  <2> QED
    BY <1>2, <2>2, <2>3
<1> QED
  BY <1>0, <1>1, <1>2, MarkOfEdits

-----------------------------------------------------------------------------
(* The kind of each step. *)

LEMMA SameIsStays ==
    ASSUME UNCHANGED <<disk, mine, issued>>, Ongoing,
           \/ buffer' \subseteq buffer
           \/ stage' = "idle" /\ buffer' \subseteq buffer \cup (Edits \ used)
    PROVE  Stays
BY DEF Stays, SameFiles, SameFile, SameOwn

\* Deleting a copy.
LEMMA WithoutDrops ==
    ASSUME CopyInv, NEW d \in Docs, disk' = Without(d), UNCHANGED issued, Ongoing,
           buffer' \subseteq buffer,
           UNCHANGED mine \/ (mine.doc = d /\ mine' = Forgotten /\ buffer' = {})
    PROVE  Dropped(d)
<1>1. \A x \in Docs : disk'[x] = IF x = d THEN Absent ELSE disk[x]
  BY CopyTypes, WithoutIs
<1>2. disk'[d].state = "absent" /\ Holding(disk'[d]) = {} /\ OtherFiles(d)
  BY <1>1, AbsentIsTyped, HoldingIs DEF OtherFiles, SameFile
<1> QED
  BY <1>2, AbsentIsTyped DEF Dropped, SameOwn

LEMMA FlushKind ==
    ASSUME CopyInv, JournalIsWritten, Flush
    PROVE  \/ Stays \/ StillHeld
           \/ Adopts /\ mine'.copy.state = mine.copy.state
           \/ Opens /\ mine'.copy.state # "uncertain"
           \/ mine.doc \in Docs /\ Dropped(mine.doc) /\ mine.bound /\ buffer = {}
<1>1. /\ Journal(Snapshot("none")) /\ Quiet
      /\ UNCHANGED <<buffer, stage, caller, sync>> /\ Ongoing
  BY DEF Flush, JournalIsWritten, providerVars, Ongoing
<1>2. CASE Passed(Snapshot("none"))
  BY <1>1, <1>2, SameIsStays DEF Passed, Journal
<1>3. CASE Emptied(Snapshot("none")) /\ buffer = {}
  <2>1. mine.doc \in Docs
    BY <1>3, CopyTypes DEF Emptied, CopyInv, CopyIds
  <2>2. disk' = Without(mine.doc) /\ mine' = Forgotten /\ UNCHANGED issued
    BY <1>1, <1>3 DEF Emptied, Journal
  <2> QED
    BY <1>1, <1>3, <2>1, <2>2, WithoutDrops DEF Emptied
<1>4. CASE buffer # {} /\ Refused(Snapshot("none"), "none")
  <2>1. sync.phase = "claimed" => sync.doc # mine.doc
    BY <1>1, <1>4, RefusedIsHeld
  <2>2. ~Uploading
    BY <2>1, ClaimIsWritable, CopyTypes DEF JournalInv, Callers, Uploading
  <2> QED
    BY <1>1, <1>4, <2>2, RefusedIsHeld DEF StillHeld, Uploading
<1>5. CASE buffer # {} /\ Written(Snapshot("none"))
  <2>1. /\ Persistable(OwnId, OwnCopy)
        /\ disk' = [KeptDisk EXCEPT ![OwnId] = OwnCopy]
        /\ mine' = [doc |-> OwnId, copy |-> OwnCopy, bound |-> TRUE]
        /\ issued' = IF OwnId = mine.doc THEN issued ELSE OwnId
    BY <1>1, <1>5 DEF Written, Journal
  <2>2. sync.phase = "claimed" => Uploading
    BY <1>1, CopyTypes DEF Quiet, CallbackRunning, Uploading, JournalInv, Callers
  <2>3. /\ Adopted => mine'.copy.state = mine.copy.state
        /\ ~Adopted => mine'.copy.state # "uncertain"
    BY <2>1, CopyTypes, OwnCopyIs
  <2>4. Adopts \/ Opens
    BY <1>1, <1>5, <2>1, <2>2, WrittenAre
  <2> QED
    BY <2>3, <2>4 DEF Adopts, Opens
<1> QED
  BY <1>2, <1>3, <1>4, <1>5, SnapshotOfEdits, SnapshotOfNone, CopyTypes
  DEF JournalInv, BufferInv, EditsAreOpen

\* A Save marks the copy it sends, or has none it could mark.
LEMMA SaveKind ==
    ASSUME CopyInv, JournalIsWritten, Save
    PROVE  \/ StillHeld /\ MarkFails("none")
           \/ /\ Adopts \/ Opens
              /\ Marked("none") /\ mine'.copy.state = "uncertain"
<1>1. /\ MarkUncertain("none") /\ buffer # {} /\ buffer' = buffer /\ caller' = "person"
      /\ stage = "idle" /\ Quiet
  BY DEF Save, StartNativeSave, JournalIsWritten
<1>2. sync.phase # "claimed"
  BY <1>1, CopyTypes, QuietIsUnclaimed
<1>3. ~Uploading'
  BY <1>1 DEF Uploading
<1> QED
  BY <1>1, <1>2, <1>3, MarkIs

\* The claimed copy can always be marked.
LEMMA UploadMarks ==
    ASSUME CopyInv, Claimed, disk[sync.doc] = sync.copy, buffer # {}, buffer' = buffer,
           MarkUncertain("none")
    PROVE  Adopts /\ Marked("none") /\ mine'.copy.state = "uncertain" /\ mine.bound
<1>1. /\ mine.doc = sync.doc /\ mine.copy = sync.copy /\ mine.doc \in Docs
      /\ Persistable(sync.doc, OwnCopy) /\ sync.phase = "claimed"
  BY ClaimIsWritable DEF Claimed
<1>2. mine.bound
  BY <1>1 DEF CopyInv, UploadInv, Frozen, ClaimIsHeld
<1>3. Adopted /\ ~Orphaned /\ OwnId = mine.doc
  BY <1>1, <1>2, CopyTypes, BoundIsAdopted
<1>4. ~MarkFails("none")
  BY <1>1, <1>3 DEF MarkFails, Refused
<1>5. disk[sync.doc].state # "absent"
  BY <1>1 DEF CopyInv, CheckIsPending
<1>6. (Adopts \/ Opens) /\ Marked("none") /\ mine'.copy.state = "uncertain"
  BY <1>1, <1>4, <1>5, MarkIs
<1> QED
  BY <1>2, <1>3, <1>6 DEF Opens

LEMMA UploadStartsKind ==
    ASSUME CopyInv, UploadStarts
    PROVE  Adopts /\ Marked("none") /\ mine'.copy.state = "uncertain"
<1>1. /\ Claimed /\ disk[sync.doc] = sync.copy /\ buffer # {} /\ buffer' = buffer
      /\ MarkUncertain("none")
  BY DEF UploadStarts, StartNativeSave
<1> QED
  BY <1>1, UploadMarks

LEMMA GivesUpKind ==
    ASSUME CopyInv, JournalIsWritten, UploadGivesUp
    PROVE  /\ UNCHANGED <<buffer, stage>>
           /\ \/ Stays /\ UNCHANGED <<disk, mine, fresh, refusal, wrote, owed>>
              \/ Adopts /\ ~refusal' /\ owed' = owed \cup buffer
<1>1. UNCHANGED <<buffer, stage>> /\ Ongoing
  BY DEF UploadGivesUp, Ongoing, Claimed, CopyInv, UploadInv, JournalInv, Callers
<1>2. CASE UNCHANGED <<disk, mine, issued, fresh, refusal, wrote, owed>>
  BY <1>1, <1>2, SameIsStays
<1>3. CASE ~UNCHANGED <<disk, mine, issued, fresh, refusal, wrote, owed>>
  <2>1. /\ Claimed /\ disk[sync.doc] = sync.copy /\ buffer # {} /\ buffer' = buffer
        /\ MarkUncertain("none") /\ ~refusal'
    BY <1>1, <1>3 DEF UploadGivesUp, JournalIsWritten
  <2> QED
    BY <1>1, <2>1, UploadMarks DEF Marked
<1> QED
  BY <1>2, <1>3

LEMMA DiscardKind ==
    ASSUME CopyInv, Discard
    PROVE  \/ LetGo /\ ~DiscardDeletes
           \/ mine.doc \in Docs /\ Dropped(mine.doc) /\ DiscardDeletes
<1>1. buffer' = {} /\ Ongoing /\ UNCHANGED issued
  BY DEF Discard, RollBack, Ongoing
<1>2. CASE DiscardDeletes
  <2>1. mine.doc \in Docs /\ disk' = Without(mine.doc) /\ mine' = Forgotten
    BY <1>2, CopyTypes DEF Discard, DiscardDeletes, CopyInv, CopyIds
  <2> QED
    BY <1>1, <1>2, <2>1, WithoutDrops
<1>3. CASE ~DiscardDeletes
  <2>1. disk' = disk /\ mine' = [mine EXCEPT !.bound = FALSE]
    BY <1>3 DEF Discard
  <2>2. mine'.doc = mine.doc /\ mine'.copy = mine.copy /\ ~mine'.bound
    BY <2>1, CopyTypes
  <2> QED
    BY <1>1, <1>3, <2>1, <2>2 DEF LetGo, SameFiles, SameFile, SameOwn
<1> QED
  BY <1>2, <1>3

LEMMA FinishKind ==
    ASSUME CopyInv, SaveSucceeds \/ EmptySave
    PROVE  /\ Stays \/ (mine.doc \in Docs /\ Dropped(mine.doc))
           /\ buffer' = {} /\ stage' = "idle" /\ ~fresh'
<1>1. buffer' = {} /\ stage' = "idle" /\ UNCHANGED issued /\ Committed /\ ~fresh'
  BY CopyTypes
  DEF SaveSucceeds, EmptySave, FinishSave, Committed, JournalInv, BufferInv, GroupsGone
<1>2. CASE commit # NoDoc /\ commit = mine.doc
  <2>1. mine.doc \in Docs /\ disk' = Without(mine.doc) /\ mine' = Forgotten
    BY <1>1, <1>2, CopyTypes DEF Committed
  <2> QED
    BY <1>1, <2>1, WithoutDrops DEF Ongoing
<1>3. CASE ~(commit # NoDoc /\ commit = mine.doc)
  BY <1>1, <1>3, SameIsStays DEF Committed, Ongoing
<1> QED
  BY <1>2, <1>3

LEMMA JudgeKind ==
    ASSUME CopyInv, AfterCommitReturns \/ UploadReturns
    PROVE  /\ \/ Stays /\ (UNCHANGED <<fresh, mine, disk>> \/ ~fresh')
              \/ Released
           /\ stage = "idle" /\ UNCHANGED providerVars
<1>1. /\ UNCHANGED providerVars /\ UNCHANGED issued /\ stage = "idle"
      /\ Judge \/ UNCHANGED <<fresh, mine, disk>>
  BY DEF AfterCommitReturns, UploadReturns
<1>2. UNCHANGED <<buffer, stage>> /\ Ongoing
  BY <1>1 DEF providerVars, Ongoing
<1>3. CASE UNCHANGED <<mine, disk>>
  BY <1>1, <1>2, <1>3, SameIsStays DEF Judge
<1>4. CASE Judge /\ ~UNCHANGED <<mine, disk>>
  <2>1. CopiesAreTyped
    BY CopyTypes, JournalTypesAre DEF JournalInv
  <2>2. /\ RefusedOutright /\ mine.doc \in Docs /\ mine.copy.state = "uncertain"
        /\ disk[mine.doc].state = "uncertain" /\ disk[mine.doc].ops = mine.copy.ops
        /\ mine'.doc = mine.doc /\ mine'.bound = mine.bound
        /\ mine'.copy.ops = mine.copy.ops /\ mine'.copy.state = "pending"
        /\ disk' = [disk EXCEPT ![mine.doc] = mine'.copy]
        /\ ~fresh'
    BY <1>4, <2>1, JudgeIs
  <2>3. Holding(mine'.copy) = Holding(mine.copy)
    BY <2>2, HoldingIs
  <2>4. disk'[mine.doc] = mine'.copy /\ OtherFiles(mine.doc)
    BY <2>2, CopyTypes DEF OtherFiles, SameFile
  <2>5. Turns("pending")
    BY <1>1, <1>2, <2>2, <2>3, <2>4 DEF Turns
  <2> QED
    BY <1>1, <2>2, <2>5 DEF Released
<1> QED
  BY <1>1, <1>3, <1>4

LEMMA ConflictKind ==
    ASSUME CopyInv, CheckFindsConflict
    PROVE  Stays \/ Conflicted
<1>1. UNCHANGED <<buffer, stage, issued>> /\ Ongoing /\ sync.phase = "answered" /\ StillFrozen
  BY DEF CheckFindsConflict, providerVars, Ongoing
<1>2. CASE UNCHANGED <<mine, disk, marked>>
  BY <1>1, <1>2, SameIsStays
<1>3. ASSUME NEW copy \in Copies, copy.ops = sync.copy.ops, copy.state = "conflict",
             Persistable(sync.doc, copy), disk' = [disk EXCEPT ![sync.doc] = copy],
             mine'.doc = mine.doc, mine'.bound = mine.bound, mine'.copy = copy
      PROVE  Conflicted
  <2>1. mine.doc = sync.doc /\ mine.copy = sync.copy /\ mine.doc \in Docs
        /\ mine.copy.state = "pending"
    BY <1>1, CopyTypes DEF StillFrozen, JournalInv, CheckHasCopy, CopyInv, CheckIsPending
  <2>2. disk[mine.doc].state # "absent" /\ mine.doc \notin locks
    BY <1>1, <1>3, <2>1 DEF Persistable, Exists
  <2>3. Holding(copy) = Holding(mine.copy)
    BY <1>3, <2>1, HoldingIs
  <2>4. disk'[mine.doc] = copy /\ OtherFiles(mine.doc)
    BY <1>3, <2>1, CopyTypes DEF OtherFiles, SameFile
  <2> QED
    BY <1>1, <1>3, <2>1, <2>2, <2>3, <2>4 DEF Conflicted, Turns
<1> QED
  BY <1>2, <1>3, ConflictIs, CopyTypes

LEMMA RestoreKind ==
    ASSUME CopyInv, Restores
    PROVE  (RestoredHeld /\ StaleLock) \/ \E d \in Docs : Restored(d)
<1>1. CASE UploadRestores
  <2>1. /\ Claimed /\ disk[sync.doc] = sync.copy /\ Restore(sync.copy)
        /\ mine' = [mine EXCEPT !.bound = TRUE] /\ UNCHANGED <<disk, issued>>
    BY <1>1 DEF UploadRestores
  <2>2. /\ sync.doc \in Docs /\ mine.doc = sync.doc /\ mine.copy = sync.copy
        /\ ~Stale(sync.doc) /\ sync.copy.state = "pending"
    BY <2>1, ClaimIsWritable DEF Claimed, CopyInv, CheckIsPending
  <2>3. mine'.doc = mine.doc /\ mine'.copy = mine.copy /\ mine'.bound
    BY <2>1, CopyTypes
  <2>4. stage = "idle" /\ stage' = "idle" /\ buffer = {} /\ buffer' = Holding(sync.copy)
    BY <2>1, CopyTypes DEF Claimed, JournalInv, Callers, Restore, Holding
  <2>5. Restored(sync.doc)
    BY <2>1, <2>2, <2>3, <2>4 DEF Restored, SameFiles, SameFile
  <2> QED
    BY <2>2, <2>5
<1>2. ASSUME NEW d \in Docs, RestoreForReview(d)
      PROVE  (RestoredHeld /\ StaleLock) \/ Restored(d)
  <2>1. /\ Quiet /\ stage = "idle" /\ stage' = "idle" /\ buffer = {}
        /\ buffer' = Holding(disk[d]) /\ UNCHANGED <<disk, issued>>
        /\ disk[d].state # "absent"
        /\ Held(disk[d]) \/ d \in locks => Holding(disk[d]) \subseteq reviewed'
    BY <1>2 DEF RestoreForReview, Restore, Holding, Exists
  <2>2. disk[d].state # "pending" => Held(disk[d])
    BY <2>1, CopyTypes DEF Copies, States, Held
  <2>3. sync.phase # "claimed"
    BY <2>1, CopyTypes, QuietIsUnclaimed
  <2>4. CASE Persistable(d, disk[d])
    <3>1. mine' = [doc |-> d, copy |-> disk[d], bound |-> TRUE]
      BY <1>2, <2>4 DEF RestoreForReview
    <3>2. mine'.doc = d /\ mine'.copy = disk[d] /\ mine'.bound
      BY <3>1
    <3>3. ~Stale(d)
      BY <2>3, <2>4 DEF Persistable, Stale
    <3> QED
      BY <2>1, <2>2, <3>2, <3>3 DEF Restored, SameFiles, SameFile
  <2>5. CASE ~Persistable(d, disk[d])
    <3>1. mine' = [mine EXCEPT !.bound = TRUE]
      BY <1>2, <2>5 DEF RestoreForReview
    <3>2. mine'.doc = mine.doc /\ mine'.copy = mine.copy /\ mine'.bound
      BY <3>1, CopyTypes
    <3>3. d \in locks
      BY <2>1, <2>5 DEF Persistable, Exists
    <3> QED
      BY <2>1, <2>3, <3>2, <3>3 DEF RestoredHeld, SameOwn, SameFiles, SameFile, StaleLock
  <2> QED
    BY <2>4, <2>5
<1> QED
  BY <1>1, <1>2 DEF Restores

LEMMA ReloadKind ==
    ASSUME CopyInv, Reloads
    PROVE  Reloaded /\ ~refusal'
<1>1. /\ LayerLoads(disk) /\ UNCHANGED <<disk, issued>> /\ stage' = "idle" /\ buffer' = {}
      /\ ~refusal'
  BY DEF Reloads, Crash, ReopenProject, LayerLoads
<1>2. CASE mine' = Forgotten
  BY <1>1, <1>2, AbsentIsTyped DEF Reloaded, SameFiles, SameFile
<1>3. ASSUME NEW d \in Docs, disk[d].state # "absent",
             mine' = [doc |-> d, copy |-> disk[d], bound |-> FALSE]
      PROVE  Reloaded
  BY <1>1, <1>3 DEF Reloaded, SameFiles, SameFile
<1> QED
  BY <1>1, <1>2, <1>3, ReloadIs, CopyTypes

LEMMA DeleteKind ==
    ASSUME CopyInv, NEW d \in Docs, DeleteCopy(d) \/ OtherSessionDeletes(d)
    PROVE  Dropped(d)
<1>1. /\ disk' = Without(d) /\ UNCHANGED <<issued, buffer, stage>>
      /\ UNCHANGED mine \/ (mine.doc = d /\ mine' = Forgotten /\ buffer' = {})
  BY DEF DeleteCopy, OtherSessionDeletes, providerVars
<1> QED
  BY <1>1, WithoutDrops DEF Ongoing

\* The steps which leave the copies alone.
Plain ==
    \/ Edit \/ UndoEdit \/ SaveGroupSucceeds \/ SaveStops \/ SaveAdvances
    \/ BeginCheck \/ ReadVersions \/ CheckFails \/ CheckIsStale \/ Claim
    \/ ForeignEdit \/ SwitchAccount \/ (ServerStep /\ UNCHANGED journalVars)

LEMMA PlainKind ==
    ASSUME CopyInv, Plain
    PROVE  Stays /\ UNCHANGED <<disk, mine, issued, fresh>>
<1>1. UNCHANGED <<disk, mine, issued, fresh>>
  BY DEF Plain, Edit, UndoEdit, SaveGroupSucceeds, SaveStops, SaveAdvances, BeginCheck,
         ReadVersions, CheckFails, CheckIsStale, Claim, ForeignEdit, SwitchAccount, journalVars
<1>2. CASE Edit \/ UndoEdit
  BY <1>1, <1>2, SameIsStays
  DEF Edit, UndoEdit, Draw, Retouch, Revert, Undo, Ongoing
<1>3. CASE SaveGroupSucceeds \/ SaveStops \/ SaveAdvances
  <2>1. Ongoing /\ buffer' \subseteq buffer
    BY <1>3
    DEF SaveGroupSucceeds, FinishGroup, GroupHandled, SaveStops, ReceiveRefusal, ReceiveNothing,
        RefuseUncertainCreates, StopSave, SaveAdvances, SkipHandled, Send, ReceiveOk, Ongoing
  <2> QED
    BY <1>1, <2>1, SameIsStays
<1>4. CASE ~(Edit \/ UndoEdit \/ SaveGroupSucceeds \/ SaveStops \/ SaveAdvances)
  <2>1. UNCHANGED <<buffer, stage>>
    BY <1>4
    DEF Plain, BeginCheck, ReadVersions, CheckFails, CheckIsStale, Claim, ForeignEdit,
        SwitchAccount, ServerStep, ServerApplies, ServerRefuses, RequestLost, providerVars
  <2> QED
    BY <1>1, <2>1, SameIsStays DEF Ongoing
<1> QED
  BY <1>1, <1>2, <1>3, <1>4

LEMMA NextIs ==
    ASSUME Next
    PROVE  \/ Plain \/ Flush \/ Save \/ UploadStarts \/ UploadGivesUp \/ Discard
           \/ SaveSucceeds \/ EmptySave \/ AfterCommitReturns \/ UploadReturns
           \/ CheckFindsConflict \/ Restores \/ Reloads
           \/ \E d \in Docs : DeleteCopy(d) \/ OtherSessionDeletes(d)
BY DEF Next, PersonStep, TimerStep, SaveStep, UploadStep, WorldStep, Plain, Restores, Reloads

LEMMA KindOf ==
    ASSUME CopyInv, JournalIsWritten, Next
    PROVE  Kinds
BY NextIs, PlainKind, FlushKind, SaveKind, UploadStartsKind, GivesUpKind, DiscardKind,
   FinishKind, JudgeKind, ConflictKind, RestoreKind, ReloadKind, DeleteKind
DEF Kinds

-----------------------------------------------------------------------------
(* Claims and ids. *)

\* Claims are taken on the copy under check and given back; one is left behind only by
\* a crash, and stays.
LEMMA SyncKind ==
    ASSUME CopyInv, Next
    PROVE  /\ sync'.doc \in {sync.doc, mine.doc, NoDoc}
           /\ locks' \subseteq locks \cup {sync.doc}
           /\ CheckIsPending'
           /\ \A d : Stale(d) => Stale(d)'
           /\ ~Crash => \A d : Stale(d)' => Stale(d)
<1> DEFINE Goal == /\ sync'.doc \in {sync.doc, mine.doc, NoDoc}
                   /\ locks' \subseteq locks \cup {sync.doc}
                   /\ CheckIsPending'
                   /\ \A d : Stale(d) => Stale(d)'
                   /\ ~Crash => \A d : Stale(d)' => Stale(d)
<1> USE DEF Stale, CheckIsPending
<1>0. /\ sync \in [phase : {"idle", "reading", "answered", "claimed"},
                   doc : Docs \cup {NoDoc}, copy : Copies, account : Accounts \cup {Nobody},
                   touched : BOOLEAN, problem : BOOLEAN]
      /\ CheckIsPending
  BY CopyTypes DEF CopyInv
<1>1. CASE UNCHANGED <<locks, sync>>
  BY <1>0, <1>1
<1>2. CASE UNCHANGED locks /\ sync' = NoSync /\ (sync.phase # "claimed" \/ Crash)
  BY <1>0, <1>2, NoSyncIsTyped
<1>3. CASE Edit \/ UndoEdit
  <2>1. UNCHANGED locks /\ sync' = [sync EXCEPT !.touched = sync.phase # "idle"]
    BY <1>3 DEF Edit, UndoEdit, Touch
  <2> QED
    BY <1>0, <2>1
<1>4. CASE BeginCheck
  <2>1. /\ sync.phase = "idle" /\ UNCHANGED locks
        /\ sync'.phase = "reading" /\ sync'.doc = mine.doc /\ sync'.copy.state = "pending"
    BY <1>4 DEF BeginCheck, CanUpload
  <2> QED
    BY <1>0, <2>1
<1>5. CASE ReadVersions
  <2>1. /\ UNCHANGED locks /\ sync.phase = "reading" /\ sync'.phase = "answered"
        /\ sync'.doc = sync.doc /\ sync'.copy = sync.copy
    BY <1>0, <1>5 DEF ReadVersions
  <2> QED
    BY <1>0, <2>1
<1>6. CASE Claim
  <2>1. /\ locks' = locks \cup {sync.doc} /\ sync.doc \notin locks /\ sync.phase = "answered"
        /\ sync'.doc = sync.doc /\ sync'.copy = sync.copy /\ sync'.phase = "claimed"
    BY <1>0, <1>6 DEF Claim
  <2> QED
    BY <1>0, <2>1
<1>7. CASE UploadGivesUp \/ UploadReturns
  <2>1. sync.phase = "claimed" /\ locks' = locks \ {sync.doc} /\ sync' = NoSync
    BY <1>7, CopyTypes
    DEF UploadGivesUp, UploadReturns, Claimed, ReleaseClaim, JournalInv, Callers
  <2> QED
    BY <1>0, <2>1, NoSyncIsTyped
<1>8. CASE ReopenProject
  <2>1. sync.phase # "claimed" /\ UNCHANGED locks /\ sync' = NoSync
    BY <1>8, CopyTypes, QuietIsUnclaimed DEF ReopenProject
  <2> QED
    BY <1>2, <2>1
<1>9. CASE CheckFails \/ CheckIsStale \/ CheckFindsConflict \/ Crash
  BY <1>2, <1>9 DEF CheckFails, CheckIsStale, CheckFindsConflict, Crash
<1>10. CASE PersonStep
  BY <1>1, <1>3, <1>4, <1>8, <1>10
  DEF PersonStep, Discard, Save, EmptySave, RestoreForReview, DeleteCopy, SwitchAccount
<1>11. CASE TimerStep \/ SaveStep
  BY <1>1, <1>11 DEF TimerStep, Flush, AfterCommitReturns, SaveStep, SaveSucceeds,
                     SaveGroupSucceeds, SaveStops, SaveAdvances, journalVars
<1>12. CASE UploadStep
  BY <1>1, <1>5, <1>6, <1>7, <1>9, <1>12
  DEF UploadStep, UploadRestores, UploadStarts
<1>13. CASE WorldStep
  BY <1>1, <1>9, <1>13 DEF WorldStep, ForeignEdit, OtherSessionDeletes, journalVars
<1> QED
  BY <1>10, <1>11, <1>12, <1>13 DEF Next

\* What a kind of step makes of each file and of the layer's copy, for the invariants
\* that only ask where a copy came from.
LEMMA OwnCopyStep ==
    ASSUME CopyInv, Kinds
    PROVE  OwnCopyKept'
<1> USE DEF OwnCopyKept, SameOwn, SameFiles, SameFile, OtherFiles
<1>0. OwnCopyKept /\ mine.doc \in Docs \cup {NoDoc} /\ NoDoc \notin Docs
  BY CopyTypes DEF CopyInv
<1>1. CASE Stays \/ LetGo \/ StillHeld \/ RestoredHeld
  BY <1>0, <1>1 DEF Stays, LetGo, StillHeld, RestoredHeld
<1>2. CASE Adopts \/ Opens
  BY <1>0, <1>2 DEF Adopts, Opens, Writes
<1>3. CASE Released \/ Conflicted
  BY <1>0, <1>3 DEF Released, Conflicted, Turns
<1>4. CASE Reloaded
  BY <1>0, <1>4 DEF Reloaded
<1>5. ASSUME NEW d \in Docs, Dropped(d) PROVE OwnCopyKept'
  BY <1>0, <1>5 DEF Dropped
<1>6. ASSUME NEW d \in Docs, Restored(d) PROVE OwnCopyKept'
  BY <1>0, <1>6 DEF Restored
<1> QED
  BY <1>1, <1>2, <1>3, <1>4, <1>5, <1>6 DEF Kinds

LEMMA CopyIdsStep ==
    ASSUME CopyInv, JournalIsWritten, Next
    PROVE  CopyIds'
<1>0. /\ CopyIds /\ mine.doc \in Docs \cup {NoDoc} /\ NoDoc \notin Docs
      /\ issued \in Nat /\ sync.doc \in Docs \cup {NoDoc} /\ NoDoc = 0
      /\ \A d \in Docs : d \in Nat
  BY CopyTypes DEF CopyInv, Docs, NoDoc
<1>1. /\ issued' \in Nat /\ issued' >= issued
      /\ \A d \in Docs : disk'[d].state = "absent" => Holding(disk'[d]) = {}
      /\ \A d \in Docs : d > issued' => disk'[d].state = "absent"
      /\ mine'.doc <= issued'
      /\ mine'.doc # NoDoc => mine'.copy.state # "absent"
      /\ mine'.doc = NoDoc => mine'.copy.state = "absent"
  <2> DEFINE Goal == /\ issued' \in Nat /\ issued' >= issued
                     /\ \A d \in Docs : disk'[d].state = "absent" => Holding(disk'[d]) = {}
                     /\ \A d \in Docs : d > issued' => disk'[d].state = "absent"
                     /\ mine'.doc <= issued'
                     /\ mine'.doc # NoDoc => mine'.copy.state # "absent"
                     /\ mine'.doc = NoDoc => mine'.copy.state = "absent"
  <2> USE DEF CopyIds, SameOwn, SameFiles, SameFile, OtherFiles
  <2>1. CASE Stays \/ LetGo \/ StillHeld \/ RestoredHeld
    BY <1>0, <2>1 DEF Stays, LetGo, StillHeld, RestoredHeld
  <2>2. CASE Adopts
    <3>1. /\ mine.doc \in Docs /\ mine'.doc = mine.doc /\ issued' = issued
          /\ mine'.copy.state # "absent" /\ disk'[mine.doc].state = mine'.copy.state
          /\ \A x \in Docs \ {mine.doc} :
                disk'[x].state = disk[x].state /\ Holding(disk'[x]) = Holding(disk[x])
      BY <1>0, <2>2 DEF Adopts, Writes
    <3>2. \A d \in Docs : disk'[d].state = "absent" => Holding(disk'[d]) = {}
      BY <1>0, <3>1
    <3>3. mine.doc <= issued /\ \A d \in Docs : d > issued => disk[d].state = "absent"
      BY <1>0
    <3>4. \A d \in Docs : d > issued => d # mine.doc
      BY <1>0, <3>3
    <3>5. \A d \in Docs : d > issued => disk'[d].state = "absent"
      BY <3>1, <3>3, <3>4
    <3> QED
      BY <1>0, <3>1, <3>2, <3>3, <3>5
  <2>3. CASE Opens
    BY <1>0, <2>3 DEF Opens, Writes
  <2>4. CASE Released \/ Conflicted
    BY <1>0, <2>4 DEF Released, Conflicted, Turns
  <2>5. CASE Reloaded
    BY <1>0, <2>5 DEF Reloaded
  <2>6. ASSUME NEW d \in Docs, Dropped(d) PROVE Goal
    BY <1>0, <2>6 DEF Dropped
  <2>7. ASSUME NEW d \in Docs, Restored(d) PROVE Goal
    BY <1>0, <2>7 DEF Restored
  <2> QED
    BY <2>1, <2>2, <2>3, <2>4, <2>5, <2>6, <2>7, KindOf DEF Kinds
<1>2. sync'.doc <= issued'
  <2>1. sync'.doc \in {sync.doc, mine.doc, NoDoc}
    BY SyncKind
  <2>2. sync.doc <= issued /\ mine.doc <= issued /\ sync.doc \in Nat /\ mine.doc \in Nat
    BY <1>0 DEF CopyIds
  <2> QED
    BY <1>0, <1>1, <2>1, <2>2
<1>3. \A d \in Docs : d > issued' => d \notin locks'
  BY <1>0, <1>1, SyncKind DEF CopyIds
<1> QED
  BY <1>1, <1>2, <1>3 DEF CopyIds

LEMMA CopyInit == Init => CopyInv
<1> SUFFICES ASSUME Init PROVE CopyInv
  OBVIOUS
<1>1. UploadInv
  BY UploadInit
<1>2. \A d \in Docs : disk[d].state = "absent" /\ Holding(disk[d]) = {} /\ d \notin locks
  BY AbsentIsTyped, HoldingIs DEF Init
<1>3. mine.doc = NoDoc /\ mine.copy.state = "absent" /\ issued = 0
  BY AbsentIsTyped DEF Init
<1>4. sync.doc = NoDoc /\ sync.phase = "idle"
  BY NoSyncIsTyped DEF Init
<1>5. NoDoc <= 0
  BY DEF NoDoc
<1> QED
  BY <1>1, <1>2, <1>3, <1>4, <1>5 DEF CopyInv, CopyIds, OwnCopyKept, CheckIsPending

LEMMA CopyStep ==
    ASSUME CopyInv, JournalIsWritten, [Next]_vars
    PROVE  CopyInv'
<1>1. UploadInv'
  BY UploadInvStep DEF CopyInv
<1>2. CASE Next
  <2>1. OwnCopyKept'
    BY <1>2, KindOf, OwnCopyStep
  <2>2. CopyIds'
    BY <1>2, CopyIdsStep
  <2>3. CheckIsPending'
    BY <1>2, SyncKind
  <2> QED
    BY <1>1, <2>1, <2>2, <2>3 DEF CopyInv
<1>3. CASE UNCHANGED vars
  <2>1. UNCHANGED <<disk, mine, issued, locks, sync>>
    BY <1>3 DEF vars, journalVars
  <2> QED
    BY <1>1, <2>1 DEF CopyInv, CopyIds, OwnCopyKept, CheckIsPending
<1> QED
  BY <1>2, <1>3

-----------------------------------------------------------------------------
(* What may be sent again. *)

\* Sending e again could not duplicate it, or a person has it under review.
Clear(e) == e \in reviewed \/ Unsent(e)

NewIsClear == \A e \in Edits \ used : Unsent(e)

PendingIsClear ==
    \A d \in Docs : ~Stale(d) /\ disk[d].state = "pending" =>
        \A e \in Holding(disk[d]) : Clear(e)

\* No copy with e in it can become pending: the layer's copy was deleted or stays
\* locked, or it is held with e.
Secured(e) ==
    /\ mine.doc # NoDoc
    /\ \/ disk[mine.doc].state = "absent"
       \/ Stale(mine.doc)
       \/ mine.copy.state # "pending" /\ e \in Holding(mine.copy)

\* The same by what e is, where a Save under way may be sending it.
Cleared(e) == IF stage = "idle" THEN Clear(e) ELSE e \in reviewed

BufferIsSecured == \A e \in buffer : Secured(e) \/ Cleared(e)

\* Open edits are in the layer's own copy only, and it knows them as its own.
BufferIsCopied ==
    /\ \A d \in Docs : \A e \in buffer \cap Holding(disk[d]) :
        e \in reviewed \/ (mine.doc = d /\ mine.bound /\ ~Stale(d))
    /\ \A e \in buffer \cap Holding(mine.copy) : e \in reviewed \/ mine.bound

CopiesAreApart ==
    \A d1, d2 \in Docs : d1 # d2 =>
        /\ Holding(disk[d1]) \cap Holding(disk[d2]) \subseteq reviewed
        /\ mine.doc = d1 => Holding(mine.copy) \cap Holding(disk[d2]) \subseteq reviewed

UploadIsCopied == Uploading => buffer \subseteq Holding(mine.copy)

NoRefusal == stage # "idle" => ~refusal

\* The request for e of the Save under way is the only one there ever was.
InFlight(e) ==
    /\ \A r \in wire : r.edit = e => r.save = saves /\ reply = "none"
    /\ \A r, s \in wire : r.edit = e /\ s.edit = e => r = s
    /\ reply = "none" => ~OnServer(e)
    /\ reply = "refused" => Unsent(e)

\* A first attempt at the layer's copy is under way, or ended without a success.
Attempting ==
    /\ fresh /\ ~wrote /\ mine.doc # NoDoc /\ ~Stale(mine.doc)
    /\ disk[mine.doc].state = "uncertain" \/ Uploading

\* Nothing of e was ever sent but what is in flight; a refusal means nothing at all.
Accounted(e) ==
    \/ e \in reviewed
    \/ IF stage = "idle" THEN refusal => Unsent(e)
       ELSE IF awaited = e THEN InFlight(e) ELSE Unsent(e)

FirstAttempt == Attempting => \A e \in Holding(mine.copy) : Accounted(e)

RecoveryInv ==
    /\ CopyInv /\ NewIsClear /\ PendingIsClear /\ BufferIsSecured /\ BufferIsCopied
    /\ CopiesAreApart /\ UploadIsCopied /\ NoRefusal /\ FirstAttempt

-----------------------------------------------------------------------------
(* Sending. *)

LEMMA HoldingFits ==
    ASSUME CopyInv
    PROVE  /\ \A d \in Docs : Holding(disk[d]) \subseteq Edits \cap used
           /\ Holding(mine.copy) \subseteq Edits \cap used
BY CopyTypes DEF JournalInv, CopiesFit, Fitting, Operations, Holding, EditsOf

\* Only the provider's Send puts a request on the wire, and only the server applies one.
LEMMA WireKind ==
    ASSUME Next
    PROVE  \/ UNCHANGED <<wire, rows, applied>>
           \/ ServerStep /\ UNCHANGED journalVars
           \/ \E e \in Edits : Send(e) /\ UNCHANGED journalVars
<1>1. CASE PersonStep
  BY <1>1
  DEF PersonStep, Edit, Draw, Retouch, Revert, UndoEdit, Undo, Discard, RollBack, Save,
      StartNativeSave, EmptySave, BeginCheck, RestoreForReview, Restore, DeleteCopy,
      SwitchAccount, ReopenProject, LayerLoads, providerVars
<1>2. CASE TimerStep
  BY <1>2 DEF TimerStep, Flush, AfterCommitReturns, providerVars
<1>3. CASE SaveStep
  BY <1>3
  DEF SaveStep, SaveSucceeds, FinishSave, SaveGroupSucceeds, FinishGroup, SaveStops,
      ReceiveRefusal, ReceiveNothing, RefuseUncertainCreates, StopSave, SaveAdvances,
      SkipHandled, ReceiveOk
<1>4. CASE UploadStep
  BY <1>4
  DEF UploadStep, ReadVersions, CheckFails, CheckIsStale, CheckFindsConflict, Claim,
      UploadRestores, Restore, UploadStarts, StartNativeSave, UploadGivesUp, UploadReturns,
      providerVars
<1>5. CASE WorldStep
  BY <1>5 DEF WorldStep, ForeignEdit, OtherSessionDeletes, Crash, LayerLoads, providerVars
<1> QED
  BY <1>1, <1>2, <1>3, <1>4, <1>5 DEF Next

\* What was never sent stays so but for its own Send.
LEMMA UnsentStays ==
    ASSUME CopyInv, Next, NEW e \in Edits, Unsent(e)
    PROVE  Unsent(e)' \/ (Send(e) /\ UNCHANGED journalVars)
<1> USE DEF Unsent, OnServer
<1>1. CASE UNCHANGED <<wire, rows, applied>>
  BY <1>1
<1>2. ASSUME NEW r \in wire, ServerApplies(r) \/ ServerRefuses(r) \/ RequestLost(r)
      PROVE  Unsent(e)'
  <2>1. r.edit # e /\ wire' \subseteq wire
    BY <1>2 DEF ServerApplies, ServerRefuses, RequestLost
  <2>2. e \in Creates => rows[e] = rows'[e]
    BY <1>2, <2>1, CopyTypes
    DEF ServerApplies, ServerRefuses, RequestLost, JournalInv, BufferInv, TypeOK
  <2>3. e \in applied' => e \in applied
    BY <1>2, <2>1 DEF ServerApplies, ServerRefuses, RequestLost
  <2> QED
    BY <2>1, <2>2, <2>3
<1>3. ASSUME NEW f \in Edits, Send(f), f # e PROVE Unsent(e)'
  <2>1. wire' = wire \cup {RequestFor(f)} /\ UNCHANGED <<rows, applied>>
    BY <1>3 DEF Send
  <2>2. RequestFor(f).edit = f
    BY DEF RequestFor
  <2> QED
    BY <1>3, <2>1, <2>2
<1> QED
  BY <1>1, <1>2, <1>3, WireKind DEF ServerStep

LEMMA ReviewedGrows == ASSUME Next PROVE reviewed \subseteq reviewed'
BY NextIs
DEF Plain, Edit, UndoEdit, SaveGroupSucceeds, SaveStops, SaveAdvances, BeginCheck, ReadVersions,
    CheckFails, CheckIsStale, Claim, ForeignEdit, SwitchAccount, journalVars, Flush, Save,
    UploadStarts, UploadGivesUp, Discard, SaveSucceeds, EmptySave, AfterCommitReturns,
    UploadReturns, CheckFindsConflict, Restores, UploadRestores, RestoreForReview, Reloads,
    Crash, ReopenProject, DeleteCopy, OtherSessionDeletes

\* A sent edit is open in a Save under way.
LEMMA SentIsOpen ==
    ASSUME CopyInv, NEW e, Send(e)
    PROVE  e \in buffer /\ e \in used /\ stage # "idle" /\ awaited = None
BY CopyTypes DEF Send, JournalInv, BufferInv, Committing

LEMMA ClearedStays ==
    ASSUME CopyInv, Next, NEW e \in Edits, Cleared(e)
    PROVE  Clear(e)' /\ (Ongoing => Cleared(e)')
<1>1. CASE e \in reviewed
  BY <1>1, ReviewedGrows DEF Clear, Cleared
<1>2. CASE e \notin reviewed
  <2>1. stage = "idle" /\ Unsent(e)
    BY <1>2 DEF Clear, Cleared
  <2>2. Unsent(e)'
    BY <2>1, UnsentStays, SentIsOpen
  <2> QED
    BY <2>1, <2>2 DEF Clear, Cleared, Ongoing
<1> QED
  BY <1>1, <1>2

LEMMA NewStays ==
    ASSUME CopyInv, NewIsClear, Next, NEW e \in Edits \ used
    PROVE  Unsent(e)'
<1>1. Unsent(e)
  BY DEF NewIsClear
<1> QED
  BY <1>1, UnsentStays, SentIsOpen

LEMMA NewStep ==
    ASSUME CopyInv, NewIsClear, Next
    PROVE  NewIsClear'
<1>1. used \subseteq used'
  <2>1. CASE [ProviderNext]_providerVars
    BY <2>1
    DEF ProviderNext, providerVars, UserStep, Draw, Undo, Retouch, Revert, RollBack,
        StartNativeSave, ProviderStep, FinishGroup, FinishSave, SkipHandled, Send,
        RefuseUncertainCreates, ReceiveOk, ReceiveRefusal, ReceiveNothing, StopSave,
        ServerStep, ServerApplies, ServerRefuses, RequestLost
  <2>2. CASE EmptySave \/ UploadGivesUp \/ Restores \/ Reloads
    BY <2>2 DEF EmptySave, UploadGivesUp, Restores, UploadRestores, RestoreForReview, Restore,
                Reloads, Crash, ReopenProject, LayerLoads
  <2> QED
    BY <2>1, <2>2, ProviderOrElse
<1> QED
  BY <1>1, NewStays DEF NewIsClear

\* Edits of a copy that may upload itself are not sent but by that upload.
LEMMA PendingIsNotSent ==
    ASSUME CopyInv, BufferIsSecured, BufferIsCopied, NEW e \in Edits, Send(e),
           NEW d \in Docs, ~Stale(d), disk[d].state = "pending", e \in Holding(disk[d])
    PROVE  e \in reviewed
<1>1. e \in buffer /\ stage # "idle"
  BY SentIsOpen
<1>2. e \in reviewed \/ mine.doc = d
  BY <1>1 DEF BufferIsCopied
<1>3. mine.doc = d => mine.copy.state = "pending"
  BY CopyTypes DEF CopyInv, OwnCopyKept
<1>4. Secured(e) \/ e \in reviewed
  BY <1>1 DEF BufferIsSecured, Cleared
<1> QED
  BY <1>2, <1>3, <1>4 DEF Secured

LEMMA PendingStaysClear ==
    ASSUME RecoveryInv, Next, NEW d \in Docs, ~Stale(d), disk[d].state = "pending",
           NEW e \in Holding(disk[d])
    PROVE  Clear(e)'
<1>1. e \in Edits /\ Clear(e)
  BY HoldingFits DEF RecoveryInv, PendingIsClear
<1>2. CASE e \in reviewed
  BY <1>2, ReviewedGrows DEF Clear
<1>3. CASE e \notin reviewed
  <2>1. ~Send(e)
    BY <1>1, <1>3, PendingIsNotSent DEF RecoveryInv
  <2> QED
    BY <1>1, <1>3, <2>1, UnsentStays DEF RecoveryInv, Clear
<1> QED
  BY <1>2, <1>3

\* What is written to a pending copy, or to one that opens as pending, is clear.
LEMMA UnsecuredIsClear ==
    ASSUME BufferIsSecured, NEW e \in buffer,
           Adopted => /\ mine.copy.state = "pending" /\ ~Stale(mine.doc)
                      /\ disk[mine.doc].state # "absent",
           ~Adopted => ~Orphaned
    PROVE  Cleared(e)
BY DEF BufferIsSecured, Secured, Adopted

-----------------------------------------------------------------------------
(* Each part of RecoveryInv under each kind of step. *)

\* A refused first attempt left nothing of the copy on the server or on its way there.
LEMMA ReleasedIsClear ==
    ASSUME RecoveryInv, Released, ~Stale(mine.doc), NEW e \in Holding(mine.copy)
    PROVE  Cleared(e)
BY CopyTypes
DEF RecoveryInv, FirstAttempt, Attempting, Accounted, Released, Turns, RefusedOutright, SaveRefusal, Cleared, Clear

LEMMA PendingStep ==
    ASSUME RecoveryInv, JournalIsWritten, Next
    PROVE  PendingIsClear'
<1> SUFFICES ASSUME NEW d \in Docs, ~Stale(d)', disk'[d].state = "pending",
                    NEW e \in Holding(disk'[d])
             PROVE  Clear(e)'
  BY DEF PendingIsClear
<1> USE DEF SameFiles, SameFile, OtherFiles
<1>0. ~Stale(d) /\ CopyInv /\ BufferIsSecured
  BY SyncKind DEF RecoveryInv
<1>1. CASE SameFile(d)
  BY <1>0, <1>1, PendingStaysClear
<1>2. ASSUME Writes, mine'.doc = d, Adopted => mine.doc = d /\ mine.copy.state = "pending",
             Adopted => disk[d].state # "absent", ~Adopted => ~Orphaned
      PROVE  Clear(e)'
  <2>1. e \in buffer
    BY <1>2 DEF Writes
  <2>2. Cleared(e) /\ e \in Edits
    BY <1>0, <1>2, <2>1, UnsecuredIsClear, CopyTypes
  <2> QED
    BY <1>0, <2>2, ClearedStays
<1>3. CASE Adopts
  <2>1. CASE d = mine.doc
    <3>1. mine'.copy.state = "pending"
      BY <1>3, <2>1 DEF Adopts, Writes
    <3>2. mine.copy.state = "pending"
      BY <1>3, <3>1 DEF Adopts
    <3> QED
      BY <1>2, <1>3, <2>1, <3>2 DEF Adopts
  <2>2. CASE d # mine.doc
    BY <1>1, <1>3, <2>2 DEF Adopts
  <2> QED
    BY <2>1, <2>2
<1>4. CASE Opens
  <2>1. CASE d = issued + 1
    <3>1. mine'.doc = d /\ mine'.copy.state = "pending"
      BY <1>4, <2>1 DEF Opens, Writes
    <3> QED
      BY <1>2, <1>4, <3>1 DEF Opens
  <2>2. CASE d # issued + 1
    BY <1>1, <1>4, <2>2 DEF Opens
  <2> QED
    BY <2>1, <2>2
<1>5. CASE Released
  <2>1. CASE d = mine.doc
    <3>1. e \in Holding(mine.copy) /\ e \in Edits
      BY <1>0, <1>5, <2>1, HoldingFits DEF Released, Turns
    <3>2. Cleared(e)
      BY <1>0, <1>5, <2>1, <3>1, ReleasedIsClear
    <3> QED
      BY <1>0, <3>1, <3>2, ClearedStays
  <2>2. CASE d # mine.doc
    BY <1>1, <1>5, <2>2 DEF Released, Turns
  <2> QED
    BY <2>1, <2>2
<1>6. CASE Conflicted
  BY <1>1, <1>6 DEF Conflicted, Turns
<1>7. CASE Stays \/ LetGo \/ StillHeld \/ RestoredHeld \/ Reloaded
  BY <1>1, <1>7 DEF Stays, LetGo, StillHeld, RestoredHeld, Reloaded
<1>8. ASSUME NEW x \in Docs, Dropped(x) PROVE Clear(e)'
  BY <1>1, <1>8 DEF Dropped
<1>9. ASSUME NEW x \in Docs, Restored(x) PROVE Clear(e)'
  BY <1>1, <1>9 DEF Restored
<1> QED
  BY <1>0, <1>3, <1>4, <1>5, <1>6, <1>7, <1>8, <1>9, KindOf DEF Kinds

LEMMA SecuredStep ==
    ASSUME RecoveryInv, JournalIsWritten, Next
    PROVE  BufferIsSecured'
<1> SUFFICES ASSUME NEW e \in buffer'
             PROVE  Secured(e)' \/ Cleared(e)'
  BY DEF BufferIsSecured
<1> USE DEF SameFiles, SameFile, OtherFiles, SameOwn
<1>0. /\ CopyInv /\ (\A d : Stale(d) => Stale(d)')
      /\ (e \in buffer => e \in Edits /\ (Secured(e) \/ Cleared(e)))
      /\ NoDoc \notin Docs /\ mine.doc \in Docs \cup {NoDoc}
  BY SyncKind, CopyTypes DEF RecoveryInv, BufferIsSecured
<1>1. ASSUME e \in buffer, Cleared(e), Ongoing PROVE Cleared(e)'
  BY <1>0, <1>1, ClearedStays
<1>2. CASE Stays
  <2>1. CASE e \in buffer
    <3>1. Secured(e) => Secured(e)'
      BY <1>0, <1>2 DEF Stays, Secured
    <3> QED
      BY <1>0, <1>1, <1>2, <2>1, <3>1 DEF Stays
  <2>2. CASE e \notin buffer
    <3>1. e \in Edits \ used /\ stage' = "idle"
      BY <1>2, <2>2 DEF Stays
    <3>2. Unsent(e)'
      BY <3>1, NewStays DEF RecoveryInv
    <3> QED
      BY <3>1, <3>2 DEF Cleared, Clear
  <2> QED
    BY <2>1, <2>2
<1>3. CASE StillHeld
  BY <1>0, <1>3 DEF StillHeld, Secured
<1>4. CASE Adopts \/ Opens
  <2>1. e \in buffer /\ mine'.doc # NoDoc /\ e \in Holding(mine'.copy) /\ Writes
    BY <1>0, <1>4 DEF Adopts, Opens, Writes
  <2>2. CASE mine'.copy.state # "pending"
    BY <2>1, <2>2 DEF Secured
  <2>3. CASE mine'.copy.state = "pending"
    <3>1. Adopted => mine.copy.state = "pending" /\ disk[mine.doc].state # "absent" /\ ~Stale(mine.doc)
      BY <1>4, <2>3 DEF Adopts, Opens, Writes
    <3>2. ~Adopted => ~Orphaned
      BY <1>4, <2>3 DEF Adopts, Opens
    <3>3. Cleared(e)
      BY <2>1, <3>1, <3>2, UnsecuredIsClear DEF RecoveryInv
    <3>4. Ongoing
      BY <2>1, <2>3 DEF Writes
    <3> QED
      BY <1>1, <2>1, <3>3, <3>4
  <2> QED
    BY <2>2, <2>3
<1>5. CASE Released
  <2>1. e \in buffer /\ Ongoing /\ mine.doc \in Docs /\ mine'.doc = mine.doc
    BY <1>5 DEF Released, Turns
  <2>2. CASE Stale(mine.doc)
    BY <1>0, <2>1, <2>2 DEF Secured
  <2>3. CASE ~Stale(mine.doc) /\ e \in Holding(mine.copy)
    BY <1>1, <1>5, <2>1, <2>3, ReleasedIsClear
  <2>4. CASE ~Stale(mine.doc) /\ e \notin Holding(mine.copy)
    <3>1. ~Secured(e)
      BY <1>5, <2>4 DEF Released, Turns, Secured
    <3> QED
      BY <1>0, <1>1, <2>1, <3>1
  <2> QED
    BY <2>2, <2>3, <2>4
<1>6. CASE Conflicted
  <2>1. e \in buffer /\ Ongoing
    BY <1>6 DEF Conflicted, Turns
  <2>2. ~Secured(e)
    BY <1>6 DEF Conflicted, Turns, Secured, Stale
  <2> QED
    BY <1>0, <1>1, <2>1, <2>2
<1>7. CASE LetGo \/ Reloaded
  BY <1>7 DEF LetGo, Reloaded
<1>8. CASE RestoredHeld
  BY <1>8 DEF RestoredHeld, Cleared, Clear
<1>9. ASSUME NEW d \in Docs, Dropped(d) PROVE Secured(e)' \/ Cleared(e)'
  <2>1. e \in buffer /\ Ongoing /\ SameOwn /\ OtherFiles(d) /\ disk'[d].state = "absent"
    BY <1>9 DEF Dropped
  <2>2. Secured(e) => Secured(e)'
    BY <1>0, <2>1 DEF Secured
  <2> QED
    BY <1>0, <1>1, <2>1, <2>2
<1>10. ASSUME NEW d \in Docs, Restored(d) PROVE Secured(e)' \/ Cleared(e)'
  <2>1. /\ mine'.doc = d /\ mine'.copy.state = disk[d].state /\ e \in Holding(disk[d])
        /\ Holding(mine'.copy) = Holding(disk[d]) /\ stage' = "idle" /\ ~Stale(d)
    BY <1>10 DEF Restored
  <2>2. CASE disk[d].state = "pending"
    BY <2>1, <2>2, PendingStaysClear DEF Cleared
  <2>3. CASE disk[d].state # "pending"
    BY <1>0, <2>1, <2>3 DEF Secured
  <2> QED
    BY <2>2, <2>3
<1> QED
  BY <1>0, <1>2, <1>3, <1>4, <1>5, <1>6, <1>7, <1>8, <1>9, <1>10, KindOf DEF Kinds

LEMMA CopiedStep ==
    ASSUME RecoveryInv, JournalIsWritten, Next
    PROVE  BufferIsCopied'
<1> DEFINE OnDisk(d, e) == e \in reviewed' \/ (mine'.doc = d /\ mine'.bound /\ ~Stale(d)')
<1> SUFFICES ASSUME NEW e \in buffer'
             PROVE  /\ \A d \in Docs : e \in Holding(disk'[d]) => OnDisk(d, e)
                    /\ e \in Holding(mine'.copy) => e \in reviewed' \/ mine'.bound
  BY DEF BufferIsCopied
<1> DEFINE Goal == /\ \A d \in Docs : e \in Holding(disk'[d]) => OnDisk(d, e)
                   /\ e \in Holding(mine'.copy) => e \in reviewed' \/ mine'.bound
<1> USE DEF SameFiles, SameFile, OtherFiles, SameOwn
<1>0. /\ CopyInv /\ BufferIsCopied /\ reviewed \subseteq reviewed'
      /\ (~Crash => \A d : Stale(d)' => Stale(d))
      /\ NoDoc \notin Docs /\ mine.doc \in Docs \cup {NoDoc}
  BY SyncKind, CopyTypes, ReviewedGrows DEF RecoveryInv
<1>1. CASE Crash
  BY <1>1 DEF Crash, LayerLoads
<1>2. CASE Stays /\ ~Crash
  <2>1. CASE e \in buffer
    BY <1>0, <1>2, <2>1 DEF Stays, BufferIsCopied
  <2>2. CASE e \notin buffer
    <3>1. e \notin used
      BY <1>2, <2>2 DEF Stays
    <3> QED
      BY <1>0, <1>2, <3>1, HoldingFits DEF Stays
  <2> QED
    BY <2>1, <2>2
<1>3. CASE StillHeld /\ ~Crash
  BY <1>0, <1>3 DEF StillHeld, BufferIsCopied
<1>4. CASE Adopts /\ ~Crash
  BY <1>0, <1>4 DEF Adopts, Writes, BufferIsCopied
<1>5. CASE Opens /\ ~Crash
  <2> PICK new \in Docs : new = issued + 1
    BY <1>5 DEF Opens, Writes
  <2>1. e \in buffer /\ mine'.doc = new /\ mine'.bound /\ ~Stale(new)'
    BY <1>0, <1>5 DEF Opens, Writes
  <2>2. mine.doc # NoDoc => ~mine.bound
    BY <1>5 DEF Opens, Adopted, Orphaned
  <2>3. ASSUME NEW d \in Docs, e \in Holding(disk'[d]), d # new PROVE e \in reviewed
    BY <1>0, <1>5, <2>1, <2>2, <2>3 DEF Opens, BufferIsCopied
  <2> QED
    BY <1>0, <2>1, <2>3
<1>6. CASE (Released \/ Conflicted) /\ ~Crash
  <2>1. CASE Released
    <3>1. Holding(disk[mine.doc]) = Holding(mine.copy)
      BY <1>0, <2>1 DEF Released, Turns, CopyInv, OwnCopyKept
    <3> QED
      BY <1>0, <1>6, <2>1, <3>1 DEF Released, Turns, BufferIsCopied
  <2>2. CASE Conflicted
    <3>1. Holding(disk[mine.doc]) = Holding(mine.copy)
      BY <1>0, <2>2 DEF Conflicted, Turns, CopyInv, OwnCopyKept
    <3> QED
      BY <1>0, <1>6, <2>2, <3>1 DEF Conflicted, Turns, BufferIsCopied
  <2> QED
    BY <1>6, <2>1, <2>2
<1>7. CASE LetGo \/ Reloaded
  BY <1>7 DEF LetGo, Reloaded
<1>8. CASE RestoredHeld
  BY <1>8 DEF RestoredHeld
<1>9. ASSUME NEW d \in Docs, Dropped(d), ~Crash PROVE Goal
  <2>1. e \in buffer /\ SameOwn /\ mine'.bound = mine.bound
    BY <1>9 DEF Dropped
  <2>2. \A x \in Docs : e \in Holding(disk'[x]) => e \in Holding(disk[x])
    BY <1>9 DEF Dropped
  <2> QED
    BY <1>0, <1>9, <2>1, <2>2 DEF BufferIsCopied
<1>10. ASSUME NEW d \in Docs, Restored(d), ~Crash PROVE Goal
  <2>1. /\ mine'.doc = d /\ mine'.bound /\ ~Stale(d)' /\ e \in Holding(disk[d])
        /\ \A x \in Docs : Holding(disk'[x]) = Holding(disk[x])
    BY <1>0, <1>10 DEF Restored
  <2>2. \A x \in Docs \ {d} : e \in Holding(disk[x]) => e \in reviewed
    BY <2>1 DEF RecoveryInv, CopiesAreApart
  <2> QED
    BY <1>0, <2>1, <2>2
<1> QED
  BY <1>0, <1>1, <1>2, <1>3, <1>4, <1>5, <1>6, <1>7, <1>8, <1>9, <1>10, KindOf DEF Kinds

LEMMA ApartStep ==
    ASSUME RecoveryInv, JournalIsWritten, Next
    PROVE  CopiesAreApart'
<1> SUFFICES ASSUME NEW d1 \in Docs, NEW d2 \in Docs, d1 # d2, NEW e \in Holding(disk'[d2]),
                    e \in Holding(disk'[d1]) \/ (mine'.doc = d1 /\ e \in Holding(mine'.copy))
             PROVE  e \in reviewed'
  BY DEF CopiesAreApart
<1> USE DEF SameFiles, SameFile, OtherFiles, SameOwn
<1>0. /\ CopyInv /\ BufferIsCopied /\ CopiesAreApart /\ reviewed \subseteq reviewed'
      /\ NoDoc \notin Docs /\ mine.doc \in Docs \cup {NoDoc}
  BY CopyTypes, ReviewedGrows DEF RecoveryInv
<1>1. CASE Stays \/ LetGo \/ StillHeld \/ RestoredHeld
  BY <1>0, <1>1 DEF Stays, LetGo, StillHeld, RestoredHeld, CopiesAreApart
<1>2. CASE Adopts
  BY <1>0, <1>2 DEF Adopts, Writes, CopiesAreApart, BufferIsCopied
<1>3. CASE Opens
  <2>1. mine.doc # NoDoc => ~mine.bound
    BY <1>3 DEF Opens, Adopted, Orphaned
  <2>2. ASSUME NEW d \in Docs, e \in Holding(disk'[d]), d # issued + 1, e \in buffer
        PROVE  e \in reviewed
    BY <1>0, <1>3, <2>1, <2>2 DEF Opens, BufferIsCopied
  <2>3. \A d \in Docs \ {issued + 1} :
            \/ Holding(disk'[d]) = Holding(disk[d])
            \/ d = mine.doc /\ Holding(disk'[d]) = Holding(mine.copy)
    BY <1>3 DEF Opens
  <2>4. mine'.doc = issued + 1 /\ Holding(mine'.copy) = buffer /\ Holding(disk'[issued + 1]) = buffer
    BY <1>3 DEF Opens, Writes
  <2>5. CASE d1 = issued + 1 \/ d2 = issued + 1
    BY <1>0, <2>2, <2>4, <2>5
  <2>6. CASE d1 # issued + 1 /\ d2 # issued + 1
    BY <1>0, <2>3, <2>4, <2>6 DEF CopiesAreApart
  <2> QED
    BY <2>5, <2>6
<1>4. CASE Released \/ Conflicted
  BY <1>0, <1>4 DEF Released, Conflicted, Turns, CopiesAreApart
<1>5. CASE Reloaded
  BY <1>0, <1>5 DEF Reloaded, CopiesAreApart
<1>6. ASSUME NEW d \in Docs, Dropped(d) PROVE e \in reviewed'
  BY <1>0, <1>6 DEF Dropped, CopiesAreApart
<1>7. ASSUME NEW d \in Docs, Restored(d) PROVE e \in reviewed'
  BY <1>0, <1>7 DEF Restored, CopiesAreApart
<1> QED
  BY <1>0, <1>1, <1>2, <1>3, <1>4, <1>5, <1>6, <1>7, KindOf DEF Kinds

-----------------------------------------------------------------------------
(* The requests of a first attempt. *)

LEMMA UploadGoesOn ==
    ASSUME CopyInv, Next, Uploading'
    PROVE  Uploading \/ UploadStarts
<1> USE DEF Uploading
<1>1. CASE PersonStep
  <2>1. CASE Save
    BY <2>1 DEF Save
  <2>2. ASSUME NEW d \in Docs, RestoreForReview(d) \/ DeleteCopy(d) PROVE Uploading
    BY <2>2 DEF RestoreForReview, Restore, DeleteCopy, providerVars
  <2>3. CASE Edit \/ UndoEdit \/ Discard \/ EmptySave
    BY <2>3 DEF Edit, Draw, Retouch, Revert, UndoEdit, Undo, Discard, RollBack, EmptySave
  <2>4. CASE BeginCheck \/ SwitchAccount \/ ReopenProject
    BY <2>4 DEF BeginCheck, SwitchAccount, ReopenProject, LayerLoads, providerVars
  <2> QED
    BY <1>1, <2>1, <2>2, <2>3, <2>4 DEF PersonStep
<1>2. CASE TimerStep
  BY <1>2 DEF TimerStep, Flush, AfterCommitReturns, providerVars
<1>3. CASE SaveStep
  BY <1>3
  DEF SaveStep, SaveSucceeds, FinishSave, GroupHandled, SaveGroupSucceeds, FinishGroup,
      SaveStops, ReceiveRefusal, ReceiveNothing, RefuseUncertainCreates, StopSave,
      SaveAdvances, SkipHandled, Send, ReceiveOk, journalVars
<1>4. CASE UploadStep /\ ~UploadStarts
  BY <1>4
  DEF UploadStep, ReadVersions, CheckFails, CheckIsStale, CheckFindsConflict, Claim,
      UploadRestores, Restore, UploadGivesUp, UploadReturns, providerVars
<1>5. CASE WorldStep
  BY <1>5
  DEF WorldStep, ForeignEdit, OtherSessionDeletes, Crash, ServerStep, ServerApplies,
      ServerRefuses, RequestLost, journalVars, providerVars
<1> QED
  BY <1>1, <1>2, <1>3, <1>4, <1>5 DEF Next

LEMMA UploadCopiedStep ==
    ASSUME RecoveryInv, JournalIsWritten, Next
    PROVE  UploadIsCopied'
<1> SUFFICES ASSUME Uploading' PROVE buffer' \subseteq Holding(mine'.copy)
  BY DEF UploadIsCopied
<1> USE DEF SameOwn
<1>0. CopyInv /\ stage' # "idle"
  BY DEF RecoveryInv, Uploading
<1>1. CASE UploadStarts
  BY <1>0, <1>1, UploadStartsKind DEF Adopts, Writes
<1>2. CASE Uploading
  <2>1. buffer \subseteq Holding(mine.copy) /\ stage # "idle"
    BY <1>2 DEF RecoveryInv, UploadIsCopied, Uploading
  <2>2. CASE Stays \/ LetGo \/ StillHeld
    BY <1>0, <2>1, <2>2 DEF Stays, LetGo, StillHeld
  <2>3. CASE Adopts \/ Opens
    BY <2>3 DEF Adopts, Opens, Writes
  <2>4. CASE Released \/ Conflicted
    BY <2>1, <2>4 DEF Released, Conflicted, Turns
  <2>5. CASE RestoredHeld \/ Reloaded
    BY <1>0, <2>5 DEF RestoredHeld, Reloaded
  <2>6. ASSUME NEW d \in Docs, Dropped(d) \/ Restored(d)
        PROVE  buffer' \subseteq Holding(mine'.copy)
    BY <1>0, <2>1, <2>6 DEF Dropped, Restored
  <2> QED
    BY <1>0, <2>2, <2>3, <2>4, <2>5, <2>6, KindOf DEF Kinds
<1> QED
  BY <1>0, <1>1, <1>2, UploadGoesOn

LEMMA NoRefusalStep ==
    ASSUME CopyInv, NoRefusal, Next
    PROVE  NoRefusal'
<1> USE DEF NoRefusal
<1>1. CASE UserStep
  BY <1>1 DEF UserStep, Draw, Undo, Retouch, Revert, RollBack, StartNativeSave
<1>2. CASE ProviderStep
  BY <1>2
  DEF ProviderStep, FinishGroup, GroupHandled, FinishSave, SkipHandled, Send,
      RefuseUncertainCreates, ReceiveOk, ReceiveRefusal, ReceiveNothing, StopSave
<1>3. CASE ServerStep \/ UNCHANGED providerVars
  BY <1>3 DEF ServerStep, ServerApplies, ServerRefuses, RequestLost, providerVars
<1>4. CASE EmptySave \/ UploadGivesUp \/ Restores \/ Reloads
  BY <1>4 DEF EmptySave, UploadGivesUp, Restores, UploadRestores, RestoreForReview, Restore,
              Reloads, Crash, ReopenProject, LayerLoads
<1> QED
  BY <1>1, <1>2, <1>3, <1>4, ProviderOrElse DEF ProviderNext

\* An answer settles the one request for e.
LEMMA InFlightServerStep ==
    ASSUME CopyInv, ServerStep, NEW e \in Edits, awaited = e, InFlight(e)
    PROVE  InFlight(e)'
<1> USE DEF InFlight, Unsent, OnServer, Answer
<1>0. rows \in [Creates -> Nat] /\ UNCHANGED <<awaited, saves>>
  BY CopyTypes
  DEF JournalInv, BufferInv, TypeOK, ServerStep, ServerApplies, ServerRefuses, RequestLost
<1>1. ASSUME NEW r \in wire, r.edit = e,
             ServerApplies(r) \/ ServerRefuses(r) \/ RequestLost(r)
      PROVE  InFlight(e)'
  <2>1. /\ r.save = saves /\ reply = "none" /\ ~OnServer(e)
        /\ wire' = wire \ {r} /\ \A s \in wire' : s.edit # e
    BY <1>1 DEF ServerApplies, ServerRefuses, RequestLost
  <2>2. CASE ServerApplies(r)
    <3>1. reply' = "ok"
      BY <1>1, <2>1, <2>2 DEF ServerApplies
    <3> QED
      BY <2>1, <3>1
  <2>3. CASE ServerRefuses(r) \/ RequestLost(r)
    <3>1. UNCHANGED <<rows, applied>>
      BY <2>3 DEF ServerRefuses, RequestLost
    <3> QED
      BY <2>1, <3>1
  <2> QED
    BY <1>1, <2>2, <2>3
<1>2. ASSUME NEW r \in wire, r.edit # e,
             ServerApplies(r) \/ ServerRefuses(r) \/ RequestLost(r)
      PROVE  InFlight(e)'
  <2>1. reply' = reply /\ wire' \subseteq wire
    BY <1>2 DEF ServerApplies, ServerRefuses, RequestLost
  <2>2. (e \in Creates => rows'[e] = rows[e]) /\ (e \in applied' => e \in applied)
    BY <1>0, <1>2 DEF ServerApplies, ServerRefuses, RequestLost
  <2> QED
    BY <1>0, <2>1, <2>2
<1> QED
  BY <1>1, <1>2 DEF ServerStep

LEMMA AccountedStays ==
    ASSUME CopyInv, NoRefusal, Next, Ongoing, ~wrote', NEW e \in Edits, Accounted(e)
    PROVE  Accounted(e)'
<1> SUFFICES ASSUME e \notin reviewed, e \notin reviewed' PROVE Accounted(e)'
  BY ReviewedGrows DEF Accounted
<1> USE DEF Accounted
<1>0. None # e
  BY EditsAssumption DEF Edits
<1>1. CASE ServerStep /\ UNCHANGED journalVars
  <2>1. UNCHANGED <<stage, awaited, refusal>>
    BY <1>1 DEF ServerStep, ServerApplies, ServerRefuses, RequestLost
  <2>2. Unsent(e) => Unsent(e)'
    BY <1>1, UnsentStays, SentIsOpen DEF ServerStep, ServerApplies, ServerRefuses, RequestLost, Send
  <2> QED
    BY <1>1, <2>1, <2>2, InFlightServerStep
<1>2. ASSUME NEW f \in Edits, Send(f) PROVE Accounted(e)'
  <2>1. /\ stage # "idle" /\ stage' = stage /\ awaited = None /\ awaited' = f
        /\ Unsent(e)
    BY <1>0, <1>2, SentIsOpen DEF Send
  <2>2. CASE f = e
    <3>1. wire' = wire \cup {RequestFor(e)} /\ reply' = "none" /\ UNCHANGED <<rows, applied, saves>>
      BY <1>2, <2>2 DEF Send
    <3>2. RequestFor(e).edit = e /\ RequestFor(e).save = saves
      BY DEF RequestFor
    <3>3. InFlight(e)'
      BY <2>1, <3>1, <3>2 DEF InFlight, Unsent, OnServer
    <3> QED
      BY <2>1, <2>2, <3>3
  <2>3. CASE f # e
    <3>1. Unsent(e)'
      BY <1>2, <2>1, <2>3, UnsentStays DEF Send
    <3> QED
      BY <2>1, <2>3, <3>1
  <2> QED
    BY <2>2, <2>3
<1>3. CASE UNCHANGED <<wire, rows, applied>> /\ ProviderStep
  <2>1. Unsent(e) => Unsent(e)'
    BY <1>3 DEF Unsent, OnServer
  <2>2. CASE FinishGroup
    BY <1>0, <2>1, <2>2 DEF FinishGroup, GroupHandled, NextStage
  <2>3. CASE FinishSave \/ ReceiveOk
    BY <2>3 DEF FinishSave, ReceiveOk
  <2>4. CASE \E f \in Edits : SkipHandled(f) \/ Send(f)
    BY <1>0, <1>2, <2>1, <2>4 DEF SkipHandled
  <2>5. CASE RefuseUncertainCreates \/ ReceiveNothing
    <3>1. stage # "idle"
      BY <2>5, CopyTypes
      DEF RefuseUncertainCreates, ReceiveNothing, JournalInv, BufferInv, Committing
    <3> QED
      BY <2>5, <3>1 DEF RefuseUncertainCreates, ReceiveNothing, StopSave, NoRefusal
  <2>6. CASE ReceiveRefusal
    <3>1. stage # "idle"
      BY <2>6, CopyTypes DEF ReceiveRefusal, JournalInv, BufferInv, Committing
    <3>2. Unsent(e)
      BY <2>6, <3>1 DEF ReceiveRefusal, InFlight
    <3> QED
      BY <2>1, <2>6, <3>2 DEF ReceiveRefusal, StopSave
  <2> QED
    BY <1>3, <2>2, <2>3, <2>4, <2>5, <2>6 DEF ProviderStep
<1>4. CASE UNCHANGED <<wire, rows, applied>> /\ (UserStep \/ UNCHANGED providerVars)
  <2>1. Unsent(e) => Unsent(e)'
    BY <1>4 DEF Unsent, OnServer
  <2>2. CASE StartNativeSave
    BY <2>2 DEF StartNativeSave, Ongoing
  <2>3. CASE UserStep /\ ~StartNativeSave
    BY <2>1, <2>3 DEF UserStep, Draw, Undo, Retouch, Revert, RollBack
  <2>4. CASE UNCHANGED providerVars
    BY <2>1, <2>4 DEF providerVars, InFlight, Unsent, OnServer
  <2> QED
    BY <1>4, <2>2, <2>3, <2>4
<1>5. CASE UNCHANGED <<wire, rows, applied>> /\ (EmptySave \/ UploadGivesUp \/ Restores \/ Reloads)
  <2>1. Unsent(e) => Unsent(e)'
    BY <1>5 DEF Unsent, OnServer
  <2>2. CASE EmptySave \/ Reloads
    BY <2>2 DEF EmptySave, Reloads, Crash, ReopenProject, LayerLoads
  <2>3. CASE UploadGivesUp
    <3>1. UNCHANGED stage /\ stage = "idle" /\ (refusal' => refusal)
      BY <2>3, CopyTypes DEF UploadGivesUp, Claimed, JournalInv, Callers
    <3> QED
      BY <2>1, <3>1
  <2>4. CASE Restores
    <3>1. UNCHANGED <<stage, refusal>> /\ stage = "idle"
      BY <2>4, CopyTypes
      DEF Restores, UploadRestores, RestoreForReview, Restore, Claimed, JournalInv, Callers
    <3> QED
      BY <2>1, <3>1
  <2> QED
    BY <1>5, <2>2, <2>3, <2>4
<1>6. UNCHANGED <<wire, rows, applied>> \/ (ServerStep /\ UNCHANGED journalVars)
      \/ \E f \in Edits : Send(f)
  BY WireKind
<1>7. CASE UNCHANGED <<wire, rows, applied>>
  <2>1. ~ServerStep
    BY <1>7 DEF ServerStep, ServerApplies, ServerRefuses, RequestLost
  <2> QED
    BY <1>3, <1>4, <1>5, <1>7, <2>1, ProviderOrElse DEF ProviderNext
<1> QED
  BY <1>1, <1>2, <1>6, <1>7

\* A Save that marks a copy which was pending starts with nothing of it sent.
LEMMA FirstAttemptStarts ==
    ASSUME RecoveryInv, Next, Save \/ UploadStarts, Adopts \/ Opens, Marked("none"), fresh',
           NEW e \in Holding(mine'.copy)
    PROVE  Accounted(e)'
<1>1. stage = "idle" /\ awaited' = None /\ stage' # "idle" /\ CopyInv /\ BufferIsSecured
  <2>1. awaited' = awaited /\ stage = "idle" /\ stage' = "changes"
    BY DEF Save, UploadStarts, StartNativeSave
  <2>2. awaited = None
    BY <2>1, CopyTypes DEF RecoveryInv, JournalInv, BufferInv, Committing
  <2> QED
    BY <2>1, <2>2 DEF RecoveryInv
<1>2. e \in buffer /\ e \in Edits /\ None \notin Edits
  BY <1>1, CopyTypes, EditsAssumption DEF Adopts, Opens, Writes, Edits
<1>3. OwnCopy.state = "pending"
  BY DEF Marked
<1>4. Adopted => mine.copy.state = "pending" /\ ~Stale(mine.doc) /\ disk[mine.doc].state # "absent"
  <2>1. Adopted => OwnCopy.state = mine.copy.state
    BY <1>1, CopyTypes, OwnCopyIs
  <2>2. Adopted => Adopts
    BY DEF Opens
  <2> QED
    BY <1>3, <2>1, <2>2 DEF Adopts, Writes
<1>5. ~Adopted => ~Orphaned
  BY <1>1, <1>3, CopyTypes, OwnCopyIs
<1>6. Clear(e)
  BY <1>1, <1>2, <1>4, <1>5, UnsecuredIsClear DEF Cleared
<1>7. CASE e \in reviewed
  BY <1>7, ReviewedGrows DEF Accounted
<1>8. CASE Unsent(e)
  <2>1. Unsent(e)'
    BY <1>1, <1>2, <1>8, UnsentStays, SentIsOpen
  <2> QED
    BY <1>1, <1>2, <2>1 DEF Accounted
<1> QED
  BY <1>6, <1>7, <1>8 DEF Clear

LEMMA FirstAttemptStep ==
    ASSUME RecoveryInv, JournalIsWritten, Next
    PROVE  FirstAttempt'
<1> SUFFICES ASSUME Attempting', NEW e \in Holding(mine'.copy)
             PROVE  Accounted(e)'
  BY DEF FirstAttempt
<1> USE DEF SameFiles, SameFile, OtherFiles, SameOwn
<1>0. /\ CopyInv /\ NoRefusal /\ (\A d : Stale(d) => Stale(d)')
      /\ NoDoc \notin Docs /\ mine.doc \in Docs \cup {NoDoc}
      /\ (Uploading' => Uploading \/ UploadStarts)
      /\ fresh' /\ ~wrote' /\ mine'.doc # NoDoc
  BY SyncKind, CopyTypes, UploadGoesOn DEF RecoveryInv, Attempting
<1>1. ASSUME e \in Holding(mine.copy), Attempting, Ongoing PROVE Accounted(e)'
  <2>1. Accounted(e) /\ e \in Edits
    BY <1>0, <1>1, HoldingFits DEF RecoveryInv, FirstAttempt
  <2> QED
    BY <1>0, <1>1, <2>1, AccountedStays
<1>2. ASSUME stage' = "idle", ~refusal' PROVE Accounted(e)'
  BY <1>2 DEF Accounted
<1>3. ASSUME mine'.doc = mine.doc PROVE ~Stale(mine.doc)
  BY <1>0, <1>3 DEF Attempting, Stale
<1>4. ASSUME SameOwn, disk'[mine.doc].state = disk[mine.doc].state \/ Uploading,
             Ongoing, fresh, ~wrote
      PROVE  Accounted(e)'
  <2>1. ~UploadStarts
    BY <1>4 DEF Ongoing, UploadStarts, StartNativeSave
  <2>2. Attempting
    BY <1>0, <1>3, <1>4, <2>1 DEF Attempting
  <2> QED
    BY <1>1, <1>4, <2>2
<1>5. ASSUME StillHeld PROVE FALSE
  BY <1>0, <1>3, <1>5 DEF StillHeld, Attempting
<1>6. CASE Save \/ UploadStarts
  BY <1>0, <1>5, <1>6, SaveKind, UploadStartsKind, FirstAttemptStarts
<1>7. CASE Plain
  <2>1. Stays /\ fresh
    BY <1>0, <1>7, PlainKind
  <2>2. ~wrote
    BY <1>0, <1>7
    DEF Plain, Edit, Draw, Retouch, Revert, UndoEdit, Undo, SaveGroupSucceeds, FinishGroup,
        SaveStops, ReceiveRefusal, ReceiveNothing, RefuseUncertainCreates, SaveAdvances,
        SkipHandled, Send, ReceiveOk, BeginCheck, ReadVersions, CheckFails, CheckIsStale, Claim,
        ForeignEdit, SwitchAccount, ServerStep, ServerApplies, ServerRefuses, RequestLost,
        providerVars
  <2> QED
    BY <1>0, <1>4, <2>1, <2>2 DEF Stays
<1>8. CASE Flush
  <2>1. fresh /\ ~wrote /\ UNCHANGED <<stage, caller, sync, buffer>> /\ Ongoing
    BY <1>0, <1>8 DEF Flush, providerVars, Ongoing
  <2>2. CASE Stays
    BY <1>0, <1>4, <2>1, <2>2 DEF Stays
  <2>3. CASE Adopts /\ mine'.copy.state = mine.copy.state
    <3>1. e \in buffer /\ e \in Edits
      BY <1>0, <2>3, CopyTypes DEF Adopts, Writes
    <3>2. /\ mine'.doc = mine.doc /\ mine.doc \in Docs /\ ~Stale(mine.doc)
          /\ disk'[mine.doc].state = mine'.copy.state
      BY <1>0, <2>3 DEF Adopts, Writes
    <3>3. CASE Uploading
      <4>1. e \in Holding(mine.copy)
        BY <3>1, <3>3 DEF RecoveryInv, UploadIsCopied
      <4>2. Attempting
        BY <1>0, <2>1, <3>2, <3>3 DEF Attempting
      <4> QED
        BY <1>1, <2>1, <4>1, <4>2
    <3>4. CASE ~Uploading
      <4>1. mine.copy.state = "uncertain" /\ disk[mine.doc].state # "absent"
        BY <1>0, <2>1, <2>3, <3>2, <3>4 DEF Attempting, Adopts, Uploading
      <4>2. Attempting
        BY <1>0, <2>1, <3>2, <4>1 DEF Attempting, CopyInv, OwnCopyKept
      <4>3. CASE e \in Holding(mine.copy)
        BY <1>1, <2>1, <4>2, <4>3
      <4>4. CASE e \notin Holding(mine.copy)
        <5>1. Cleared(e)
          BY <3>1, <3>2, <4>1, <4>4 DEF RecoveryInv, BufferIsSecured, Secured
        <5>2. Cleared(e)'
          BY <1>0, <2>1, <3>1, <5>1, ClearedStays
        <5> QED
          BY <5>2 DEF Cleared, Clear, Accounted
      <4> QED
        BY <4>3, <4>4
    <3> QED
      BY <3>3, <3>4
  <2>4. CASE Opens /\ mine'.copy.state # "uncertain"
    <3>1. ~Uploading
      BY <1>0, <2>4 DEF Opens, Adopted, Orphaned, Uploading, CopyInv, UploadInv, UploadIsMarked,
                        JournalInv, Callers, CheckHasCopy
    <3> QED
      BY <1>0, <2>1, <2>4, <3>1 DEF Attempting, Opens, Writes, Uploading
  <2>5. ASSUME NEW d \in Docs, Dropped(d) PROVE Accounted(e)'
    <3>1. SameOwn
      BY <1>0, <2>5 DEF Dropped
    <3>2. disk'[mine.doc].state = disk[mine.doc].state \/ Uploading
      BY <1>0, <2>1, <2>5, <3>1 DEF Dropped, Attempting, Uploading
    <3> QED
      BY <1>4, <2>1, <3>1, <3>2
  <2> QED
    BY <1>0, <1>5, <1>8, <2>2, <2>3, <2>4, <2>5, FlushKind
<1>9. CASE UploadGivesUp
  <2>1. stage' = "idle" /\ UNCHANGED stage
    BY <1>0, <1>9, GivesUpKind, CopyTypes DEF UploadGivesUp, Claimed, JournalInv, Callers
  <2> QED
    BY <1>0, <1>2, <1>4, <1>9, <2>1, GivesUpKind DEF Stays
<1>10. CASE Discard \/ Reloads
  BY <1>2, <1>10
  DEF Discard, RollBack, Reloads, Crash, ReopenProject, LayerLoads
<1>11. CASE SaveSucceeds \/ EmptySave
  BY <1>0, <1>11, FinishKind
<1>12. CASE AfterCommitReturns \/ UploadReturns
  <2>1. UNCHANGED wrote /\ ~Released
    BY <1>0, <1>12 DEF AfterCommitReturns, UploadReturns, providerVars, Released
  <2> QED
    BY <1>0, <1>4, <1>12, <2>1, JudgeKind DEF Stays
<1>13. CASE CheckFindsConflict
  <2>1. UNCHANGED <<fresh, wrote, stage, caller>> /\ sync.phase = "answered"
    BY <1>13 DEF CheckFindsConflict, providerVars
  <2>2. CASE Stays
    BY <1>0, <1>4, <2>1, <2>2 DEF Stays
  <2>3. CASE Conflicted
    <3>1. disk'[mine'.doc].state = "conflict"
      BY <2>3 DEF Conflicted, Turns
    <3>2. ~Uploading'
      BY <1>0, <2>1, CopyTypes DEF Uploading, JournalInv, Callers
    <3> QED
      BY <3>1, <3>2 DEF Attempting
  <2> QED
    BY <1>0, <1>13, <2>2, <2>3, ConflictKind
<1>14. CASE Restores
  <2>1. UNCHANGED <<fresh, wrote>>
    BY <1>14 DEF Restores, UploadRestores, RestoreForReview, Restore
  <2>2. CASE RestoredHeld
    BY <1>0, <1>4, <2>1, <2>2 DEF RestoredHeld, Ongoing
  <2>3. ASSUME NEW d \in Docs, Restored(d) PROVE Accounted(e)'
    <3>1. disk[d].state = "uncertain" /\ e \in Holding(disk[d])
      BY <1>0, <2>3 DEF Attempting, Restored, Uploading
    <3> QED
      BY <2>3, <3>1 DEF Restored, Accounted
  <2> QED
    BY <1>0, <1>14, <2>2, <2>3, RestoreKind
<1>15. CASE \E d \in Docs : DeleteCopy(d) \/ OtherSessionDeletes(d)
  <2>1. UNCHANGED <<fresh, wrote, stage, caller>> /\ Ongoing
    BY <1>15 DEF DeleteCopy, OtherSessionDeletes, providerVars, Ongoing
  <2>2. PICK d \in Docs : Dropped(d)
    BY <1>0, <1>15, DeleteKind
  <2>3. SameOwn
    BY <1>0, <2>2 DEF Dropped
  <2>4. disk'[mine.doc].state = disk[mine.doc].state \/ Uploading
    BY <1>0, <2>1, <2>2, <2>3 DEF Dropped, Attempting, Uploading
  <2> QED
    BY <1>0, <1>4, <2>1, <2>3, <2>4
<1> QED
  BY <1>6, <1>7, <1>8, <1>9, <1>10, <1>11, <1>12, <1>13, <1>14, <1>15, NextIs

-----------------------------------------------------------------------------
(* No copy that uploads itself holds what was sent. *)

LEMMA RecoveryInit == Init => RecoveryInv
<1> SUFFICES ASSUME Init PROVE RecoveryInv
  OBVIOUS
<1>1. CopyInv
  BY CopyInit
<1>2. buffer = {} /\ stage = "idle" /\ ~refusal /\ wire = {} /\ ~fresh
  BY DEF Init, ProviderInit
<1>3. \A e \in Edits : Unsent(e)
  BY DEF Unsent, OnServer, Init, ProviderInit
<1>4. \A d \in Docs : disk[d].state = "absent" /\ Holding(disk[d]) = {}
  BY AbsentIsTyped, HoldingIs DEF Init
<1> QED
  BY <1>1, <1>2, <1>3, <1>4
  DEF RecoveryInv, NewIsClear, PendingIsClear, BufferIsSecured, BufferIsCopied, CopiesAreApart,
      UploadIsCopied, Uploading, NoRefusal, FirstAttempt, Attempting

LEMMA RecoveryStays ==
    ASSUME RecoveryInv, CopyInv', UNCHANGED vars
    PROVE  RecoveryInv'
<1>1. /\ UNCHANGED <<buffer, used, saves, stage, awaited, reply, wire, rows, applied, wrote, refusal>>
      /\ UNCHANGED <<disk, locks, mine, fresh, caller, sync, reviewed>>
  BY DEF vars, providerVars, journalVars
<1> USE <1>1 DEF RecoveryInv, Clear, Unsent, OnServer, Stale, Uploading
<1>2. NewIsClear' /\ PendingIsClear'
  BY DEF NewIsClear, PendingIsClear
<1>3. BufferIsSecured'
  BY DEF BufferIsSecured, Secured, Cleared
<1>4. BufferIsCopied' /\ CopiesAreApart' /\ UploadIsCopied' /\ NoRefusal'
  BY DEF BufferIsCopied, CopiesAreApart, UploadIsCopied, NoRefusal
<1>5. FirstAttempt'
  BY DEF FirstAttempt, Attempting, Accounted, InFlight
<1> QED
  BY <1>2, <1>3, <1>4, <1>5

LEMMA RecoveryStep ==
    ASSUME RecoveryInv, JournalIsWritten, [Next]_vars
    PROVE  RecoveryInv'
<1>1. CopyInv'
  BY CopyStep DEF RecoveryInv
<1>2. CASE Next
  <2>1. NewIsClear' /\ NoRefusal'
    BY <1>2, NewStep, NoRefusalStep DEF RecoveryInv
  <2>2. PendingIsClear' /\ BufferIsSecured' /\ BufferIsCopied' /\ CopiesAreApart'
    BY <1>2, PendingStep, SecuredStep, CopiedStep, ApartStep
  <2>3. UploadIsCopied' /\ FirstAttempt'
    BY <1>2, UploadCopiedStep, FirstAttemptStep
  <2> QED
    BY <1>1, <2>1, <2>2, <2>3 DEF RecoveryInv
<1>3. CASE UNCHANGED vars
  BY <1>1, <1>3, RecoveryStays
<1> QED
  BY <1>2, <1>3

\* Where the journal can be written, RecoveryInv holds in every state: for any number of
\* edits, copies, accounts, Saves, crashes and other sessions.
THEOREM RecoveryIsSound ==
    ASSUME JournalIsWritten
    PROVE  Spec => []RecoveryInv
<1>1. Init => RecoveryInv
  BY RecoveryInit
<1>2. RecoveryInv /\ [Next]_vars => RecoveryInv'
  BY RecoveryStep
<1> QED
  BY <1>1, <1>2, PTL DEF Spec

\* A copy that uploads itself holds nothing the server has or may yet get, but for what a
\* person restored from a held or locked copy (snapshot, before_commit,
\* _warn_failed_save, save_refusal, claim).
THEOREM UploadsOnlyWhatIsUnsent ==
    ASSUME JournalIsWritten
    PROVE  Spec => []PendingIsUnsent
<1>1. ASSUME RecoveryInv PROVE PendingIsUnsent
  <2> SUFFICES ASSUME NEW d \in Docs \ locks, disk[d].state = "pending",
                      NEW e \in EditsOf(disk[d].ops)
               PROVE  e \in reviewed \/ Unsent(e)
    BY DEF PendingIsUnsent
  <2>1. ~Stale(d) /\ e \in Holding(disk[d])
    BY DEF Stale, Holding
  <2> QED
    BY <1>1, <2>1 DEF RecoveryInv, PendingIsClear, Clear
<1> QED
  BY <1>1, RecoveryIsSound, PTL

-----------------------------------------------------------------------------
(* Nothing but a review creates a feature twice. *)

\* The provider's promises hold for every drawn feature which is not under review.
CreatesAreSound == \A c \in Creates : c \in reviewed \/ Sound(c)

\* What is restored without being a review was never sent.
LEMMA RestoredIsUntouched ==
    ASSUME RecoveryInv, Restores, NEW c \in Creates \cap buffer', c \notin reviewed'
    PROVE  Untouched(c)
<1> DEFINE Ready(d) == ~Stale(d) /\ disk[d].state = "pending" /\ c \in Holding(disk[d])
<1>1. CASE UploadRestores
  <2>1. /\ Claimed /\ disk[sync.doc] = sync.copy /\ c \in Holding(sync.copy)
        /\ UNCHANGED reviewed
    BY <1>1 DEF UploadRestores, Restore, Holding
  <2>2. sync.doc \in Docs /\ ~Stale(sync.doc) /\ sync.copy.state = "pending"
    BY <2>1, ClaimIsWritable DEF Claimed, RecoveryInv, CopyInv, CheckIsPending
  <2> QED
    BY <2>1, <2>2, CopyTypes
    DEF RecoveryInv, PendingIsClear, Clear, Unsent, OnServer, Untouched, JournalInv, BufferInv,
        TypeOK
<1>2. ASSUME NEW d \in Docs, RestoreForReview(d) PROVE Untouched(c)
  <2>1. /\ c \in Holding(disk[d]) /\ disk[d].state # "absent" /\ ~Held(disk[d]) /\ d \notin locks
    BY <1>2 DEF RestoreForReview, Restore, Holding, Exists
  <2>2. ~Stale(d) /\ disk[d].state = "pending" /\ c \notin reviewed
    BY <1>2, <2>1, CopyTypes
    DEF Stale, Held, Copies, States, RecoveryInv, RestoreForReview
  <2>3. Unsent(c)
    BY <2>1, <2>2 DEF RecoveryInv, PendingIsClear, Clear
  <2> QED
    BY <2>3, CopyTypes
    DEF RecoveryInv, Unsent, OnServer, Untouched, JournalInv, BufferInv, TypeOK
<1> QED
  BY <1>1, <1>2 DEF Restores

LEMMA SoundRestoreStep ==
    ASSUME RecoveryInv, Restores, NEW c \in Creates, Sound(c), c \notin reviewed'
    PROVE  Sound(c)'
<1> USE DEF Sound, OneCreate, TruthfulReply, NothingHidden, Untouched, IsPost
<1>0. awaited = None /\ None # c /\ c \in Edits
  BY EditsAssumption, CopyTypes
  DEF RecoveryInv, JournalInv, BufferInv, Committing, Restores, UploadRestores, Claimed, Callers,
      RestoreForReview, Edits
<1>1. /\ UNCHANGED <<used, uncertain, awaited, reply, wire, rows>>
      /\ created'[c] = IF c \in buffer' THEN 0 ELSE created[c]
  BY DEF Restores, UploadRestores, RestoreForReview, Restore
<1>2. c \in buffer' => Untouched(c)
  BY RestoredIsUntouched
<1> QED
  BY <1>0, <1>1, <1>2

LEMMA CreatesStep ==
    ASSUME RecoveryInv, CreatesAreSound, [Next]_vars
    PROVE  CreatesAreSound'
<1> SUFFICES ASSUME NEW c \in Creates, c \notin reviewed' PROVE Sound(c)'
  BY DEF CreatesAreSound
<1>0. Sound(c) /\ TypeOK /\ Committing /\ None # c
  BY ReviewedGrows, CopyTypes, EditsAssumption
  DEF CreatesAreSound, vars, journalVars, RecoveryInv, JournalInv, BufferInv
<1>1. CASE ProviderNext
  BY <1>0, <1>1, SoundUserStep, SoundProviderStep, SoundServerStep DEF ProviderNext
<1>2. CASE UNCHANGED providerVars
  BY <1>0, <1>2
  DEF providerVars, Sound, OneCreate, TruthfulReply, NothingHidden, Untouched, IsPost
<1>3. CASE EmptySave
  <2>1. /\ created'[c] = 0 /\ buffer' = {} /\ awaited = None
        /\ UNCHANGED <<used, awaited, reply, wire, rows>>
    BY <1>0, <1>3 DEF EmptySave, Committing
  <2> QED
    BY <1>0, <2>1
    DEF Sound, OneCreate, TruthfulReply, NothingHidden, Untouched, IsPost
<1>4. CASE UploadGivesUp
  <2>1. UNCHANGED <<buffer, uncertain, created, used, awaited, reply, wire, rows>>
    BY <1>4 DEF UploadGivesUp
  <2> QED
    BY <1>0, <2>1
    DEF Sound, OneCreate, TruthfulReply, NothingHidden, Untouched, IsPost
<1>5. CASE Restores
  BY <1>0, <1>5, SoundRestoreStep
<1>6. CASE Reloads
  <2>1. /\ created'[c] = 0 /\ buffer' = {} /\ awaited' = None
        /\ UNCHANGED <<used, wire, rows>>
    BY <1>6 DEF Reloads, Crash, ReopenProject, LayerLoads
  <2> QED
    BY <1>0, <2>1
    DEF Sound, OneCreate, TruthfulReply, NothingHidden, Untouched, IsPost
<1>7. CASE UNCHANGED vars
  BY <1>2, <1>7 DEF vars
<1> QED
  BY <1>1, <1>2, <1>3, <1>4, <1>5, <1>6, <1>7, ProviderOrElse

\* However often a layer is saved, uploaded and recovered, and wherever QGIS dies, a
\* feature is created twice only after a person restored a held or locked copy of it
\* (addFeatures, before_commit, _warn_failed_save, _check_and_push, _review_restore).
THEOREM TwiceOnlyAfterReview ==
    ASSUME JournalIsWritten
    PROVE  Spec => []DuplicateOnlyAfterReview
<1>1. Init => RecoveryInv /\ CreatesAreSound
  BY RecoveryInit, SoundInit DEF CreatesAreSound, Init
<1>2. RecoveryInv /\ CreatesAreSound /\ [Next]_vars => (RecoveryInv /\ CreatesAreSound)'
  BY RecoveryStep, CreatesStep
<1>3. ASSUME RecoveryInv, CreatesAreSound PROVE DuplicateOnlyAfterReview
  BY <1>3, CopyTypes
  DEF CreatesAreSound, DuplicateOnlyAfterReview, Sound, OneCreate, RecoveryInv, JournalInv,
      BufferInv, TypeOK
<1> QED
  BY <1>1, <1>2, <1>3, PTL DEF Spec

-----------------------------------------------------------------------------
(* No journaled edit is lost. *)

OnDisk(e) == \E d \in Docs : e \in Holding(disk[d])

\* As long as no crash left a claim behind: every owed edit is on disk, those in a copy
\* which the layer knows as its own are still open, and a Save is of such a copy.
Kept ==
    ~StaleLock =>
        /\ \A e \in owed : OnDisk(e)
        /\ mine.bound /\ mine.doc # NoDoc => owed \cap Holding(disk[mine.doc]) \subseteq buffer
        /\ stage # "idle" => mine.bound \/ mine.doc = NoDoc

\* Writing the buffer to a copy keeps what is owed.
LEMMA WritesKeep ==
    ASSUME CopyInv, Kept, Adopts \/ Opens, ~StaleLock, owed' = owed \/ owed' = owed \cup buffer
    PROVE  Kept'
<1> USE DEF SameFile, OtherFiles
<1>1. Writes /\ mine'.doc \in Docs /\ mine'.bound /\ Holding(disk'[mine'.doc]) = buffer
      /\ buffer' = buffer
  BY DEF Adopts, Opens, Writes
<1>2. ASSUME NEW e \in owed' PROVE OnDisk(e)'
  <2>1. CASE e \in buffer
    BY <1>1, <2>1 DEF OnDisk
  <2>2. CASE e \notin buffer
    <3>1. PICK d \in Docs : e \in Holding(disk[d])
      BY <1>2, <2>2 DEF Kept, OnDisk
    <3>2. CASE Adopts
      <4>1. CASE d = mine.doc
        <5>1. mine.doc # NoDoc /\ mine.doc \in Docs /\ Adopted
          BY <4>1, <3>2 DEF Adopts, Adopted
        <5>2. ~mine.bound
          BY <1>2, <2>2, <3>1, <4>1, <5>1 DEF Kept
        <5>3. mine.copy.ops = BufferOps
          BY <5>1, <5>2 DEF Adopted, Orphaned
        <5>4. Holding(disk[mine.doc]) \subseteq Holding(mine.copy)
          BY <5>1 DEF CopyInv, CopyIds, OwnCopyKept
        <5> QED
          BY <2>2, <3>1, <4>1, <5>3, <5>4, HoldingIs
      <4>2. CASE d # mine.doc
        BY <3>1, <3>2, <4>2 DEF Adopts, OnDisk
      <4> QED
        BY <4>1, <4>2
    <3>3. CASE Opens
      <4>1. d # issued + 1
        BY <3>1, <3>3, CopyTypes DEF Opens, CopyInv, CopyIds, Docs
      <4>2. CASE SameFile(d)
        BY <3>1, <4>2 DEF OnDisk
      <4>3. CASE d = mine.doc /\ Holding(disk'[d]) = Holding(mine.copy)
        <5>1. Holding(disk[mine.doc]) \subseteq Holding(mine.copy)
          BY <4>3, CopyTypes DEF CopyInv, CopyIds, OwnCopyKept
        <5> QED
          BY <3>1, <4>3, <5>1 DEF OnDisk
      <4> QED
        BY <3>3, <4>1, <4>2, <4>3 DEF Opens
    <3> QED
      BY <3>2, <3>3
  <2> QED
    BY <2>1, <2>2
<1> QED
  BY <1>1, <1>2 DEF Kept

\* Only what is written to a copy becomes owed.
LEMMA FlushOwes ==
    ASSUME CopyInv, JournalIsWritten, Flush
    PROVE  owed' = owed \/ (owed' = owed \cup buffer /\ (Adopts \/ Opens))
<1>1. CASE buffer = {}
  BY <1>1 DEF Flush
<1>2. CASE buffer # {}
  <2>1. CASE Refused(Snapshot("none"), "none")
    BY <2>1 DEF Flush, JournalIsWritten, Refused
  <2>2. CASE Written(Snapshot("none"))
    <3>1. UNCHANGED <<buffer, stage>> /\ Ongoing
      BY DEF Flush, providerVars, Ongoing
    <3>2. /\ Persistable(OwnId, OwnCopy)
          /\ disk' = [KeptDisk EXCEPT ![OwnId] = OwnCopy]
          /\ mine' = [doc |-> OwnId, copy |-> OwnCopy, bound |-> TRUE]
          /\ issued' = IF OwnId = mine.doc THEN issued ELSE OwnId
      BY <2>2 DEF Flush, JournalIsWritten, Written, Journal
    <3>3. sync.phase = "claimed" => Uploading
      BY CopyTypes DEF Flush, Quiet, CallbackRunning, Uploading, JournalInv, Callers
    <3>4. owed' = owed \cup buffer \/ owed' = owed
      BY DEF Flush
    <3> QED
      BY <1>2, <3>1, <3>2, <3>3, <3>4, WrittenAre
  <2> QED
    BY <1>2, <2>1, <2>2, SnapshotOfEdits, CopyTypes DEF JournalInv, BufferInv, EditsAreOpen
<1> QED
  BY <1>1, <1>2

\* Deleting a copy keeps what is owed, when nothing of the copy is owed or open, or it is
\* another's.
LEMMA DroppedKeeps ==
    ASSUME CopyInv, Kept, NEW d \in Docs, Dropped(d), ~StaleLock, owed' \subseteq owed,
           owed' \cap Holding(disk[d]) = {},
           owed' \cap buffer \subseteq buffer'
    PROVE  Kept'
<1> USE DEF SameFile, OtherFiles, SameOwn
<1>1. \A e \in owed' : OnDisk(e)'
  BY DEF Kept, OnDisk, Dropped
<1>2. mine'.bound /\ mine'.doc # NoDoc => owed' \cap Holding(disk'[mine'.doc]) \subseteq buffer'
  BY CopyTypes DEF Kept, Dropped
<1>3. stage' # "idle" => mine'.bound \/ mine'.doc = NoDoc
  BY DEF Kept, Dropped, Ongoing
<1> QED
  BY <1>1, <1>2, <1>3 DEF Kept

LEMMA StaysKeeps ==
    ASSUME CopyInv, Kept, Stays, ~StaleLock, owed' \subseteq owed,
           owed' \cap buffer \subseteq buffer'
    PROVE  Kept'
<1> USE DEF SameFiles, SameFile, SameOwn
<1>1. \A e \in owed' : OnDisk(e)'
  BY DEF Kept, OnDisk, Stays
<1>2. mine'.bound /\ mine'.doc # NoDoc => owed' \cap Holding(disk'[mine'.doc]) \subseteq buffer'
  BY CopyTypes DEF Kept, Stays
<1>3. stage' # "idle" => mine'.bound \/ mine'.doc = NoDoc
  BY DEF Kept, Stays, Ongoing
<1> QED
  BY <1>1, <1>2, <1>3 DEF Kept

LEMMA TurnsKeeps ==
    ASSUME CopyInv, Kept, NEW state, Turns(state), ~StaleLock, owed' = owed
    PROVE  Kept'
<1> USE DEF SameFile, OtherFiles
<1>1. Holding(disk'[mine.doc]) = Holding(disk[mine.doc]) /\ mine.doc # NoDoc
  BY CopyTypes DEF Turns, CopyInv, OwnCopyKept
<1>2. \A e \in owed' : OnDisk(e)'
  BY <1>1 DEF Kept, OnDisk, Turns
<1>3. mine'.bound /\ mine'.doc # NoDoc => owed' \cap Holding(disk'[mine'.doc]) \subseteq buffer'
  BY <1>1 DEF Kept, Turns
<1>4. stage' # "idle" => mine'.bound \/ mine'.doc = NoDoc
  BY DEF Kept, Turns, Ongoing
<1> QED
  BY <1>2, <1>3, <1>4 DEF Kept

LEMMA StillHeldKeeps ==
    ASSUME CopyInv, Kept, StillHeld, ~StaleLock, owed' = owed
    PROVE  Kept'
<1> USE DEF SameFiles, SameFile, SameOwn
<1>1. \A e \in owed' : OnDisk(e)'
  BY DEF Kept, OnDisk, StillHeld
<1>2. disk[mine.doc].state = "absent"
  BY DEF StillHeld, Stale, StaleLock
<1>3. Holding(disk'[mine'.doc]) = {}
  BY <1>2 DEF StillHeld, CopyInv, CopyIds
<1> QED
  BY <1>1, <1>3 DEF Kept, StillHeld

LEMMA KeptStep ==
    ASSUME CopyInv, Kept, JournalIsWritten, ~EmptySaves, Next
    PROVE  Kept'
<1> SUFFICES ASSUME ~StaleLock' PROVE Kept'
  BY DEF Kept
<1> USE DEF SameFiles, SameFile, SameOwn
<1>0. ~StaleLock /\ NoDoc \notin Docs
  BY CopyTypes, StaleStays
<1>1. CASE Plain
  <2>1. owed' \subseteq owed /\ owed' \cap buffer \subseteq buffer'
    BY <1>1
    DEF Plain, Edit, Draw, Retouch, Revert, UndoEdit, Undo, SaveGroupSucceeds, FinishGroup,
        SaveStops, ReceiveRefusal, ReceiveNothing, RefuseUncertainCreates, StopSave, SaveAdvances,
        SkipHandled, Send, ReceiveOk, BeginCheck, ReadVersions, CheckFails, CheckIsStale, Claim,
        ForeignEdit, SwitchAccount, ServerStep, ServerApplies, ServerRefuses, RequestLost,
        providerVars, journalVars
  <2> QED
    BY <1>0, <1>1, <2>1, PlainKind, StaysKeeps
<1>2. CASE Flush
  <2>1. UNCHANGED <<buffer, stage>> /\ Ongoing
    BY <1>2 DEF Flush, providerVars, Ongoing
  <2>2. owed' = owed \/ (owed' = owed \cup buffer /\ (Adopts \/ Opens))
    BY <1>2, FlushOwes
  <2>3. CASE Adopts \/ Opens
    BY <1>0, <2>2, <2>3, WritesKeep
  <2>4. CASE ~(Adopts \/ Opens)
    <3>1. owed' = owed
      BY <2>2, <2>4
    <3>2. CASE mine.doc \in Docs /\ Dropped(mine.doc) /\ mine.bound /\ buffer = {}
      <4>1. owed \cap Holding(disk[mine.doc]) = {}
        BY <1>0, <3>2 DEF Kept
      <4> QED
        BY <1>0, <2>1, <3>1, <3>2, <4>1, DroppedKeeps
    <3> QED
      BY <1>0, <1>2, <2>1, <2>4, <3>1, <3>2, FlushKind, StaysKeeps, StillHeldKeeps
  <2> QED
    BY <2>3, <2>4
<1>3. CASE Save \/ UploadStarts
  <2>1. CASE StillHeld /\ MarkFails("none")
    BY <1>0, <2>1, StillHeldKeeps DEF MarkFails
  <2>2. CASE (Adopts \/ Opens) /\ Marked("none")
    BY <1>0, <2>2, WritesKeep DEF Marked
  <2> QED
    BY <1>3, <2>1, <2>2, SaveKind, UploadStartsKind
<1>4. CASE UploadGivesUp
  BY <1>0, <1>4, GivesUpKind, StaysKeeps, WritesKeep
<1>5. CASE Discard
  <2>1. /\ owed' = IF DiscardDeletes THEN owed \ Holding(mine.copy) ELSE owed
        /\ stage' = "idle"
    BY <1>5 DEF Discard, DiscardDeletes, Holding, RollBack
  <2>2. CASE LetGo /\ ~DiscardDeletes
    BY <1>0, <2>1, <2>2 DEF LetGo, Kept, OnDisk
  <2>3. CASE mine.doc \in Docs /\ Dropped(mine.doc) /\ DiscardDeletes
    <3>1. Holding(disk[mine.doc]) \subseteq Holding(mine.copy) /\ mine.doc # NoDoc
      BY <1>0, <2>3 DEF CopyInv, CopyIds, OwnCopyKept
    <3>2. owed' \cap Holding(disk[mine.doc]) = {} /\ owed' \subseteq owed
      BY <2>1, <2>3, <3>1
    <3>3. /\ \A e \in owed' : OnDisk(e)'
          /\ mine'.doc # NoDoc => Holding(disk'[mine'.doc]) = {}
      BY <1>0, <2>3, <3>2 DEF Kept, OnDisk, Dropped, OtherFiles
    <3> QED
      BY <2>1, <3>3 DEF Kept
  <2> QED
    BY <1>5, <2>2, <2>3, DiscardKind
<1>6. CASE SaveSucceeds
  <2>1. owed' = owed \ buffer /\ stage # "idle"
    BY <1>6 DEF SaveSucceeds, FinishSave, GroupHandled
  <2>2. mine.doc # NoDoc => owed' \cap Holding(disk[mine.doc]) = {}
    BY <1>0, <2>1 DEF Kept
  <2> QED
    BY <1>0, <1>6, <2>1, <2>2, FinishKind, StaysKeeps, DroppedKeeps
<1>7. CASE EmptySave
  BY <1>7 DEF EmptySave
<1>8. CASE AfterCommitReturns \/ UploadReturns
  <2>1. UNCHANGED <<owed, buffer>>
    BY <1>8 DEF AfterCommitReturns, UploadReturns, providerVars
  <2> QED
    BY <1>0, <1>8, <2>1, JudgeKind, StaysKeeps, TurnsKeeps DEF Released
<1>9. CASE CheckFindsConflict
  <2>1. UNCHANGED <<owed, buffer>>
    BY <1>9 DEF CheckFindsConflict, providerVars
  <2> QED
    BY <1>0, <1>9, <2>1, ConflictKind, StaysKeeps, TurnsKeeps DEF Conflicted
<1>10. CASE Restores
  <2>1. PICK d \in Docs : Restored(d)
    BY <1>0, <1>10, RestoreKind
  <2>2. owed' = owed
    BY <1>10 DEF Restores, UploadRestores, RestoreForReview
  <2> QED
    BY <1>0, <2>1, <2>2 DEF Kept, Restored, OnDisk
<1>11. CASE Reloads
  <2>1. owed' = owed
    BY <1>11 DEF Reloads, Crash, ReopenProject
  <2> QED
    BY <1>0, <1>11, <2>1, ReloadKind DEF Kept, Reloaded, OnDisk
<1>12. ASSUME NEW d \in Docs, DeleteCopy(d) \/ OtherSessionDeletes(d) PROVE Kept'
  <2>1. owed' = owed \ Holding(disk[d]) /\ UNCHANGED buffer
    BY <1>12 DEF DeleteCopy, OtherSessionDeletes, Holding, providerVars
  <2> QED
    BY <1>0, <1>12, <2>1, DeleteKind, DroppedKeeps
<1> QED
  BY <1>1, <1>2, <1>3, <1>4, <1>5, <1>6, <1>7, <1>8, <1>9, <1>10, <1>11, <1>12, NextIs

\* Where the journal can be written, and no unmodified layer is committed, an edit that was
\* journaled is in a copy on disk until the server confirmed it, or a person undid,
\* discarded or deleted it, through crashes too (snapshot, _persist, rolled_back, committed,
\* delete_copies).
THEOREM JournaledEditsAreKept ==
    ASSUME JournalIsWritten, ~EmptySaves
    PROVE  Spec => []EditsAreKept
<1>1. Init => CopyInv /\ Kept
  BY CopyInit DEF Init, ProviderInit, Kept
<1>2. CopyInv /\ Kept /\ [Next]_vars => (CopyInv /\ Kept)'
  <2> SUFFICES ASSUME CopyInv, Kept, [Next]_vars PROVE (CopyInv /\ Kept)'
    OBVIOUS
  <2>1. CopyInv'
    BY CopyStep
  <2>2. CASE Next
    BY <2>1, <2>2, KeptStep
  <2>3. CASE UNCHANGED vars
    <3>1. UNCHANGED <<owed, disk, mine, locks, sync, buffer, stage>>
      BY <2>3 DEF vars, providerVars, journalVars
    <3> QED
      BY <2>1, <3>1 DEF Kept, OnDisk, StaleLock
  <2> QED
    BY <2>2, <2>3
<1>3. Kept => EditsAreKept
  BY DEF Kept, EditsAreKept, EditsAreAlwaysKept, OnDisk, Holding
<1> QED
  BY <1>1, <1>2, <1>3, PTL DEF Spec
=============================================================================
