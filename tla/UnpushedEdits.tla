--------------------------- MODULE UnpushedEdits ---------------------------
(***************************************************************************)
(* PendingEdits (qgis_label_client/pending.py) over one editable class     *)
(* layer and the recovery journal on disk (core/pending.py).               *)
(*                                                                         *)
(* Every edit is copied to a journal file, a "recovery copy".  A copy is   *)
(*   pending    while no Save of its edits was ever attempted,             *)
(*   uncertain  from just before the first request of a Save until the     *)
(*              native commit succeeds, or a refusal shows that nothing    *)
(*              was written,                                               *)
(*   conflict   when it must be compared by a person first.                *)
(* Connect may upload a pending copy by itself, after checking the server  *)
(* versions of its features; the two other states are only ever sent again *)
(* by a person who restored or kept them.                                  *)
(*                                                                         *)
(* The native commit, the provider and the server are ClassProvider's.     *)
(***************************************************************************)
EXTENDS ClassProvider

CONSTANTS
    MaxDocs,    \* bound: how many recovery copies are ever created
    MaxCrashes, \* bound: how many times QGIS dies
    Accounts,   \* accounts a person may be signed in as
    Nobody,     \* the account of a copy which does not exist
    Faults,     \* which journal writes may fail: a subset of FaultKinds
    Uploads,    \* BOOLEAN: does the person answer Yes to "Upload local changes?"
    EmptySaves, \* BOOLEAN: may an unmodified layer be committed
    Reopens,    \* BOOLEAN: may the project be closed and reopened in one session
    Sessions    \* BOOLEAN: does another QGIS session delete copies of this journal

\* A write that keeps an unrestored copy aside, that writes the layer's own copy,
\* or that marks it uncertain (released: pending again) around a Save.
FaultKinds == {"keep", "write", "mark"}

ASSUME JournalAssumption ==
    /\ MaxDocs \in Nat
    /\ MaxCrashes \in Nat
    /\ Accounts # {} /\ Nobody \notin Accounts
    /\ Faults \subseteq FaultKinds
    /\ Uploads \in BOOLEAN /\ EmptySaves \in BOOLEAN /\ Reopens \in BOOLEAN
    /\ Sessions \in BOOLEAN

Docs == 1..MaxDocs
NoDoc == 0
States == {"pending", "uncertain", "conflict"}

\* One entry of a copy's "operations": an edit with its payload.
Operations == Edits \X Payloads

\* noted: the copy carries a "Not saved: ..." note.
Copies == [state : States \cup {"absent"}, ops : SUBSET Operations,
           noted : BOOLEAN, email : Accounts \cup {Nobody}]
Absent == [state |-> "absent", ops |-> {}, noted |-> FALSE, email |-> Nobody]

VARIABLES
    disk,      \* the journal directory: one file per recovery copy
    locks,     \* its lock files
    issued,    \* how many journal ids (uuid4) were drawn
    mine,      \* documents[layer] (doc and copy) and whether it is in bound_buffers
    marked,    \* the layer's cvi/pending_state property is "conflict"
    commit,    \* commits[layer]
    fresh,     \* attempted_from_pending[layer], FALSE when absent
    editing,   \* the layer has an edit buffer
    owner,     \* owners[layer]
    stray,     \* _created holds a feature which is no longer in the buffer
    account,   \* the account signed in
    flushDue,  \* layer.id() in scheduled
    judgeDue,  \* an _after_commit_returns timer is running
    caller,    \* who awaits the native commit: "nobody", "person" or "connect"
    sync,      \* the reconnect check under way
    foreign,   \* server: features changed by someone else since the baseline
    gone,      \* server: those of them which someone else deleted
    crashes,   \* history: how often QGIS died
    owed,      \* history: journaled edits nobody confirmed, undid or deleted
    reviewed   \* history: edits restored from a copy to be reviewed

storeVars == <<disk, locks, issued>>
layerVars == <<mine, marked, commit, fresh, editing, owner, stray>>
timerVars == <<flushDue, judgeDue, caller, sync>>
aroundVars == <<account, foreign, gone, crashes>>
historyVars == <<owed, reviewed>>
journalVars == <<storeVars, layerVars, timerVars, aroundVars, historyVars>>
vars == <<providerVars, journalVars>>

NoSync == [phase |-> "idle", doc |-> NoDoc, copy |-> Absent, account |-> Nobody,
           touched |-> FALSE, problem |-> FALSE]

JournalTypeOK ==
    /\ disk \in [Docs -> Copies]
    /\ locks \subseteq Docs
    /\ issued \in 0..MaxDocs
    /\ mine \in [doc : Docs \cup {NoDoc}, copy : Copies, bound : BOOLEAN]
    /\ marked \in BOOLEAN
    /\ commit \in Docs \cup {NoDoc}
    /\ fresh \in BOOLEAN
    /\ editing \in BOOLEAN
    /\ owner \in Accounts
    /\ stray \in BOOLEAN
    /\ account \in Accounts
    /\ flushDue \in BOOLEAN
    /\ judgeDue \in BOOLEAN
    /\ caller \in {"nobody", "person", "connect"}
    /\ sync \in [phase : {"idle", "reading", "answered", "claimed"},
                 doc : Docs \cup {NoDoc}, copy : Copies, account : Accounts \cup {Nobody},
                 touched : BOOLEAN, problem : BOOLEAN]
    /\ foreign \subseteq Changes \cup Deletes
    /\ gone \subseteq foreign
    /\ crashes \in 0..MaxCrashes
    /\ owed \subseteq Edits
    /\ reviewed \subseteq Edits

Init ==
    /\ ProviderInit
    /\ disk = [d \in Docs |-> Absent]
    /\ locks = {}
    /\ issued = 0
    /\ mine = [doc |-> NoDoc, copy |-> Absent, bound |-> FALSE]
    /\ marked = FALSE
    /\ commit = NoDoc
    /\ fresh = FALSE
    /\ editing = FALSE
    /\ account \in Accounts
    /\ owner = account
    /\ stray = FALSE
    /\ flushDue = FALSE
    /\ judgeDue = FALSE
    /\ caller = "nobody"
    /\ sync = NoSync
    /\ foreign = {}
    /\ gone = {}
    /\ crashes = 0
    /\ owed = {}
    /\ reviewed = {}

-----------------------------------------------------------------------------
BufferOps == {<<e, IF e \in Creates THEN content[e] ELSE 1>> : e \in buffer}
EditsOf(ops) == {op[1] : op \in ops}
Exists(d) == disk[d].state # "absent"
Held(copy) == copy.state \in {"uncertain", "conflict"}

\* The upload on Connect runs in one callback from its claim to the release of
\* the claim, but for the requests of the native commit.
CallbackRunning ==
    \/ sync.phase = "claimed" /\ caller = "nobody"
    \/ caller = "connect" /\ stage = "idle"
Quiet == ~CallbackRunning

\* The conditions under which _persist refuses to write the copy: it was removed
\* by another session, it is locked, or it is no longer pending on disk.
Persistable(d, copy) ==
    \/ sync.phase = "claimed" /\ sync.doc = d
    \/ /\ mine.doc = d => Exists(d)
       /\ d \notin locks
       /\ copy.state = "pending" /\ Exists(d) => disk[d].state = "pending"

\* PendingEdits.saved, when the file can be removed: the copy is forgotten.
Forgotten == [doc |-> NoDoc, copy |-> Absent, bound |-> FALSE]
Without(d) == [disk EXCEPT ![d] = Absent]

-----------------------------------------------------------------------------
\* A copy recovered from an earlier session which was not loaded into this buffer.
NeverOrphaned == FALSE \* mutant: the newer edits take the recovered copy over
Orphaned == mine.doc # NoDoc /\ ~mine.bound /\ mine.copy.ops # BufferOps

\* PendingEdits.snapshot followed by _persist, as the journal and memory it
\* leaves. A copy recovered from an earlier session and not loaded into this
\* buffer is kept beside a new one, both for review.
Snapshot(fault) ==
    LET previous == mine.copy
        known == mine.doc # NoDoc
        orphaned == Orphaned
        kept == IF orphaned
                THEN [disk EXCEPT ![mine.doc] = [previous EXCEPT !.state = "conflict",
                                                                 !.noted = FALSE]]
                ELSE disk
        id == IF known /\ ~orphaned THEN mine.doc ELSE issued + 1
        next == IF known /\ ~orphaned
                THEN [previous EXCEPT !.ops = BufferOps,
                                      !.noted = @ /\ (\/ previous.state # "pending"
                                                      \/ previous.ops = BufferOps)]
                ELSE [state |-> IF orphaned \/ marked THEN "conflict" ELSE "pending",
                      ops |-> BufferOps, noted |-> FALSE, email |-> owner]
        unchanged == [raised |-> FALSE, disk |-> disk, mine |-> mine,
                      marked |-> marked, issued |-> issued]
    IN  IF ~editing
        THEN unchanged
        ELSE IF buffer = {}
        THEN IF mine.bound /\ previous.state = "pending"
             THEN [unchanged EXCEPT !.disk = Without(mine.doc), !.mine = Forgotten,
                                    !.marked = FALSE]
             ELSE unchanged
        ELSE IF orphaned /\ fault = "keep"
        THEN [unchanged EXCEPT !.raised = TRUE]
        ELSE IF fault = "write" \/ ~Persistable(id, next)
        THEN [unchanged EXCEPT !.raised = TRUE, !.disk = kept,
                               !.mine = [mine EXCEPT !.bound = known]]
        ELSE [raised |-> FALSE, disk |-> [kept EXCEPT ![id] = next],
              mine |-> [doc |-> id, copy |-> next, bound |-> TRUE],
              marked |-> (next.state = "conflict"),
              issued |-> IF id = mine.doc THEN issued ELSE id]

Journal(s) ==
    /\ disk' = s.disk
    /\ mine' = s.mine
    /\ marked' = s.marked
    /\ issued' = s.issued

\* The journal ids are bounded: an edit needs room for the copy it may open.
Room == issued < MaxDocs

-----------------------------------------------------------------------------
(* The person edits; every change schedules one _flush.                    *)

Touch ==
    /\ flushDue' = TRUE
    /\ sync' = [sync EXCEPT !.touched = sync.phase # "idle"]

Edit ==
    /\ Quiet
    /\ Room
    /\ \/ \E e \in Edits : Draw(e)
       \/ \E c \in Creates : Retouch(c) \/ Revert(c)
    /\ editing' = TRUE
    /\ owner' = IF editing THEN owner ELSE account
    /\ Touch
    /\ UNCHANGED <<storeVars, mine, marked, commit, fresh, stray, judgeDue, caller,
                   aroundVars, historyVars>>

UndoEdit ==
    /\ Quiet
    /\ \E e \in Edits : Undo(e) /\ owed' = owed \ {e}
    /\ Touch
    /\ UNCHANGED <<storeVars, layerVars, judgeDue, caller, aroundVars, reviewed>>

\* _flush: the zero-delay timer, which also fires inside the event loop of a
\* request.
Flush ==
    /\ Quiet
    /\ flushDue
    /\ flushDue' = FALSE
    /\ \E fault \in Faults \cup {"none"} :
        LET s == Snapshot(fault) IN
            /\ Journal(s)
            /\ owed' = IF s.raised \/ ~editing THEN owed ELSE owed \cup buffer
    /\ UNCHANGED <<providerVars, locks, commit, fresh, editing, owner, stray, judgeDue,
                   caller, sync, aroundVars, reviewed>>

DiscardsAnyOwnCopy == mine.bound \* mutant: held copies are deleted too

\* Discarding deletes the copy only if it was this buffer's own and never
\* attempted.
DiscardDeletes == mine.bound /\ mine.copy.state = "pending"

\* rolled_back
Discard ==
    /\ Quiet
    /\ editing
    /\ RollBack
    /\ editing' = FALSE
    /\ stray' = FALSE
    /\ IF DiscardDeletes
       THEN disk' = Without(mine.doc) /\ mine' = Forgotten /\ marked' = FALSE
       ELSE mine' = [mine EXCEPT !.bound = FALSE] /\ UNCHANGED <<disk, marked>>
    /\ owed' = IF mine.bound /\ mine.copy.state = "pending"
               THEN owed \ EditsOf(mine.copy.ops)
               ELSE owed
    /\ UNCHANGED <<locks, issued, commit, fresh, owner, timerVars, aroundVars, reviewed>>

-----------------------------------------------------------------------------
(* Saving.                                                                 *)

MisspeltAttempt(copy) == [copy EXCEPT !.state = "attempted", !.noted = FALSE] \* mutant

\* What before_commit makes of the copy: no state but uncertain tells the next
\* session that a Save was attempted.
Attempted(copy) == [copy EXCEPT !.state = "uncertain", !.noted = FALSE]

\* before_commit: snapshot, then mark the copy uncertain before the first
\* request. A journal that cannot be written does not stop a Save of the
\* person's: the hook has no way to.
MarkUncertain(fault) ==
    LET s == Snapshot(fault)
        attempted == [s.mine EXCEPT !.copy = Attempted(@)]
    IN  IF s.raised
        THEN Journal(s) /\ UNCHANGED <<commit, fresh, judgeDue, owed>>
        ELSE /\ fresh' = (s.mine.copy.state = "pending")
             /\ mine' = attempted
             /\ issued' = s.issued
             /\ owed' = owed \cup buffer
             /\ IF fault = "mark"
                THEN /\ disk' = s.disk
                     /\ marked' = s.marked
                     /\ UNCHANGED <<commit, judgeDue>>
                ELSE /\ disk' = [s.disk EXCEPT ![attempted.doc] = attempted.copy]
                     /\ marked' = FALSE
                     /\ commit' = attempted.doc
                     /\ judgeDue' = TRUE

Save ==
    /\ Quiet
    /\ StartNativeSave
    /\ \E fault \in Faults \cup {"none"} : MarkUncertain(fault)
    /\ caller' = "person"
    /\ UNCHANGED <<locks, editing, owner, stray, flushDue, sync, aroundVars, reviewed>>

\* committed: only the copy this Save marked is acknowledged by it.
Committed ==
    /\ commit' = NoDoc
    /\ fresh' = FALSE
    /\ stray' = FALSE
    /\ IF commit # NoDoc /\ commit = mine.doc
       THEN disk' = Without(mine.doc) /\ mine' = Forgotten /\ marked' = FALSE
       ELSE UNCHANGED <<disk, mine, marked>>

\* Leaving edit mode is up to the person; the upload on Connect stays in it.
SaveSucceeds ==
    /\ FinishSave
    /\ Committed
    /\ owed' = owed \ buffer
    /\ editing' \in (IF caller = "connect" THEN {TRUE} ELSE BOOLEAN)
    /\ caller' = IF caller = "connect" THEN caller ELSE "nobody"
    /\ UNCHANGED <<locks, issued, owner, flushDue, judgeDue, sync, aroundVars, reviewed>>

SaveGroupSucceeds ==
    /\ FinishGroup
    /\ owed' = owed \ GroupOf(stage)
    /\ UNCHANGED <<storeVars, layerVars, timerVars, aroundVars, reviewed>>

SaveStops ==
    /\ ReceiveRefusal \/ ReceiveNothing \/ RefuseUncertainCreates
    /\ caller' = IF caller = "connect" THEN caller ELSE "nobody"
    /\ UNCHANGED <<storeVars, layerVars, flushDue, judgeDue, sync, aroundVars, historyVars>>

SaveAdvances ==
    /\ (\E e \in Edits : SkipHandled(e) \/ Send(e)) \/ ReceiveOk
    /\ UNCHANGED journalVars

RefusedThisTime == SaveRefusal /\ ~stray \* mutant: earlier attempts are forgotten

\* Nothing of the copy can be on the server: the Save was refused before it wrote
\* anything, and it was the first attempt at these edits.
RefusedOutright == SaveRefusal /\ ~stray /\ fresh

\* _warn_failed_save: a first attempt that was refused as a whole goes back to
\* pending; everything else stays held.
Judge ==
    IF mine.doc # NoDoc /\ mine.copy.state = "uncertain"
    THEN /\ fresh' = FALSE
         /\ IF /\ RefusedOutright
               /\ disk[mine.doc].state = "uncertain"
               /\ disk[mine.doc].ops = mine.copy.ops
            THEN LET released == [mine.copy EXCEPT !.state = "pending", !.noted = TRUE]
                 IN  \/ /\ mine' = [mine EXCEPT !.copy = released]
                        /\ disk' = [disk EXCEPT ![mine.doc] = released]
                     \/ "mark" \in Faults /\ UNCHANGED <<mine, disk>>
            ELSE UNCHANGED <<mine, disk>>
    ELSE UNCHANGED <<fresh, mine, disk>>

\* _after_commit_returns judges only once the native commit has returned.
AfterCommitReturns ==
    /\ Quiet
    /\ judgeDue
    /\ stage = "idle"
    /\ judgeDue' = FALSE
    /\ Judge
    /\ UNCHANGED <<providerVars, locks, issued, marked, commit, editing, owner, stray,
                   flushDue, caller, sync, aroundVars, historyVars>>

\* Committing a layer that has an edit buffer but no edits: before_commit returns
\* at once, and QGIS reports success.
EmptySave ==
    /\ EmptySaves
    /\ Quiet
    /\ stage = "idle"
    /\ editing
    /\ buffer = {}
    /\ Committed
    /\ ResetWriteSession
    /\ editing' \in BOOLEAN
    /\ UNCHANGED <<nativeVars, requestVars, serverVars, historyOfSave, locks, issued, owner,
                   timerVars, aroundVars, historyVars>>

-----------------------------------------------------------------------------
(* Uploading on Connect.                                                   *)

UploadsAnyCopy == mine.doc # NoDoc /\ mine.copy.email = account \* mutant: no state check

CanUpload == mine.doc # NoDoc /\ mine.copy.state = "pending" /\ mine.copy.email = account

\* on_connected and _check_and_push: every live layer is journaled first, then
\* the inputs of the check are frozen.
BeginCheck ==
    /\ Uploads
    /\ Quiet
    /\ stage = "idle"
    /\ sync.phase = "idle"
    /\ ~flushDue
    /\ CanUpload
    /\ buffer # {} => mine.bound /\ mine.copy.ops = BufferOps
    /\ sync' = [phase |-> "reading", doc |-> mine.doc, copy |-> mine.copy,
                account |-> account, touched |-> FALSE, problem |-> FALSE]
    /\ UNCHANGED <<providerVars, storeVars, layerVars, flushDue, judgeDue, caller,
                   aroundVars, historyVars>>

\* The worker compares the server's versions with the recorded baselines.
ReadVersions ==
    /\ sync.phase = "reading"
    /\ sync' = [sync EXCEPT !.phase = "answered",
                            !.problem = EditsOf(sync.copy.ops) \cap foreign # {}]
    /\ UNCHANGED <<providerVars, storeVars, layerVars, flushDue, judgeDue, caller,
                   aroundVars, historyVars>>

\* The task failed or was cancelled.
CheckFails ==
    /\ sync.phase = "reading"
    /\ sync' = NoSync
    /\ UNCHANGED <<providerVars, storeVars, layerVars, flushDue, judgeDue, caller,
                   aroundVars, historyVars>>

\* Mutants: an edit, or a change of account, during the check goes unnoticed.
FrozenCopyOnly ==
    /\ sync.account = account
    /\ mine.doc = sync.doc
    /\ mine.copy = sync.copy

FrozenForAnyone ==
    /\ mine.doc = sync.doc
    /\ mine.copy = sync.copy
    /\ ~sync.touched

StillFrozen ==
    /\ sync.account = account
    /\ mine.doc = sync.doc
    /\ mine.copy = sync.copy
    /\ ~sync.touched

\* Mutant: after a change of account, done() returns without ending the upload.
CheckIsStaleByCopy ==
    /\ sync.phase = "answered"
    /\ Quiet
    /\ ~FrozenForAnyone \/ (~sync.problem /\ (sync.doc \in locks \/ saves = MaxSaves))
    /\ sync' = NoSync
    /\ UNCHANGED <<providerVars, storeVars, layerVars, flushDue, judgeDue, caller,
                   aroundVars, historyVars>>

\* done(): the answer no longer applies, or there is nothing to do.
CheckIsStale ==
    /\ sync.phase = "answered"
    /\ Quiet
    /\ ~StillFrozen \/ (~sync.problem /\ (sync.doc \in locks \/ saves = MaxSaves))
    /\ sync' = NoSync
    /\ UNCHANGED <<providerVars, storeVars, layerVars, flushDue, judgeDue, caller,
                   aroundVars, historyVars>>

CheckFindsConflict ==
    /\ sync.phase = "answered"
    /\ Quiet
    /\ StillFrozen
    /\ sync.problem
    /\ LET copy == [sync.copy EXCEPT !.state = "conflict", !.noted = FALSE] IN
        IF Persistable(sync.doc, copy)
        THEN /\ disk' = [disk EXCEPT ![sync.doc] = copy]
             /\ mine' = [mine EXCEPT !.copy = copy]
             /\ marked' = TRUE
        ELSE UNCHANGED <<disk, mine, marked>>
    /\ sync' = NoSync
    /\ UNCHANGED <<providerVars, locks, issued, commit, fresh, editing, owner, stray, flushDue,
                   judgeDue, caller, aroundVars, historyVars>>

Claim ==
    /\ sync.phase = "answered"
    /\ Quiet
    /\ stage = "idle"
    /\ StillFrozen
    /\ ~sync.problem
    /\ sync.doc \notin locks
    /\ saves < MaxSaves
    /\ locks' = locks \cup {sync.doc}
    /\ sync' = [sync EXCEPT !.phase = "claimed"]
    /\ UNCHANGED <<providerVars, disk, issued, layerVars, flushDue, judgeDue, caller,
                   aroundVars, historyVars>>

\* A feature which is no longer on the server cannot be found again.
Restorable(copy) == EditsOf(copy.ops) \cap ((Deletes \cap applied) \cup gone) = {}

\* PendingEdits._restore on an unmodified layer: the copy's edits are made again,
\* as one edit command. Drawn features get new temporary ids, so what the write
\* session remembers of earlier ones no longer applies to them.
Restore(copy) ==
    /\ buffer = {}
    /\ Restorable(copy)
    /\ buffer' = EditsOf(copy.ops)
    /\ content' = [c \in Creates |->
                    IF \E p \in Payloads : <<c, p>> \in copy.ops
                    THEN CHOOSE p \in Payloads : <<c, p>> \in copy.ops
                    ELSE content[c]]
    /\ editing' = TRUE
    /\ owner' = IF editing THEN owner ELSE account
    /\ created' = [c \in Creates |-> IF c \in EditsOf(copy.ops) THEN 0 ELSE created[c]]
    /\ stray' = (stray \/ \E c \in Creates \cap EditsOf(copy.ops) : created[c] # 0)
    /\ UNCHANGED <<used, saves, stage, left, requestVars, serverVars,
                   deleted, wrote, refusal, uncertain, historyOfSave>>

Claimed == sync.phase = "claimed" /\ caller = "nobody"

UploadRestores ==
    /\ Claimed
    /\ disk[sync.doc] = sync.copy
    /\ Restore(sync.copy)
    /\ mine' = [mine EXCEPT !.bound = TRUE]
    /\ UNCHANGED <<storeVars, marked, commit, fresh, timerVars, aroundVars, historyVars>>

KeepClaim == UNCHANGED locks \* mutant: the claim leaks

ReleaseClaim == locks' = locks \ {sync.doc}

\* Mutant: the upload is sent whatever became of the mark.
UploadStartsRegardless ==
    /\ Claimed
    /\ disk[sync.doc] = sync.copy
    /\ StartNativeSave
    /\ \E fault \in Faults \cup {"none"} : MarkUncertain(fault)
    /\ caller' = "connect"
    /\ UNCHANGED <<locks, editing, owner, stray, flushDue, sync, aroundVars, reviewed>>

\* before_commit must have made the uncertainty durable, or nothing is sent.
UploadStarts ==
    /\ Claimed
    /\ disk[sync.doc] = sync.copy
    /\ StartNativeSave
    /\ MarkUncertain("none")
    /\ caller' = "connect"
    /\ UNCHANGED <<locks, editing, owner, stray, flushDue, sync, aroundVars, reviewed>>

UploadGivesUp ==
    /\ Claimed
    /\ \/ /\ disk[sync.doc] # sync.copy \/ (buffer = {} /\ ~Restorable(sync.copy))
          /\ UNCHANGED <<disk, mine, marked, issued, commit, fresh, judgeDue, owed,
                         refusal, wrote>>
       \/ /\ buffer # {}
          /\ disk[sync.doc] = sync.copy
          /\ \E fault \in Faults \ {"keep"} : MarkUncertain(fault)
          /\ BeginSaveSession
    /\ ReleaseClaim
    /\ sync' = NoSync
    /\ UNCHANGED <<nativeVars, requestVars, serverVars, created, deleted, uncertain, historyOfSave,
                   editing, owner, stray, flushDue, caller, aroundVars, reviewed>>

\* commitChanges returned: _warn_failed_save judges a failure at once, and the
\* claim is released.
UploadReturns ==
    /\ caller = "connect"
    /\ stage = "idle"
    /\ IF commit = NoDoc THEN UNCHANGED <<fresh, mine, disk>> ELSE Judge
    /\ ReleaseClaim
    /\ caller' = "nobody"
    /\ sync' = NoSync
    /\ UNCHANGED <<providerVars, issued, marked, commit, editing, owner, stray, flushDue,
                   judgeDue, aroundVars, historyVars>>

-----------------------------------------------------------------------------
(* Reviewing the copies (Unpushed edits...).                               *)

\* _review_restore: the copy's edits enter the buffer, then the copy becomes the
\* layer's, if it can be written.
RestoreForReview(d) ==
    /\ Quiet
    /\ stage = "idle"
    /\ Room
    /\ Exists(d)
    /\ disk[d].email = account
    /\ Restore(disk[d])
    /\ reviewed' = reviewed \cup
                    (IF Held(disk[d]) \/ d \in locks THEN EditsOf(disk[d].ops) ELSE {})
    /\ IF Persistable(d, disk[d])
       THEN /\ mine' = [doc |-> d, copy |-> disk[d], bound |-> TRUE]
            /\ marked' = (disk[d].state = "conflict")
       ELSE /\ mine' = [mine EXCEPT !.bound = TRUE]
            /\ UNCHANGED marked
    /\ UNCHANGED <<storeVars, commit, fresh, timerVars, aroundVars, owed>>

\* delete_copies: a copy of edits still open is kept.
DeleteCopy(d) ==
    /\ Quiet
    /\ stage = "idle"
    /\ Exists(d)
    /\ ~(buffer # {} /\ mine.doc = d)
    /\ disk' = Without(d)
    /\ IF mine.doc = d
       THEN mine' = Forgotten /\ marked' = FALSE
       ELSE UNCHANGED <<mine, marked>>
    /\ owed' = owed \ EditsOf(disk[d].ops)
    /\ UNCHANGED <<providerVars, locks, issued, commit, fresh, editing, owner, stray,
                   timerVars, aroundVars, reviewed>>

-----------------------------------------------------------------------------
(* What happens around the plugin.                                         *)

\* Someone else changes or deletes a feature after its baseline was recorded.
ForeignEdit ==
    /\ \E e \in (used \cap (Changes \cup Deletes)) \ foreign :
        /\ foreign' = foreign \cup {e}
        /\ gone' \in {gone, gone \cup {e}}
    /\ UNCHANGED <<providerVars, storeVars, layerVars, timerVars, account, crashes,
                   historyVars>>

\* Someone deletes a copy in another session of the same profile; delete_copies
\* there cannot see this session's open edits, nor does it look at locks.
OtherSessionDeletes(d) ==
    /\ Sessions
    /\ Exists(d)
    /\ disk' = Without(d)
    /\ owed' = owed \ EditsOf(disk[d].ops)
    /\ UNCHANGED <<providerVars, locks, issued, layerVars, timerVars, aroundVars, reviewed>>

SwitchAccount ==
    /\ Quiet
    /\ stage = "idle"
    /\ account' \in Accounts \ {account}
    /\ UNCHANGED <<providerVars, storeVars, layerVars, timerVars, foreign, gone, crashes,
                   historyVars>>

\* The layer comes back from the project file, whose provider URI and layer
\* properties are as of its last save, with a new provider. _find_document takes
\* the copy the layer names, or any copy of this layer.
LayerLoads(journal) ==
    /\ buffer' = {}
    /\ stage' = "idle"
    /\ left' = {}
    /\ awaited' = None
    /\ reply' = "none"
    /\ created' = [c \in Creates |-> 0]
    /\ deleted' = {}
    /\ BeginSaveSession
    /\ uncertain' \in {FALSE, uncertain}
    /\ IF \A d \in Docs : journal[d].state = "absent"
       THEN mine' = Forgotten /\ marked' \in {FALSE, marked}
       ELSE \E d \in Docs :
                /\ journal[d].state # "absent"
                /\ mine' = [doc |-> d, copy |-> journal[d], bound |-> FALSE]
                /\ marked' = (journal[d].state = "conflict")
    /\ editing' = FALSE
    /\ owner' = account
    /\ stray' = FALSE
    /\ UNCHANGED <<content, used, saves, wire, serverVars, historyOfSave>>

\* QGIS dies at any moment and is started again. What is on disk, and what is on
\* the network, survives.
Crash ==
    /\ crashes < MaxCrashes
    /\ crashes' = crashes + 1
    /\ LayerLoads(disk)
    /\ commit' = NoDoc
    /\ fresh' = FALSE
    /\ flushDue' = FALSE
    /\ judgeDue' = FALSE
    /\ caller' = "nobody"
    /\ sync' = NoSync
    /\ UNCHANGED <<storeVars, account, foreign, gone, historyVars>>

\* _removing and watch_layers: commits and attempted_from_pending outlive the
\* layer, which comes back under the same id. A check under way then fails on the
\* deleted layer, and so does the judgement of a Save.
ReopenProject ==
    /\ Reopens
    /\ Quiet
    /\ stage = "idle"
    /\ ~flushDue
    /\ judgeDue' = FALSE
    /\ sync' = NoSync
    /\ LayerLoads(disk)
    /\ UNCHANGED <<storeVars, commit, fresh, flushDue, caller, aroundVars, historyVars>>

-----------------------------------------------------------------------------
SaveStep == SaveSucceeds \/ SaveGroupSucceeds \/ SaveStops \/ SaveAdvances

TimerStep == Flush \/ AfterCommitReturns

UploadStep ==
    \/ ReadVersions \/ CheckFails
    \/ CheckIsStale \/ CheckFindsConflict \/ Claim
    \/ UploadRestores \/ UploadStarts \/ UploadGivesUp \/ UploadReturns

PersonStep ==
    \/ Edit \/ UndoEdit \/ Discard \/ Save \/ EmptySave \/ BeginCheck
    \/ \E d \in Docs : RestoreForReview(d) \/ DeleteCopy(d)
    \/ SwitchAccount \/ ReopenProject

WorldStep ==
    \/ ServerStep /\ UNCHANGED journalVars
    \/ ForeignEdit
    \/ \E d \in Docs : OtherSessionDeletes(d)
    \/ Crash

Next == PersonStep \/ TimerStep \/ SaveStep \/ UploadStep \/ WorldStep

\* Timers fire, the provider's event loop turns and worker tasks end; people and
\* servers owe nothing.
Spec ==
    /\ Init
    /\ [][Next]_vars
    /\ WF_vars(TimerStep)
    /\ WF_vars(SaveStep)
    /\ WF_vars(UploadStep)

-----------------------------------------------------------------------------
(* What the recovery journal promises.                                     *)

OnServer(e) == IF e \in Creates THEN rows[e] > 0 ELSE e \in applied

Unsent(e) == ~OnServer(e) /\ ~\E r \in wire : r.edit = e

\* A copy which may upload itself holds nothing the server has, or may yet get, but for
\* what a person restored from a held or locked copy: otherwise the upload would send it
\* twice. (snapshot, before_commit, _warn_failed_save, save_refusal, and claim: a locked
\* copy never uploads itself.)
PendingIsUnsent ==
    \A d \in Docs \ locks : disk[d].state = "pending" =>
        \A e \in EditsOf(disk[d].ops) : e \in reviewed \/ Unsent(e)

\* Only a person who restored a held or locked copy can create a feature twice; nothing the
\* plugin retries, uploads or recovers by itself does, through crashes too.
DuplicateOnlyAfterReview == \A c \in Creates : rows[c] > 1 => c \in reviewed

\* A claim which a crash left behind: nothing ever takes it away.
StaleLock == \E d \in locks : ~(sync.phase = "claimed" /\ sync.doc = d)

\* An edit that was journaled is in some copy on disk until the server confirmed
\* it, or the person undid, discarded or deleted it.
EditsAreAlwaysKept == \A e \in owed : \E d \in Docs : e \in EditsOf(disk[d].ops)

\* The same as long as no crash left a claim behind, which is what the code achieves
\* (snapshot, _persist, rolled_back, committed, delete_copies).
EditsAreKept == ~StaleLock => EditsAreAlwaysKept

\* While Connect uploads, it sends edits of the copy whose versions were checked,
\* for the account that made them, and no others (_check_and_push: "A callback must not
\* send edits made during its read").
UploadIsAlwaysWhatWasChecked ==
    caller = "connect" /\ stage # "idle" =>
        /\ BufferOps \subseteq sync.copy.ops
        /\ sync.copy.email = account

\* The same as long as no crash left a claim behind, which is what the code achieves: a
\* copy with such a claim enters the buffer and not the journal.
UploadIsWhatWasChecked == ~StaleLock => UploadIsAlwaysWhatWasChecked

\* While Connect uploads, the copy is claimed and, unless another session deleted
\* it, uncertain on disk, whatever journal write failed: if QGIS dies now, nobody
\* sends it again by itself ("Persist uncertainty BEFORE the first native request").
UploadIsDurablyUncertain ==
    caller = "connect" /\ stage # "idle" =>
        /\ disk[sync.doc].state \in {"uncertain", "absent"}
        /\ sync.doc \in locks

\* A Save without edits acknowledges nothing (committed: "An empty Save ... is not
\* acknowledgement of this journal").
EmptySaveAcknowledgesNothing == [][EmptySave => disk' = disk]_vars

\* An upload on Connect ends, whatever the server and the person do, and gives its
\* claim back.
UploadEnds == sync.phase # "idle" ~> sync.phase = "idle"
ClaimIsReleased == locks # {} ~> locks = {}
=============================================================================
