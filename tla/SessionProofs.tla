---------------------------- MODULE SessionProofs ----------------------------
(* Types of the session, and that the credentials QGIS holds are those of the *)
(* account it shows: proofs about module Session.                             *)
EXTENDS Session, SequenceTheorems, TLAPS

Sessions == [gen : 0..MaxGen, refreshing : BOOLEAN, repairing : BOOLEAN]

-----------------------------------------------------------------------------
(* What the kinds of tasks, entries and frames are made of.                 *)

\* A task which is not a read or a write has a generation and an account.
LEMMA TaskParts ==
    ASSUME NEW t \in Tasks
    PROVE  /\ t.kind \in {"exchange", "renew", "read", "write"}
           /\ t.kind \in {"exchange", "renew"} => t.gen \in 0..MaxGen /\ t.account \in Accounts
           /\ t.kind = "read" => t \in Reads
BY DEF Tasks, Reads

\* An entry is an action, or a read to be submitted again.
LEMMA EntryParts ==
    ASSUME NEW e \in Entries
    PROVE  /\ e.kind \in Actions \cup {"retry"}
           /\ e.kind = "retry" => e.read \in Reads
BY DEF Entries, Actions

\* A frame is a replay, with the entries left and whether it is valid, or a dialog.
LEMMA FrameParts ==
    ASSUME NEW f \in Frames
    PROVE  /\ f.kind \in Dialogs \cup {"replay"}
           /\ f.kind = "replay" => f.rest \in Seq(Entries) /\ f.valid \in BOOLEAN
BY DEF Frames, Dialogs

\* A cancelled stack is the stack, its replays no longer valid.
LEMMA AbandonedStack ==
    ASSUME NEW S \in Seq(Frames)
    PROVE  /\ Abandoned(S) \in Seq(Frames)
           /\ Len(Abandoned(S)) = Len(S)
           /\ \A n \in 1..Len(S) :
                 /\ Abandoned(S)[n].kind = S[n].kind
                 /\ S[n].kind = "replay" => ~Abandoned(S)[n].valid
<1> DEFINE quiet(n) == IF S[n].kind = "replay" THEN [S[n] EXCEPT !.valid = FALSE] ELSE S[n]
<1>1. Len(S) \in Nat /\ DOMAIN S = 1..Len(S) /\ \A n \in 1..Len(S) : S[n] \in Frames
  BY LenProperties
<1>2. ASSUME NEW n \in 1..Len(S)
      PROVE  /\ quiet(n) \in Frames /\ quiet(n).kind = S[n].kind
             /\ S[n].kind = "replay" => ~quiet(n).valid
  <2>1. CASE S[n].kind = "replay"
    <3>1. S[n] \in [kind : {"replay"}, rest : Seq(Entries), valid : BOOLEAN]
      BY <1>1, <2>1 DEF Frames, Dialogs
    <3>2. quiet(n) = [S[n] EXCEPT !.valid = FALSE]
      BY <2>1
    <3>3. /\ quiet(n) \in [kind : {"replay"}, rest : Seq(Entries), valid : BOOLEAN]
          /\ quiet(n).kind = "replay" /\ ~quiet(n).valid
      BY <3>1, <3>2
    <3> QED
      BY <3>3, <2>1 DEF Frames
  <2>2. CASE S[n].kind # "replay"
    BY <1>1, <2>2
  <2> QED
    BY <2>1, <2>2
<1>3. Abandoned(S) = [n \in 1..Len(S) |-> quiet(n)]
  BY <1>1 DEF Abandoned
<1> HIDE DEF quiet
<1>4. Abandoned(S) \in [1..Len(S) -> Frames]
  BY <1>2, <1>3
<1>5. Abandoned(S) \in Seq(Frames) /\ Len(Abandoned(S)) = Len(S)
  BY <1>4, <1>1
<1> QED
  BY <1>2, <1>3, <1>5

-----------------------------------------------------------------------------
(* Types.                                                                   *)

\* The variables which requests, results and replays work on.
QueueTypes ==
    /\ queue \in Seq(Entries)
    /\ stack \in Seq(Frames)
    /\ tasks \subseteq Tasks
    /\ session \in Sessions

\* A frame put on top of a stack, and the stack below one.
LEMMA PushedStack ==
    ASSUME NEW S \in Seq(Frames), NEW f \in Frames
    PROVE  /\ <<f>> \o S \in Seq(Frames)
           /\ Len(<<f>> \o S) = Len(S) + 1
           /\ (<<f>> \o S)[1] = f
           /\ \A n \in 1..Len(S) : (<<f>> \o S)[n + 1] = S[n]
           /\ \A n \in 2..(Len(S) + 1) : (<<f>> \o S)[n] = S[n - 1]
<1>1. <<f>> \in Seq(Frames) /\ Len(<<f>>) = 1 /\ <<f>>[1] = f
  OBVIOUS
<1>2. Len(S) \in Nat
  OBVIOUS
<1> QED
  BY <1>1, <1>2, ConcatProperties, Z3

\* The replay frame which resume() makes, and its next state.
LEMMA ReplayFrames ==
    /\ \A q \in Seq(Entries) : [kind |-> "replay", rest |-> q, valid |-> TRUE] \in Frames
    /\ \A d \in Dialogs : [kind |-> d] \in Frames
    /\ \A f \in Frames :
          f.kind = "replay" /\ f.rest # <<>> =>
             /\ [f EXCEPT !.rest = Tail(@)] \in Frames
             /\ [f EXCEPT !.rest = Tail(@)].kind = "replay"
             /\ [f EXCEPT !.rest = Tail(@)].valid = f.valid
             /\ [f EXCEPT !.rest = Tail(@)].rest = Tail(f.rest)
<1>1. \A q \in Seq(Entries) : [kind |-> "replay", rest |-> q, valid |-> TRUE] \in Frames
  BY DEF Frames
<1>2. \A d \in Dialogs : [kind |-> d] \in Frames
  BY DEF Frames
<1>3. ASSUME NEW f \in Frames, f.kind = "replay", f.rest # <<>>
      PROVE  /\ [f EXCEPT !.rest = Tail(@)] \in Frames
             /\ [f EXCEPT !.rest = Tail(@)].kind = "replay"
             /\ [f EXCEPT !.rest = Tail(@)].valid = f.valid
             /\ [f EXCEPT !.rest = Tail(@)].rest = Tail(f.rest)
  <2>1. f \in [kind : {"replay"}, rest : Seq(Entries), valid : BOOLEAN]
    BY <1>3 DEF Frames, Dialogs
  <2>2. Tail(f.rest) \in Seq(Entries)
    BY <2>1, <1>3, HeadTailProperties
  <2> QED
    BY <2>1, <2>2 DEF Frames
<1> QED
  BY <1>1, <1>2, <1>3

\* A task a renewal, a read or an upload starts is a task.
LEMMA TaskTypes ==
    /\ \A gen \in 0..MaxGen, account \in Accounts :
          /\ [kind |-> "renew", gen |-> gen, account |-> account] \in Tasks
          /\ [kind |-> "exchange", gen |-> gen, account |-> account] \in Tasks
    /\ \A r \in Reads : r \in Tasks /\ r.kind = "read"
    /\ \A number \in Nat, of \in {"publish", "push"} :
          [kind |-> "write", of |-> of, number |-> number] \in Tasks
BY DEF Tasks, Reads

\* What no handler but a sign-in or a sign-out goes beyond: the session stays, and a new
\* task is a read, an upload or a renewal by the stored renewal token.
Quiet ==
    /\ session'.gen = session.gen
    /\ \A t \in tasks' :
          \/ t \in tasks \/ t.kind \in {"read", "write"}
          \/ renewal # Nobody /\ t = [kind |-> "renew", gen |-> session.gen, account |-> renewal]

\* _refresh_credential keeps the types, and is quiet.
LEMMA RefreshTypes ==
    ASSUME TypeOK,
           NEW waiting \in Seq(Entries), NEW T \in SUBSET tasks, NEW S \in Seq(Frames),
           NEW s \in Sessions, s.gen = session.gen, Refresh(waiting, T, S, s)
    PROVE  QueueTypes' /\ Quiet
<1>0. tasks \subseteq Tasks
  BY DEF TypeOK
<1>1. CASE s.refreshing
  BY <1>0, <1>1 DEF Refresh, QueueTypes, Quiet
<1>2. CASE CancelPending(S) /\ tasks' = T /\ session' = [s EXCEPT !.repairing = FALSE]
  <2>1. stack' \in Seq(Frames) /\ queue' = <<>>
    BY <1>2, AbandonedStack DEF CancelPending
  <2>2. session' \in Sessions /\ session'.gen = s.gen
    BY <1>2 DEF Sessions
  <2> QED
    BY <1>0, <1>2, <2>1, <2>2 DEF QueueTypes, Quiet
<1>3. CASE /\ renewal # Nobody
           /\ queue' = waiting /\ stack' = S
           /\ tasks' = T \cup {[kind |-> "renew", gen |-> s.gen, account |-> renewal]}
           /\ session' = [s EXCEPT !.refreshing = TRUE]
  <2>1. renewal \in Accounts /\ s.gen \in 0..MaxGen
    BY <1>3 DEF TypeOK, Owners, Sessions
  <2>2. [kind |-> "renew", gen |-> s.gen, account |-> renewal] \in Tasks
    BY <2>1, TaskTypes
  <2>3. session' \in Sessions /\ session'.gen = s.gen
    BY <1>3 DEF Sessions
  <2> QED
    BY <1>0, <1>3, <2>2, <2>3 DEF QueueTypes, Quiet
<1> QED
  BY <1>1, <1>2, <1>3 DEF Refresh

\* What TypeOK says of those variables.
LEMMA TypesOfQueue ==
    ASSUME TypeOK
    PROVE  QueueTypes
BY DEF TypeOK, QueueTypes, Sessions

\* A task which asks for nothing changes none of them.
LEMMA NothingIsQuiet ==
    ASSUME TypeOK, NEW S \in Seq(Frames), stack' = S,
           UNCHANGED <<queue, session>>, tasks' \subseteq tasks
    PROVE  QueueTypes' /\ Quiet
BY TypesOfQueue DEF QueueTypes, Quiet

\* _repair_after_401 keeps the types, and is quiet.
LEMMA RepairTypes ==
    ASSUME TypeOK,
           NEW waiting \in Seq(Entries), NEW T \in SUBSET tasks, NEW S \in Seq(Frames),
           Repair(waiting, T, S)
    PROVE  QueueTypes' /\ Quiet
<1>1. CASE queue' = waiting /\ stack' = S /\ tasks' = T /\ UNCHANGED session
  BY <1>1, TypesOfQueue DEF QueueTypes, Quiet
<1>2. CASE Refresh(waiting, T, S, [session EXCEPT !.repairing = TRUE])
  <2>1. /\ [session EXCEPT !.repairing = TRUE] \in Sessions
        /\ [session EXCEPT !.repairing = TRUE].gen = session.gen
    BY DEF TypeOK, Sessions
  <2> QED
    BY <1>2, <2>1, RefreshTypes
<1> QED
  BY <1>1, <1>2 DEF Repair

\* A request which has to wait parks itself.
LEMMA ParkTypes ==
    ASSUME TypeOK, NEW a \in Actions, NEW S \in Seq(Frames),
           Refresh(Append(queue, [kind |-> a]), tasks, S, session)
    PROVE  QueueTypes' /\ Quiet
<1>1. [kind |-> a] \in Entries
  BY DEF Entries
<1>2. Append(queue, [kind |-> a]) \in Seq(Entries)
  BY <1>1, TypesOfQueue, AppendProperties DEF QueueTypes
<1> QED
  BY <1>2, RefreshTypes, TypesOfQueue DEF QueueTypes

\* What a read remembers of the session is of the type of a read.
LEMMA ReadTypes ==
    ASSUME TypeOK, NEW retry \in BOOLEAN, NEW number \in Nat
    PROVE  ReadOf(retry, number) \in Reads
BY DEF TypeOK, ReadOf, Reads

\* An action that goes past its check of the token is counted.
LEMMA BeganTypes ==
    ASSUME TypeOK, NEW a \in Actions, Began(a)
    PROVE  begun' \in [Actions -> Nat]
BY DEF TypeOK, Began

\* connect_backend
LEMMA ConnectTypes ==
    ASSUME TypeOK, NEW S \in Seq(Frames), Connect(S)
    PROVE  QueueTypes' /\ Quiet /\ serial' \in Nat /\ begun' \in [Actions -> Nat]
<1>1. CASE MustWait(S)
  <2>1. /\ Refresh(Append(queue, [kind |-> "connect"]), tasks, S, session)
        /\ UNCHANGED <<serial, begun>>
    BY <1>1 DEF Connect
  <2> QED
    BY <2>1, ParkTypes DEF TypeOK, Actions
<1>2. CASE ~MustWait(S)
  <2>1. /\ serial' = serial + 1
        /\ tasks' = tasks \cup {ReadOf(FALSE, serial + 1)}
        /\ stack' = S /\ Began("connect") /\ UNCHANGED <<queue, session>>
    BY <1>2 DEF Connect
  <2>2. ReadOf(FALSE, serial + 1) \in Reads
    <3>1. serial + 1 \in Nat
      BY DEF TypeOK
    <3> QED
      BY <3>1, ReadTypes
  <2>3. ReadOf(FALSE, serial + 1) \in Tasks /\ ReadOf(FALSE, serial + 1).kind = "read"
    BY <2>2, TaskTypes
  <2>4. begun' \in [Actions -> Nat] /\ serial' \in Nat
    BY <2>1, BeganTypes DEF TypeOK, Actions
  <2> QED
    BY <2>1, <2>3, <2>4, TypesOfQueue DEF QueueTypes, Quiet
<1> QED
  BY <1>1, <1>2

\* publish_local_layers, as far as its preview
LEMMA PublishTypes ==
    ASSUME TypeOK, NEW S \in Seq(Frames), Publish(S)
    PROVE  QueueTypes' /\ Quiet /\ UNCHANGED serial /\ begun' \in [Actions -> Nat]
<1>1. CASE publishing \/ ~registry
  BY <1>1, NothingIsQuiet DEF Publish, TypeOK
<1>2. CASE ~(publishing \/ ~registry) /\ MustWait(S)
  <2>1. /\ Refresh(Append(queue, [kind |-> "publish"]), tasks, S, session)
        /\ UNCHANGED <<serial, begun>>
    BY <1>2 DEF Publish
  <2> QED
    BY <2>1, ParkTypes DEF TypeOK, Actions
<1>3. CASE ~(publishing \/ ~registry) /\ ~MustWait(S)
  <2>1. /\ stack' = <<[kind |-> "preview"]>> \o S
        /\ Began("publish") /\ UNCHANGED <<queue, session, tasks, serial>>
    BY <1>3 DEF Publish
  <2>2. stack' \in Seq(Frames)
    BY <2>1, PushedStack, ReplayFrames DEF Dialogs
  <2>3. begun' \in [Actions -> Nat]
    BY <2>1, BeganTypes DEF Actions
  <2> QED
    BY <2>1, <2>2, <2>3, TypesOfQueue DEF QueueTypes, Quiet
<1> QED
  BY <1>1, <1>2, <1>3

\* PushAllLocal.push
LEMMA PushTypes ==
    ASSUME TypeOK, NEW S \in Seq(Frames), Push(S)
    PROVE  /\ QueueTypes' /\ Quiet /\ UNCHANGED serial /\ begun' \in [Actions -> Nat]
           /\ publishing' \in BOOLEAN
<1>1. CASE publishing \/ ~registry
  BY <1>1, NothingIsQuiet DEF Push, TypeOK
<1>2. CASE ~(publishing \/ ~registry) /\ MustWait(S)
  <2>1. /\ Refresh(Append(queue, [kind |-> "push"]), tasks, S, session)
        /\ UNCHANGED <<serial, publishing, begun>>
    BY <1>2 DEF Push
  <2> QED
    BY <2>1, ParkTypes DEF TypeOK, Actions
<1>3. CASE ~(publishing \/ ~registry) /\ ~MustWait(S)
  <2>1. /\ \/ /\ publishing' = TRUE /\ Began("push")
              /\ tasks' = IF HasAction THEN tasks \cup {WriteOf("push")} ELSE tasks
           \/ UNCHANGED <<publishing, tasks, begun>>
        /\ stack' = S /\ UNCHANGED <<queue, session, serial>>
    BY <1>3 DEF Push
  <2>2. WriteOf("push") \in Tasks /\ WriteOf("push").kind = "write"
    BY TaskTypes DEF TypeOK, Actions, WriteOf
  <2>3. begun' \in [Actions -> Nat]
    <3>1. Began("push") \/ begun' = begun
      BY <2>1
    <3> QED
      BY <3>1, BeganTypes DEF Actions, TypeOK
  <2>4. publishing' \in BOOLEAN
    BY <2>1 DEF TypeOK
  <2> QED
    BY <2>1, <2>2, <2>3, <2>4, TypesOfQueue DEF QueueTypes, Quiet
<1> QED
  BY <1>1, <1>2, <1>3

\* A read submitted again after a renewal
LEMMA RetryTypes ==
    ASSUME TypeOK, NEW S \in Seq(Frames), NEW read \in Reads, Retry(read, S)
    PROVE  QueueTypes' /\ Quiet /\ UNCHANGED <<serial, begun>>
<1>1. [read EXCEPT !.retry = TRUE] \in Reads
  BY DEF Reads
<1>2. /\ [read EXCEPT !.retry = TRUE] \in Tasks
      /\ [read EXCEPT !.retry = TRUE].kind = "read"
  BY <1>1, TaskTypes
<1> QED
  BY <1>2, TypesOfQueue DEF QueueTypes, Quiet, Retry

\* The kinds of entry are apart.
LEMMA PerformCases ==
    ASSUME NEW e \in Entries, NEW S, Perform(e, S)
    PROVE  \/ e.kind = "connect" /\ Connect(S) /\ UNCHANGED publishing
           \/ e.kind = "publish" /\ Publish(S) /\ UNCHANGED publishing
           \/ e.kind = "push" /\ Push(S)
           \/ e.kind = "retry" /\ Retry(e.read, S) /\ UNCHANGED publishing
<1>1. e.kind \in {"connect", "publish", "push", "retry"}
  BY EntryParts DEF Actions
<1>2. CASE e.kind = "connect"
  BY <1>2 DEF Perform
<1>3. CASE e.kind = "publish"
  BY <1>3 DEF Perform
<1>4. CASE e.kind = "push"
  BY <1>4 DEF Perform
<1>5. CASE e.kind = "retry"
  BY <1>5 DEF Perform
<1> QED
  BY <1>1, <1>2, <1>3, <1>4, <1>5

\* One turn of the loop of resume().
LEMMA ReplayTypes ==
    ASSUME TypeOK, ReplayNext
    PROVE  /\ QueueTypes' /\ Quiet /\ serial' \in Nat /\ begun' \in [Actions -> Nat]
           /\ publishing' \in BOOLEAN
<1> DEFINE frame == Head(stack)
           below == <<[frame EXCEPT !.rest = Tail(@)]>> \o Tail(stack)
<1>1. stack # <<>> /\ frame.kind \notin Dialogs
  BY DEF ReplayNext, Delivers, Idle
<1>2. frame \in Frames /\ Tail(stack) \in Seq(Frames)
  BY <1>1, HeadTailProperties, TypesOfQueue DEF QueueTypes
<1>3. frame.kind = "replay" /\ frame.rest \in Seq(Entries)
  BY <1>1, <1>2, FrameParts
<1>4. CASE frame.valid /\ frame.rest # <<>>
  <2>1. Head(frame.rest) \in Entries
    BY <1>3, <1>4, HeadTailProperties
  <2>2. [frame EXCEPT !.rest = Tail(@)] \in Frames
    BY <1>2, <1>3, <1>4, ReplayFrames
  <2>3. below \in Seq(Frames)
    BY <1>2, <2>2, PushedStack
  <2>4. Perform(Head(frame.rest), below)
    BY <1>4 DEF ReplayNext
  <2> HIDE DEF below, frame
  <2>5. Head(frame.rest).kind = "retry" => Head(frame.rest).read \in Reads
    BY <2>1, EntryParts
  <2>6. CASE Connect(below) /\ UNCHANGED publishing
    BY <2>3, <2>6, ConnectTypes DEF TypeOK
  <2>7. CASE Publish(below) /\ UNCHANGED publishing
    BY <2>3, <2>7, PublishTypes DEF TypeOK
  <2>8. CASE Push(below)
    BY <2>3, <2>8, PushTypes DEF TypeOK
  <2>9. CASE Head(frame.rest).kind = "retry" /\ Retry(Head(frame.rest).read, below) /\ UNCHANGED publishing
    BY <2>3, <2>5, <2>9, RetryTypes DEF TypeOK
  <2> QED
    BY <2>1, <2>4, <2>6, <2>7, <2>8, <2>9, PerformCases
<1>5. CASE ~(frame.valid /\ frame.rest # <<>>)
  <2>1. stack' = Tail(stack) /\ UNCHANGED <<queue, session, tasks, serial, publishing, begun>>
    BY <1>5 DEF ReplayNext
  <2> QED
    BY <1>2, <2>1, NothingIsQuiet DEF TypeOK
<1> QED
  BY <1>4, <1>5

-----------------------------------------------------------------------------
(* The steps which store or remove a credential, and all others.            *)

PanelTypes ==
    /\ serial \in Nat
    /\ signin \in BOOLEAN /\ timer \in BOOLEAN /\ registry \in BOOLEAN
    /\ publishing \in BOOLEAN
    /\ asks \in [Actions -> Nat] /\ begun \in [Actions -> Nat]

\* What a step which stores no credential may do to the layer.
LayerStep ==
    \/ UNCHANGED layer
    \/ ~layer.editing /\ layer' = [layer EXCEPT !.editing = TRUE, !.owner = settings.email]
    \/ layer.editing /\ layer' = [layer EXCEPT !.editing = FALSE, !.owner = Nobody]
    \/ /\ ~layer.editing /\ settings.config # NoConfig
       /\ layer' = [layer EXCEPT !.config = settings.config]

\* A step which stores no credential: at most the token becomes due.
Calm ==
    /\ QueueTypes' /\ Quiet /\ PanelTypes'
    /\ UNCHANGED <<remembered, vault, renewal, consented>>
    /\ \/ UNCHANGED settings
       \/ settings' = [settings EXCEPT !.due = TRUE]
    /\ LayerStep

\* _store_credential, past its question about open edits
SignedIn(t) ==
    /\ t \in tasks /\ t.kind = "exchange" /\ Mine(t)
    /\ ~MustFinishEditing(t.account)
    /\ tasks' = tasks \ {t}
    /\ StoreIdToken(t.account, Existing(t.account))
    /\ StoreRenewalToken(t.account)
    /\ remembered' = [email |-> Nobody, config |-> NoConfig]
    /\ timer' = TRUE
    /\ Advance(stack)
    /\ UNCHANGED <<signin, layer, publishing, consented, asks, begun>>

\* _on_refreshed of the present session
RenewedBy(t) ==
    /\ t \in tasks /\ t.kind = "renew" /\ Mine(t)
    /\ tasks' = tasks \ {t}
    /\ StoreIdToken(t.account, settings.config)
    /\ StoreRenewalToken(t.account)
    /\ timer' = TRUE
    /\ session' = [session EXCEPT !.refreshing = FALSE, !.repairing = FALSE]
    /\ Resume(stack)
    /\ UNCHANGED <<remembered, layer, serial, signin, registry, publishing, consented, asks, begun>>

\* What TypeOK says of the panel.
LEMMA TypesOfPanel ==
    ASSUME TypeOK
    PROVE  PanelTypes
BY DEF TypeOK, PanelTypes

\* Dropping what waits is quiet.
LEMMA CancelTypes ==
    ASSUME TypeOK, CancelPending(stack), tasks' \subseteq tasks,
           \/ UNCHANGED session
           \/ session' = [session EXCEPT !.refreshing = FALSE, !.repairing = FALSE]
    PROVE  QueueTypes' /\ Quiet
<1>1. stack' \in Seq(Frames) /\ queue' = <<>>
  BY AbandonedStack DEF CancelPending, TypeOK
<1>2. session' \in Sessions /\ session'.gen = session.gen
  BY DEF TypeOK, Sessions
<1> QED
  BY <1>1, <1>2 DEF QueueTypes, Quiet, TypeOK

\* A dialog is opened or not.
LEMMA OpenedTypes ==
    ASSUME TypeOK, NEW d \in Dialogs, stack' \in {stack, <<[kind |-> d]>> \o stack},
           UNCHANGED <<queue, session>>, tasks' \subseteq tasks
    PROVE  QueueTypes' /\ Quiet
<1>1. stack' \in Seq(Frames)
  BY PushedStack, ReplayFrames DEF TypeOK
<1> QED
  BY <1>1, TypesOfQueue DEF QueueTypes, Quiet

\* A dialog is closed.
LEMMA ClosedStack ==
    ASSUME TypeOK, ~Idle
    PROVE  Tail(stack) \in Seq(Frames)
BY HeadTailProperties DEF TypeOK, Idle

\* An action the person asks for is counted.
LEMMA AskedTypes ==
    ASSUME TypeOK, NEW a \in Actions, Asked(a)
    PROVE  asks' \in [Actions -> Nat] /\ UNCHANGED consented
BY DEF TypeOK, Asked

\* An exchange stores what came back, or does nothing to the credentials.
LEMMA ExchangeCases ==
    ASSUME TypeOK, NEW t \in tasks, ExchangeAnswered(t)
    PROVE  Calm \/ SignedIn(t)
<1> USE DEF credentialVars, historyVars
<1>0. t.kind = "exchange" /\ UNCHANGED <<layer, publishing, historyVars>>
  BY DEF ExchangeAnswered
<1>1. CASE Mine(t) /\ tasks' = tasks \ {t} /\ StoreCredential(t.account) /\ UNCHANGED signin
  <2>1. CASE MustFinishEditing(t.account)
    <3>1. UNCHANGED <<credentialVars, session, queue, stack, serial, registry>>
      BY <1>1, <2>1 DEF StoreCredential
    <3>2. QueueTypes' /\ Quiet
      BY <1>1, <3>1, NothingIsQuiet DEF TypeOK
    <3> QED
      BY <1>0, <1>1, <3>1, <3>2, TypesOfPanel DEF Calm, PanelTypes, LayerStep
  <2>2. CASE ~MustFinishEditing(t.account)
    BY <1>0, <1>1, <2>2 DEF SignedIn, StoreCredential
  <2> QED
    BY <2>1, <2>2
<1>2. CASE /\ Mine(t) /\ signin' = FALSE
           /\ \/ CancelPending(stack) /\ tasks' = tasks \ {t} /\ UNCHANGED session
              \/ Repair(<<>>, tasks \ {t}, Abandoned(stack))
           /\ UNCHANGED <<credentialVars, serial, registry>>
  <2>1. CASE CancelPending(stack) /\ tasks' = tasks \ {t} /\ UNCHANGED session
    <3>1. QueueTypes' /\ Quiet
      BY <2>1, CancelTypes
    <3> QED
      BY <1>0, <1>2, <3>1, TypesOfPanel DEF Calm, PanelTypes, LayerStep
  <2>2. CASE Repair(<<>>, tasks \ {t}, Abandoned(stack))
    <3>1. Abandoned(stack) \in Seq(Frames) /\ <<>> \in Seq(Entries)
      BY AbandonedStack DEF TypeOK
    <3>2. QueueTypes' /\ Quiet
      BY <2>2, <3>1, RepairTypes
    <3> QED
      BY <1>0, <1>2, <3>2, TypesOfPanel DEF Calm, PanelTypes, LayerStep
  <2> QED
    BY <1>2, <2>1, <2>2
<1>3. CASE /\ ~Mine(t) /\ tasks' = tasks \ {t}
           /\ UNCHANGED <<credentialVars, session, queue, stack, serial, signin, registry>>
  <2>1. QueueTypes' /\ Quiet
    BY <1>3, NothingIsQuiet DEF TypeOK
  <2> QED
    BY <1>0, <1>3, <2>1, TypesOfPanel DEF Calm, PanelTypes, LayerStep
<1> QED
  BY <1>1, <1>2, <1>3 DEF ExchangeAnswered

\* A renewal stores what came back, or does nothing to the credentials.
LEMMA RenewalCases ==
    ASSUME TypeOK, NEW t \in tasks, RenewalAnswered(t)
    PROVE  Calm \/ RenewedBy(t)
<1> USE DEF credentialVars, panelVars, historyVars
<1>0. /\ t.kind = "renew" /\ tasks' = tasks \ {t}
      /\ UNCHANGED <<layer, serial, panelVars, historyVars>>
  BY DEF RenewalAnswered
<1>1. CASE /\ Mine(t)
           /\ StoreIdToken(t.account, settings.config)
           /\ StoreRenewalToken(t.account)
           /\ timer' = TRUE
           /\ session' = [session EXCEPT !.refreshing = FALSE, !.repairing = FALSE]
           /\ Resume(stack)
           /\ UNCHANGED remembered
  BY <1>0, <1>1 DEF RenewedBy
<1>2. CASE Mine(t) /\ GiveUpRefresh(stack) /\ UNCHANGED credentialVars
  <2>1. QueueTypes' /\ Quiet
    BY <1>0, <1>2, CancelTypes DEF GiveUpRefresh
  <2> QED
    BY <1>0, <1>2, <2>1, TypesOfPanel DEF Calm, PanelTypes, LayerStep
<1>3. CASE ~Mine(t) /\ UNCHANGED <<credentialVars, session, queue, stack>>
  <2>1. QueueTypes' /\ Quiet
    BY <1>0, <1>3, NothingIsQuiet DEF TypeOK
  <2> QED
    BY <1>0, <1>3, <2>1, TypesOfPanel DEF Calm, PanelTypes, LayerStep
<1> QED
  BY <1>1, <1>2, <1>3 DEF RenewalAnswered

\* The answer to a read stores no credential.
LEMMA ReadCalm ==
    ASSUME TypeOK, NEW t \in tasks, ReadAnswered(t)
    PROVE  Calm
<1> USE DEF credentialVars, historyVars
<1>0. t.kind = "read" /\ UNCHANGED <<credentialVars, serial, signin, publishing, historyVars>>
  BY DEF ReadAnswered
<1>1. CASE tasks' = tasks \ {t} /\ UNCHANGED <<queue, session, stack, layer, registry>>
  <2>1. QueueTypes' /\ Quiet
    BY <1>1, NothingIsQuiet DEF TypeOK
  <2> QED
    BY <1>0, <1>1, <2>1, TypesOfPanel DEF Calm, PanelTypes, LayerStep
<1>2. CASE tasks' = tasks \ {t} /\ Connected
  <2>1. /\ registry' = TRUE /\ LayerStep
        /\ stack' \in {stack, <<[kind |-> "offer"]>> \o stack} /\ UNCHANGED <<queue, session>>
    BY <1>2 DEF Connected, LayerStep
  <2>2. QueueTypes' /\ Quiet
    BY <1>2, <2>1, OpenedTypes DEF Dialogs
  <2> QED
    BY <1>0, <2>1, <2>2, TypesOfPanel DEF Calm, PanelTypes
<1>3. CASE tasks' = tasks \ {t} /\ registry' = FALSE /\ UNCHANGED <<queue, session, stack, layer>>
  <2>1. QueueTypes' /\ Quiet
    BY <1>3, NothingIsQuiet DEF TypeOK
  <2> QED
    BY <1>0, <1>3, <2>1, TypesOfPanel DEF Calm, PanelTypes, LayerStep
<1>4. CASE /\ Refresh(Append(queue, [kind |-> "retry", read |-> t]), tasks \ {t}, stack, session)
           /\ UNCHANGED <<layer, registry>>
  <2>1. t \in Reads
    BY <1>0, TaskParts DEF TypeOK
  <2>2. [kind |-> "retry", read |-> t] \in Entries
    BY <2>1 DEF Entries
  <2>3. Append(queue, [kind |-> "retry", read |-> t]) \in Seq(Entries)
    BY <2>2, AppendProperties DEF TypeOK
  <2>4. QueueTypes' /\ Quiet
    BY <1>4, <2>3, RefreshTypes, TypesOfQueue DEF QueueTypes
  <2> QED
    BY <1>0, <1>4, <2>4, TypesOfPanel DEF Calm, PanelTypes, LayerStep
<1> QED
  BY <1>1, <1>2, <1>3, <1>4 DEF ReadAnswered

\* Nor does the end of an upload.
LEMMA WriteCalm ==
    ASSUME TypeOK, NEW t \in tasks, WriteAnswered(t)
    PROVE  Calm
<1> USE DEF credentialVars, historyVars
<1>0. /\ publishing' = FALSE
      /\ UNCHANGED <<credentialVars, layer, serial, signin, registry, historyVars>>
  BY DEF WriteAnswered
<1>1. CASE /\ tasks' = tasks \ {t} /\ stack' \in {stack, <<[kind |-> "report"]>> \o stack}
           /\ UNCHANGED <<queue, session>>
  <2>1. QueueTypes' /\ Quiet
    BY <1>1, OpenedTypes DEF Dialogs
  <2> QED
    BY <1>0, <2>1, TypesOfPanel DEF Calm, PanelTypes, LayerStep
<1>2. CASE Repair(queue, tasks \ {t}, stack)
  <2>1. QueueTypes' /\ Quiet
    BY <1>2, RepairTypes DEF TypeOK
  <2> QED
    BY <1>0, <2>1, TypesOfPanel DEF Calm, PanelTypes, LayerStep
<1> QED
  BY <1>1, <1>2 DEF WriteAnswered

\* The loop of resume(), the timer and the clock store none either.
LEMMA QueueCalm ==
    ASSUME TypeOK, ReplayNext \/ TimerFires \/ TokenAges \/ SignInFails
    PROVE  Calm
<1> USE DEF credentialVars, panelVars, historyVars
<1>1. CASE ReplayNext
  <2>1. /\ QueueTypes' /\ Quiet /\ serial' \in Nat /\ begun' \in [Actions -> Nat]
        /\ publishing' \in BOOLEAN
    BY <1>1, ReplayTypes
  <2>2. UNCHANGED <<credentialVars, layer, signin, registry, consented, asks>>
    BY <1>1 DEF ReplayNext
  <2> QED
    BY <2>1, <2>2, TypesOfPanel DEF Calm, PanelTypes, LayerStep
<1>2. CASE TimerFires
  <2>1. /\ timer' = FALSE /\ Refresh(queue, tasks, stack, session)
        /\ UNCHANGED <<settings, remembered, vault, renewal, layer, serial, panelVars, historyVars>>
    BY <1>2 DEF TimerFires
  <2>2. QueueTypes' /\ Quiet
    BY <2>1, RefreshTypes, TypesOfQueue DEF QueueTypes
  <2> QED
    BY <2>1, <2>2, TypesOfPanel DEF Calm, PanelTypes, LayerStep
<1>3. CASE TokenAges
  <2>1. /\ settings' = [settings EXCEPT !.due = TRUE]
        /\ UNCHANGED <<remembered, vault, renewal, timer, layer, session, queue, stack, tasks,
                       serial, panelVars, historyVars>>
    BY <1>3 DEF TokenAges
  <2>2. QueueTypes' /\ Quiet
    BY <2>1, NothingIsQuiet DEF TypeOK
  <2> QED
    BY <2>1, <2>2, TypesOfPanel DEF Calm, PanelTypes, LayerStep
<1>4. CASE SignInFails
  <2>1. /\ signin' = FALSE /\ CancelPending(stack)
        /\ UNCHANGED <<credentialVars, layer, session, tasks, serial, registry, publishing, historyVars>>
    BY <1>4 DEF SignInFails
  <2>2. QueueTypes' /\ Quiet
    BY <2>1, CancelTypes
  <2> QED
    BY <2>1, <2>2, TypesOfPanel DEF Calm, PanelTypes, LayerStep
<1> QED
  BY <1>1, <1>2, <1>3, <1>4

\* Nor do the answers to a dialog.
LEMMA DialogCalm ==
    ASSUME TypeOK, DialogAnswered
    PROVE  Calm
<1> USE DEF credentialVars, panelVars, historyVars
<1>1. CASE CloseDialog
  <2>1. /\ ~Idle /\ stack' = Tail(stack)
        /\ UNCHANGED <<credentialVars, layer, session, queue, tasks, serial, panelVars, historyVars>>
    BY <1>1 DEF CloseDialog
  <2>2. QueueTypes' /\ Quiet
    BY <2>1, NothingIsQuiet, ClosedStack
  <2> QED
    BY <2>1, <2>2, TypesOfPanel DEF Calm, PanelTypes, LayerStep
<1>2. CASE AcceptPreview
  <2>1. /\ ~Idle /\ publishing' = TRUE /\ tasks' = tasks \cup {WriteOf("publish")}
        /\ stack' = Tail(stack)
        /\ UNCHANGED <<credentialVars, layer, session, queue, serial, signin, registry, historyVars>>
    BY <1>2 DEF AcceptPreview
  <2>2. WriteOf("publish") \in Tasks /\ WriteOf("publish").kind = "write"
    BY TaskTypes DEF TypeOK, Actions, WriteOf
  <2>3. QueueTypes' /\ Quiet
    BY <2>1, <2>2, ClosedStack, TypesOfQueue DEF QueueTypes, Quiet
  <2> QED
    BY <2>1, <2>3, TypesOfPanel DEF Calm, PanelTypes, LayerStep
<1>3. CASE AcceptOffer
  <2>1. /\ ~Idle /\ Asked("push") /\ Push(Tail(stack))
        /\ UNCHANGED <<credentialVars, layer, signin, registry>>
    BY <1>3 DEF AcceptOffer
  <2>2. QueueTypes' /\ Quiet /\ UNCHANGED serial /\ begun' \in [Actions -> Nat] /\ publishing' \in BOOLEAN
    BY <2>1, ClosedStack, PushTypes
  <2>3. asks' \in [Actions -> Nat] /\ UNCHANGED consented
    BY <2>1, AskedTypes DEF Actions
  <2> QED
    BY <2>1, <2>2, <2>3, TypesOfPanel DEF Calm, PanelTypes, LayerStep
<1> QED
  BY <1>1, <1>2, <1>3 DEF DialogAnswered

\* Nor does what the person does, but for signing out.
LEMMA PersonCalm ==
    ASSUME TypeOK,
           \/ AskConnect \/ AskPublish \/ SignIn \/ StartEditing \/ StopEditing
           \/ \E t \in tasks : CancelTask(t)
    PROVE  Calm
<1> USE DEF credentialVars, panelVars, historyVars
<1>0. stack \in Seq(Frames)
  BY DEF TypeOK
<1>1. CASE AskConnect
  <2>1. Asked("connect") /\ Connect(stack) /\ UNCHANGED <<credentialVars, layer, panelVars>>
    BY <1>1 DEF AskConnect
  <2>2. QueueTypes' /\ Quiet /\ serial' \in Nat /\ begun' \in [Actions -> Nat]
    BY <1>0, <2>1, ConnectTypes
  <2>3. asks' \in [Actions -> Nat] /\ UNCHANGED consented
    BY <2>1, AskedTypes DEF Actions
  <2> QED
    BY <2>1, <2>2, <2>3, TypesOfPanel DEF Calm, PanelTypes, LayerStep
<1>2. CASE AskPublish
  <2>1. Asked("publish") /\ Publish(stack) /\ UNCHANGED <<credentialVars, layer, panelVars>>
    BY <1>2 DEF AskPublish
  <2>2. QueueTypes' /\ Quiet /\ UNCHANGED serial /\ begun' \in [Actions -> Nat]
    BY <1>0, <2>1, PublishTypes
  <2>3. asks' \in [Actions -> Nat] /\ UNCHANGED consented
    BY <2>1, AskedTypes DEF Actions
  <2> QED
    BY <2>1, <2>2, <2>3, TypesOfPanel DEF Calm, PanelTypes, LayerStep
<1>3. CASE SignIn
  <2>1. /\ signin' = TRUE
        /\ UNCHANGED <<credentialVars, layer, session, queue, stack, tasks, serial, registry,
                       publishing, historyVars>>
    BY <1>3 DEF SignIn
  <2>2. QueueTypes' /\ Quiet
    BY <1>0, <2>1, NothingIsQuiet
  <2> QED
    BY <2>1, <2>2, TypesOfPanel DEF Calm, PanelTypes, LayerStep
<1>4. CASE StartEditing \/ StopEditing
  <2>1. /\ LayerStep
        /\ UNCHANGED <<credentialVars, session, queue, stack, tasks, serial, panelVars, historyVars>>
    BY <1>4 DEF StartEditing, StopEditing, LayerStep
  <2>2. QueueTypes' /\ Quiet
    BY <1>0, <2>1, NothingIsQuiet
  <2> QED
    BY <2>1, <2>2, TypesOfPanel DEF Calm, PanelTypes
<1>5. CASE \E t \in tasks : CancelTask(t)
  <2>1. /\ tasks' \subseteq tasks
        /\ UNCHANGED <<credentialVars, layer, session, queue, stack, serial, panelVars, historyVars>>
    BY <1>5 DEF CancelTask
  <2>2. QueueTypes' /\ Quiet
    BY <1>0, <2>1, NothingIsQuiet
  <2> QED
    BY <2>1, <2>2, TypesOfPanel DEF Calm, PanelTypes, LayerStep
<1> QED
  BY <1>1, <1>2, <1>3, <1>4, <1>5

\* Every step is one of these.
LEMMA NextCases ==
    ASSUME TypeOK, [Next]_vars
    PROVE  \/ Calm
           \/ \E t \in tasks : SignedIn(t) \/ RenewedBy(t)
           \/ SignOut
           \/ \E account \in Accounts : CodeReceived(account)
<1>1. CASE UNCHANGED vars
  <2>1. QueueTypes' /\ Quiet
    BY <1>1, NothingIsQuiet DEF vars, TypeOK
  <2> QED
    BY <1>1, <2>1, TypesOfPanel
       DEF vars, credentialVars, panelVars, historyVars, Calm, PanelTypes, LayerStep
<1>2. CASE ReplayNext \/ TimerFires \/ TokenAges \/ SignInFails
  BY <1>2, QueueCalm
<1>3. CASE Renewed
  BY <1>3, RenewalCases DEF Renewed
<1>4. CASE Answered
  BY <1>4, ExchangeCases, ReadCalm, WriteCalm DEF Answered
<1>5. CASE DialogAnswered
  BY <1>5, DialogCalm
<1>6. CASE Person
  BY <1>6, PersonCalm DEF Person
<1> QED
  BY <1>1, <1>2, <1>3, <1>4, <1>5, <1>6 DEF Next

-----------------------------------------------------------------------------

\* An exchange of the present session leaves a generation for the sign-in it ends in.
ExchangeFits == \A t \in tasks : t.kind = "exchange" => t.gen < MaxGen

TypeInv == TypeOK /\ ExchangeFits

\* An id is an auth config's: the one in use, or the next which never was issued.
LEMMA StoredTypes ==
    ASSUME TypeOK, NEW account \in Accounts, NEW existing \in Configs,
           StoreIdToken(account, existing)
    PROVE  /\ vault' \in [Ids -> Owners]
           /\ settings' \in [email : Owners, config : Configs, due : BOOLEAN]
<1> DEFINE id == IF existing # NoConfig THEN existing ELSE session.gen + 1
<1>1. session.gen \in 0..MaxGen /\ MaxGen \in Nat
  BY SessionAssumption DEF TypeOK
<1>2. id \in Ids
  BY <1>1 DEF Configs, Ids, NoConfig
<1>3. vault' = [vault EXCEPT ![id] = account] /\ settings' = [email |-> account, config |-> id, due |-> FALSE]
  BY DEF StoreIdToken
<1> HIDE DEF id
<1> QED
  BY <1>2, <1>3 DEF TypeOK, Owners, Configs

\* The id kept for an account is that of an auth config.
LEMMA ExistingTypes ==
    ASSUME TypeOK, NEW account
    PROVE  Existing(account) \in Configs
BY DEF TypeOK, Existing, Configs, NoConfig

\* A new session has the types.
LEMMA AdvanceTypes ==
    ASSUME TypeOK, session.gen < MaxGen, Advance(stack), tasks' \subseteq tasks
    PROVE  /\ QueueTypes' /\ serial' \in Nat /\ registry' = FALSE
           /\ session'.gen = session.gen + 1
<1>1. stack' \in Seq(Frames) /\ queue' = <<>>
  BY AbandonedStack DEF Advance, CancelPending, TypeOK
<1>2. session.gen + 1 \in 0..MaxGen /\ serial + 1 \in Nat
  BY SessionAssumption DEF TypeOK
<1>3. session' \in Sessions /\ session'.gen = session.gen + 1
  BY <1>2 DEF Advance, Sessions
<1> QED
  BY <1>1, <1>2, <1>3 DEF QueueTypes, Advance, TypeOK

\* resume() makes a replay of the queue.
LEMMA ResumeTypes ==
    ASSUME TypeOK, Resume(stack)
    PROVE  queue' \in Seq(Entries) /\ stack' \in Seq(Frames)
<1>1. CASE Resuming(stack) \/ queue = <<>>
  BY <1>1 DEF Resume, TypeOK
<1>2. CASE ~(Resuming(stack) \/ queue = <<>>)
  <2>1. [kind |-> "replay", rest |-> queue, valid |-> TRUE] \in Frames
    BY ReplayFrames DEF TypeOK
  <2>2. stack' = <<[kind |-> "replay", rest |-> queue, valid |-> TRUE]>> \o stack /\ queue' = <<>>
    BY <1>2 DEF Resume
  <2> QED
    BY <2>1, <2>2, PushedStack DEF TypeOK
<1> QED
  BY <1>1, <1>2

\* The types are there from the start.
LEMMA InitTypes ==
    ASSUME Init
    PROVE  TypeInv
<1>1. 1 \in Ids /\ 1 \in Configs /\ NoConfig \in Configs /\ First \in Accounts
      /\ First \in Owners /\ Nobody \in Owners
  BY SessionAssumption DEF Ids, Configs, NoConfig, Owners
<1>2. PICK due \in BOOLEAN : settings = [email |-> First, config |-> 1, due |-> due]
  BY DEF Init
<1>3. settings \in [email : Owners, config : Configs, due : BOOLEAN]
  BY <1>1, <1>2
<1>4. vault \in [Ids -> Owners] /\ asks \in [Actions -> Nat] /\ begun \in [Actions -> Nat]
  BY <1>1 DEF Init
<1>5. /\ remembered \in [email : Owners, config : Configs]
      /\ renewal \in Owners
      /\ layer \in [config : Ids, editing : BOOLEAN, owner : Owners]
      /\ session \in [gen : 0..MaxGen, refreshing : BOOLEAN, repairing : BOOLEAN]
  BY <1>1, SessionAssumption DEF Init
<1>6. queue \in Seq(Entries) /\ stack \in Seq(Frames) /\ tasks = {}
  BY DEF Init
<1> QED
  BY <1>1, <1>3, <1>4, <1>5, <1>6 DEF Init, TypeInv, TypeOK, ExchangeFits

\* A step keeps the types.
LEMMA StepTypes ==
    ASSUME TypeInv, [Next]_vars
    PROVE  TypeInv'
<1>0. TypeOK /\ ExchangeFits /\ session.gen \in 0..MaxGen /\ MaxGen \in Nat
  BY SessionAssumption DEF TypeInv, TypeOK
<1>1. CASE Calm
  <2>1. settings' \in [email : Owners, config : Configs, due : BOOLEAN]
    BY <1>0, <1>1 DEF Calm, TypeOK
  <2>2. layer' \in [config : Ids, editing : BOOLEAN, owner : Owners]
    <3>1. layer \in [config : Ids, editing : BOOLEAN, owner : Owners]
      BY <1>0 DEF TypeOK
    <3>2. settings.email \in Owners /\ Nobody \in Owners
          /\ (settings.config # NoConfig => settings.config \in Ids)
      BY <1>0 DEF TypeOK, Owners, Configs
    <3> QED
      BY <1>1, <3>1, <3>2 DEF Calm, LayerStep
  <2>3. ExchangeFits'
    BY <1>0, <1>1 DEF Calm, Quiet, ExchangeFits
  <2> QED
    BY <1>0, <1>1, <2>1, <2>2, <2>3
       DEF Calm, TypeInv, TypeOK, QueueTypes, PanelTypes, Sessions
<1>2. ASSUME NEW t \in tasks, SignedIn(t) PROVE TypeInv'
  <2>1. t.account \in Accounts /\ session.gen < MaxGen
    BY <1>0, <1>2, TaskParts DEF SignedIn, Mine, ExchangeFits, TypeOK
  <2>2. tasks' \subseteq tasks
    BY <1>2 DEF SignedIn
  <2>3. QueueTypes' /\ serial' \in Nat /\ registry' = FALSE
    BY <1>0, <1>2, <2>1, <2>2, AdvanceTypes DEF SignedIn
  <2>4. /\ vault' \in [Ids -> Owners]
        /\ settings' \in [email : Owners, config : Configs, due : BOOLEAN]
    BY <1>0, <1>2, <2>1, StoredTypes, ExistingTypes DEF SignedIn
  <2>5. renewal' \in Owners /\ remembered' \in [email : Owners, config : Configs]
    BY <1>0, <1>2, <2>1 DEF SignedIn, StoreRenewalToken, Owners, Configs, TypeOK
  <2>6. timer' = TRUE /\ UNCHANGED <<signin, layer, publishing, consented, asks, begun>>
    BY <1>2 DEF SignedIn
  <2>7. ExchangeFits'
    BY <1>0, <2>2 DEF ExchangeFits
  <2> QED
    BY <1>0, <2>3, <2>4, <2>5, <2>6, <2>7 DEF TypeInv, TypeOK, QueueTypes, Sessions
<1>3. ASSUME NEW t \in tasks, RenewedBy(t) PROVE TypeInv'
  <2>1. t.account \in Accounts
    BY <1>0, <1>3, TaskParts DEF RenewedBy, TypeOK
  <2>2. tasks' \subseteq tasks
    BY <1>3 DEF RenewedBy
  <2>3. queue' \in Seq(Entries) /\ stack' \in Seq(Frames)
    BY <1>0, <1>3, ResumeTypes DEF RenewedBy
  <2>4. /\ vault' \in [Ids -> Owners]
        /\ settings' \in [email : Owners, config : Configs, due : BOOLEAN]
    <3>1. settings.config \in Configs
      BY <1>0 DEF TypeOK
    <3> QED
      BY <1>0, <1>3, <2>1, <3>1, StoredTypes DEF RenewedBy
  <2>5. renewal' \in Owners
    BY <1>0, <1>3, <2>1 DEF RenewedBy, StoreRenewalToken, Owners, TypeOK
  <2>6. /\ timer' = TRUE
        /\ UNCHANGED <<remembered, layer, serial, signin, registry, publishing, consented, asks, begun>>
        /\ session' \in Sessions
    BY <1>0, <1>3 DEF RenewedBy, TypeOK, Sessions
  <2>7. ExchangeFits'
    BY <1>0, <2>2 DEF ExchangeFits
  <2> QED
    BY <1>0, <2>2, <2>3, <2>4, <2>5, <2>6, <2>7 DEF TypeInv, TypeOK, Sessions
<1>4. CASE SignOut
  <2>1. tasks' \subseteq tasks /\ session.gen < MaxGen /\ Advance(stack)
    BY <1>4 DEF SignOut
  <2>2. QueueTypes' /\ serial' \in Nat /\ registry' = FALSE
    BY <1>0, <2>1, AdvanceTypes
  <2>3. /\ vault' \in [Ids -> Owners] /\ renewal' \in Owners
        /\ remembered' \in [email : Owners, config : Configs]
        /\ settings' \in [email : Owners, config : Configs, due : BOOLEAN]
    <3>1. Nobody \in Owners /\ NoConfig \in Configs
      BY DEF Owners, Configs
    <3>2. CASE settings.config = NoConfig
      BY <1>0, <1>4, <3>1, <3>2 DEF SignOut, TypeOK
    <3>3. CASE settings.config # NoConfig
      <4>1. /\ remembered' = [email |-> settings.email, config |-> settings.config]
            /\ vault' = [vault EXCEPT ![settings.config] = Nobody]
            /\ renewal' = Nobody
            /\ settings' = [email |-> Nobody, config |-> NoConfig, due |-> FALSE]
        BY <1>4, <3>3 DEF SignOut
      <4>2. settings.email \in Owners /\ settings.config \in Configs /\ vault \in [Ids -> Owners]
        BY <1>0 DEF TypeOK
      <4>3. vault' \in [Ids -> Owners]
        BY <3>1, <4>1, <4>2
      <4>4. remembered' \in [email : Owners, config : Configs]
        BY <4>1, <4>2
      <4> QED
        BY <3>1, <4>1, <4>3, <4>4
    <3> QED
      BY <3>2, <3>3
  <2>4. /\ timer' = FALSE /\ signin' = FALSE /\ consented' = {}
        /\ UNCHANGED <<layer, publishing, asks, begun>>
    BY <1>4 DEF SignOut
  <2>5. ExchangeFits'
    BY <1>0, <2>1 DEF ExchangeFits
  <2> QED
    BY <1>0, <2>2, <2>3, <2>4, <2>5 DEF TypeInv, TypeOK, QueueTypes, Sessions
<1>5. ASSUME NEW account \in Accounts, CodeReceived(account) PROVE TypeInv'
  <2>1. [kind |-> "exchange", gen |-> session.gen, account |-> account] \in Tasks
    BY <1>0, TaskTypes
  <2>2. tasks' = tasks \cup {[kind |-> "exchange", gen |-> session.gen, account |-> account]}
        /\ session.gen < MaxGen
    BY <1>5 DEF CodeReceived
  <2>3. ExchangeFits'
    BY <1>0, <2>2 DEF ExchangeFits
  <2> QED
    BY <1>0, <1>5, <2>1, <2>3
       DEF CodeReceived, TypeInv, TypeOK, credentialVars
<1> QED
  BY <1>0, <1>1, <1>2, <1>3, <1>4, <1>5, NextCases

\* Every variable has its type in every state: what is parked stays an action or a read,
\* and a sign-in always finds a generation and the id of an auth config to store under.
THEOREM SessionTypes == Spec => []TypeOK
<1>1. Init => TypeInv
  BY InitTypes
<1>2. TypeInv /\ [Next]_vars => TypeInv'
  BY StepTypes
<1>3. TypeInv => TypeOK
  BY DEF TypeInv
<1> QED
  BY <1>1, <1>2, <1>3, PTL DEF Spec

-----------------------------------------------------------------------------
(* Whose credentials they are. The renewal token has to be stored when an    *)
(* account is: with store_refresh_token failing, the earlier account's token *)
(* stays and the properties below do not hold (run SwitchedBack).            *)

RenewalIsStored == "renewal" \notin Faults

\* What a task of the present session brings is of the account shown, or of one signed
\* in with; of a later session there is none.
AnswersAreOwn ==
    \A t \in tasks :
        /\ t.kind \in {"exchange", "renew"} => t.gen <= session.gen
        /\ t.kind = "renew" /\ t.gen = session.gen => t.account = settings.email
        /\ t.kind = "exchange" /\ t.gen = session.gen => t.account \in consented

\* The one auth config with a token is the one in use.
VaultIsOwn ==
    /\ settings.config = NoConfig <=> settings.email = Nobody
    /\ settings.email \in consented \cup {Nobody}
    /\ renewal \in {settings.email, Nobody}
    /\ \A id \in Ids : vault[id] = IF id = settings.config THEN settings.email ELSE Nobody

\* The id the next new account gets is in use nowhere.
NextIdIsFresh ==
    /\ session.gen = 0 => settings.config # NoConfig
    /\ settings.config = 1 \/ settings.config <= session.gen
    /\ remembered.config = 1 \/ remembered.config <= session.gen
    /\ layer.config = 1 \/ layer.config <= session.gen

\* Edits on a layer whose id is in use, or remembered, are of the account which has it.
EditsAreOfItsAccount ==
    /\ settings.config # NoConfig => remembered.config = NoConfig
    /\ layer.editing /\ layer.owner # Nobody =>
          /\ layer.config = settings.config => layer.owner = settings.email
          /\ layer.config = remembered.config => layer.owner = remembered.email

CredentialInv ==
    /\ TypeInv
    /\ AnswersAreOwn /\ VaultIsOwn /\ NextIdIsFresh /\ EditsAreOfItsAccount

\* The types a step on credentials needs.
LEMMA CredentialTypes ==
    ASSUME TypeInv
    PROVE  /\ session.gen \in 0..MaxGen /\ MaxGen \in Nat
           /\ settings \in [email : Owners, config : Configs, due : BOOLEAN]
           /\ settings.email \in Owners /\ settings.config \in Configs
           /\ remembered.email \in Owners /\ remembered.config \in Configs
           /\ layer \in [config : Ids, editing : BOOLEAN, owner : Owners]
           /\ layer.config \in Ids /\ layer.owner \in Owners
           /\ vault \in [Ids -> Owners] /\ renewal \in Owners
           /\ Ids \subseteq Nat \ {0} /\ Configs = Ids \cup {NoConfig} /\ NoConfig = 0
           /\ Nobody \notin Accounts /\ Accounts \subseteq Owners
           /\ \A t \in tasks : t \in Tasks
BY SessionAssumption DEF TypeInv, TypeOK, Configs, Ids, NoConfig, Owners

\* They are First's own at the start.
LEMMA InitCredentials ==
    ASSUME Init
    PROVE  CredentialInv
<1>1. TypeInv
  BY InitTypes
<1>2. PICK due \in BOOLEAN : settings = [email |-> First, config |-> 1, due |-> due]
  BY DEF Init
<1>3. First \in Accounts /\ Nobody \notin Accounts /\ 1 # NoConfig /\ NoConfig = 0
  BY SessionAssumption DEF NoConfig
<1>4. /\ settings.email = First /\ settings.config = 1
      /\ remembered.config = NoConfig /\ layer.config = 1 /\ ~layer.editing /\ session.gen = 0
      /\ renewal = First /\ tasks = {} /\ consented = {First}
      /\ vault = [id \in Ids |-> IF id = 1 THEN First ELSE Nobody]
  BY <1>2 DEF Init
<1>5. AnswersAreOwn /\ VaultIsOwn
  BY <1>3, <1>4 DEF AnswersAreOwn, VaultIsOwn
<1>6. NextIdIsFresh /\ EditsAreOfItsAccount
  BY <1>3, <1>4 DEF NextIdIsFresh, EditsAreOfItsAccount
<1> QED
  BY <1>1, <1>5, <1>6 DEF CredentialInv

\* A step which stores no credential, whatever it does to the layer or begins.
LEMMA CalmCredentials ==
    ASSUME CredentialInv, TypeInv', Calm
    PROVE  CredentialInv'
<1>0. /\ TypeInv /\ AnswersAreOwn /\ VaultIsOwn /\ NextIdIsFresh /\ EditsAreOfItsAccount
  BY DEF CredentialInv
<1>1. /\ session'.gen = session.gen
      /\ settings'.email = settings.email /\ settings'.config = settings.config
      /\ UNCHANGED <<remembered, vault, renewal, consented>>
  BY <1>0, CredentialTypes DEF Calm, Quiet
<1>2. AnswersAreOwn'
  <2> SUFFICES ASSUME NEW t \in tasks'
               PROVE  /\ t.kind \in {"exchange", "renew"} => t.gen <= session.gen
                      /\ t.kind = "renew" /\ t.gen = session.gen => t.account = settings.email
                      /\ t.kind = "exchange" /\ t.gen = session.gen => t.account \in consented
    BY <1>1 DEF AnswersAreOwn
  <2>1. CASE t \in tasks
    BY <1>0, <2>1 DEF AnswersAreOwn
  <2>2. CASE t.kind \in {"read", "write"}
    BY <2>2
  <2>3. CASE renewal # Nobody /\ t = [kind |-> "renew", gen |-> session.gen, account |-> renewal]
    <3>1. t.kind = "renew" /\ t.gen = session.gen /\ t.account = renewal
      BY <2>3
    <3> QED
      BY <1>0, <2>3, <3>1, CredentialTypes DEF VaultIsOwn
  <2> QED
    BY <2>1, <2>2, <2>3 DEF Calm, Quiet
<1>3. VaultIsOwn'
  BY <1>0, <1>1 DEF VaultIsOwn
<1>4. /\ layer'.config \in {layer.config, settings.config}
      /\ layer'.editing => \/ layer' = layer
                           \/ layer'.config = layer.config /\ layer'.owner = settings.email
  <2>1. LayerStep
    BY DEF Calm
  <2> QED
    BY <1>0, <2>1, CredentialTypes DEF LayerStep
<1>5. NextIdIsFresh'
  BY <1>0, <1>1, <1>4 DEF NextIdIsFresh
<1>6. EditsAreOfItsAccount'
  <2>1. CASE layer' = layer
    BY <1>0, <1>1, <2>1 DEF EditsAreOfItsAccount
  <2>2. CASE ~layer'.editing
    BY <1>0, <1>1, <2>2 DEF EditsAreOfItsAccount
  <2>3. CASE layer'.config = layer.config /\ layer'.owner = settings.email
    BY <1>0, <1>1, <2>3, CredentialTypes DEF EditsAreOfItsAccount, VaultIsOwn
  <2> QED
    BY <1>4, <2>1, <2>2, <2>3
<1> QED
  BY <1>2, <1>3, <1>5, <1>6 DEF CredentialInv

\* What a sign-in stores: the account, under an id whose edits are its own.
LEMMA SignedInCredentials ==
    ASSUME CredentialInv, TypeInv', RenewalIsStored, NEW t \in tasks, SignedIn(t)
    PROVE  CredentialInv'
<1> DEFINE account == t.account
           kept == Existing(account)
           id == IF kept # NoConfig THEN kept ELSE session.gen + 1
<1>0. /\ TypeInv /\ AnswersAreOwn /\ VaultIsOwn /\ NextIdIsFresh /\ EditsAreOfItsAccount
  BY DEF CredentialInv
<1>1. account \in Accounts /\ account # Nobody /\ account \in consented
  BY <1>0, CredentialTypes, TaskParts DEF SignedIn, Mine, AnswersAreOwn
<1>2. /\ settings'.email = account /\ settings'.config = id
      /\ remembered'.email = Nobody /\ remembered'.config = NoConfig
      /\ vault' = [vault EXCEPT ![id] = account] /\ renewal' = account
      /\ session'.gen = session.gen + 1 /\ tasks' = tasks \ {t}
      /\ UNCHANGED <<layer, consented>>
  BY DEF SignedIn, StoreIdToken, StoreRenewalToken, RenewalIsStored, Advance
<1>3. /\ settings.config # NoConfig => kept = settings.config
      /\ settings.config = NoConfig /\ kept # NoConfig =>
            kept = remembered.config /\ remembered.email = account
  BY DEF Existing
<1>4. id \in Ids /\ id # NoConfig
  <2>1. settings' \in [email : Owners, config : Configs, due : BOOLEAN]
    BY DEF TypeInv, TypeOK
  <2>2. id \in Configs /\ id # NoConfig
    BY <1>0, <1>2, <2>1, CredentialTypes
  <2> QED
    BY <1>0, <2>2, CredentialTypes
<1>5. kept = NoConfig => id = session.gen + 1 /\ session.gen # 0 /\ settings.config = NoConfig
  BY <1>0, <1>3 DEF NextIdIsFresh
<1>6. kept # NoConfig => id = kept
  OBVIOUS
<1> HIDE DEF id, kept
<1>7. AnswersAreOwn'
  <2>1. \A u \in tasks' : u \in tasks /\ u \in Tasks
    BY <1>0, <1>2, CredentialTypes
  <2> SUFFICES ASSUME NEW u \in tasks', u.kind \in {"exchange", "renew"}
               PROVE  u.gen < session'.gen
    BY <1>0, <2>1, <1>2, CredentialTypes, TaskParts DEF AnswersAreOwn
  <2> QED
    BY <1>0, <1>2, <2>1, CredentialTypes, TaskParts DEF AnswersAreOwn
<1>8. VaultIsOwn'
  <2>1. \A i \in Ids : vault'[i] = IF i = id THEN account ELSE Nobody
    BY <1>0, <1>2, <1>3, <1>4, <1>5, <1>6, CredentialTypes DEF VaultIsOwn
  <2> QED
    BY <1>1, <1>2, <1>4, <2>1 DEF VaultIsOwn
<1>9. NextIdIsFresh'
  BY <1>0, <1>2, <1>3, <1>4, <1>5, <1>6, CredentialTypes DEF NextIdIsFresh
<1>10. EditsAreOfItsAccount'
  <2> SUFFICES ASSUME layer.editing, layer.owner # Nobody, layer.config = id
               PROVE  layer.owner = account
    BY <1>0, <1>2, CredentialTypes DEF EditsAreOfItsAccount
  <2>1. CASE settings.config # NoConfig
    <3>1. layer.owner = settings.email /\ settings.email # Nobody
      BY <1>0, <1>3, <1>6, <2>1 DEF EditsAreOfItsAccount, VaultIsOwn
    <3>2. ~MustFinishEditing(account)
      BY DEF SignedIn
    <3> QED
      BY <2>1, <3>1, <3>2 DEF MustFinishEditing
  <2>2. CASE settings.config = NoConfig /\ kept # NoConfig
    BY <1>0, <1>3, <1>6, <2>2 DEF EditsAreOfItsAccount
  <2>3. CASE kept = NoConfig
    BY <1>0, <1>5, <2>3, CredentialTypes DEF NextIdIsFresh
  <2> QED
    BY <2>1, <2>2, <2>3
<1> QED
  BY <1>7, <1>8, <1>9, <1>10 DEF CredentialInv

\* A renewal of the present session stores what was stored before.
LEMMA RenewedCredentials ==
    ASSUME CredentialInv, TypeInv', NEW t \in tasks, RenewedBy(t)
    PROVE  CredentialInv'
<1>0. /\ TypeInv /\ AnswersAreOwn /\ VaultIsOwn /\ NextIdIsFresh /\ EditsAreOfItsAccount
  BY DEF CredentialInv
<1>1. t.account \in Accounts /\ t.account = settings.email
  BY <1>0, CredentialTypes, TaskParts DEF RenewedBy, Mine, AnswersAreOwn
<1>2. settings.config # NoConfig /\ settings.config \in Ids
  BY <1>0, <1>1, CredentialTypes DEF VaultIsOwn
<1>3. /\ settings'.email = settings.email /\ settings'.config = settings.config
      /\ vault' = [vault EXCEPT ![settings.config] = settings.email]
      /\ renewal' \in {settings.email, renewal}
      /\ tasks' = tasks \ {t} /\ UNCHANGED <<remembered, layer, consented>>
  BY <1>1, <1>2 DEF RenewedBy, StoreIdToken, StoreRenewalToken
<1>4. session'.gen = session.gen
  BY <1>0 DEF RenewedBy, TypeInv, TypeOK
<1>5. AnswersAreOwn'
  BY <1>0, <1>3, <1>4 DEF AnswersAreOwn
<1>6. VaultIsOwn'
  BY <1>0, <1>2, <1>3, CredentialTypes DEF VaultIsOwn
<1>7. NextIdIsFresh' /\ EditsAreOfItsAccount'
  BY <1>0, <1>3, <1>4 DEF NextIdIsFresh, EditsAreOfItsAccount
<1> QED
  BY <1>5, <1>6, <1>7 DEF CredentialInv

\* Signing out leaves no token, and remembers whose the id was.
LEMMA SignOutCredentials ==
    ASSUME CredentialInv, TypeInv', SignOut
    PROVE  CredentialInv'
<1>0. /\ TypeInv /\ AnswersAreOwn /\ VaultIsOwn /\ NextIdIsFresh /\ EditsAreOfItsAccount
  BY DEF CredentialInv
<1>1. /\ settings'.email = Nobody /\ settings'.config = NoConfig
      /\ consented' = {} /\ UNCHANGED <<layer, tasks>> /\ session'.gen = session.gen + 1
  BY DEF SignOut, Advance
<1>2. /\ \A id \in Ids : vault'[id] = Nobody
      /\ renewal' = Nobody
  <2>1. CASE settings.config = NoConfig
    BY <1>0, <2>1, CredentialTypes DEF SignOut, VaultIsOwn
  <2>2. CASE settings.config # NoConfig
    BY <1>0, <2>2, CredentialTypes DEF SignOut, VaultIsOwn
  <2> QED
    BY <2>1, <2>2
<1>3. \/ settings.config = NoConfig /\ UNCHANGED remembered
      \/ /\ settings.config # NoConfig
         /\ remembered'.email = settings.email /\ remembered'.config = settings.config
  BY DEF SignOut
<1>4. AnswersAreOwn'
  <2> SUFFICES ASSUME NEW t \in tasks, t.kind \in {"exchange", "renew"}
               PROVE  t.gen \in Int /\ t.gen < session'.gen
    BY <1>0, <1>1, CredentialTypes DEF AnswersAreOwn
  <2> QED
    BY <1>0, <1>1, CredentialTypes, TaskParts DEF AnswersAreOwn
<1>5. VaultIsOwn'
  BY <1>0, <1>1, <1>2, CredentialTypes DEF VaultIsOwn
<1>6. NextIdIsFresh'
  BY <1>0, <1>1, <1>3, CredentialTypes DEF NextIdIsFresh
<1>7. EditsAreOfItsAccount'
  BY <1>0, <1>1, <1>3, CredentialTypes DEF EditsAreOfItsAccount
<1> QED
  BY <1>4, <1>5, <1>6, <1>7 DEF CredentialInv

\* A browser sign-in which came back is of an account signed in with.
LEMMA CodeCredentials ==
    ASSUME CredentialInv, TypeInv', NEW account \in Accounts, CodeReceived(account)
    PROVE  CredentialInv'
<1> DEFINE exchange == [kind |-> "exchange", gen |-> session.gen, account |-> account]
<1>0. /\ TypeInv /\ AnswersAreOwn /\ VaultIsOwn /\ NextIdIsFresh /\ EditsAreOfItsAccount
  BY DEF CredentialInv
<1>1. /\ tasks' = tasks \cup {exchange} /\ consented' = consented \cup {account}
      /\ UNCHANGED <<settings, remembered, vault, renewal, layer, session>>
  BY DEF CodeReceived, credentialVars
<1>2. exchange.kind = "exchange" /\ exchange.gen = session.gen /\ exchange.account = account
  OBVIOUS
<1> HIDE DEF exchange
<1>3. AnswersAreOwn'
  BY <1>0, <1>1, <1>2, CredentialTypes DEF AnswersAreOwn
<1>4. VaultIsOwn' /\ NextIdIsFresh' /\ EditsAreOfItsAccount'
  BY <1>0, <1>1 DEF VaultIsOwn, NextIdIsFresh, EditsAreOfItsAccount
<1> QED
  BY <1>3, <1>4 DEF CredentialInv

\* Every step keeps the invariant.
LEMMA StepCredentials ==
    ASSUME RenewalIsStored, CredentialInv, [Next]_vars
    PROVE  CredentialInv'
<1>1. TypeInv' /\ TypeOK
  BY StepTypes DEF CredentialInv, TypeInv
<1> QED
  BY <1>1, NextCases, CalmCredentials, SignedInCredentials, RenewedCredentials,
     SignOutCredentials, CodeCredentials

\* In every reachable state, if renewal tokens can be stored.
LEMMA CredentialInvariant ==
    ASSUME RenewalIsStored
    PROVE  Spec => []CredentialInv
<1>1. Init => CredentialInv
  BY InitCredentials
<1>2. CredentialInv /\ [Next]_vars => CredentialInv'
  BY StepCredentials
<1> QED
  BY <1>1, <1>2, PTL DEF Spec

\* Where renewal tokens can be stored, no token is left but those of the account the
\* panel shows, which was signed in with since the last sign-out, however the answers to
\* exchanges and renewals of earlier sessions are delayed.
THEOREM NoStrayCredential ==
    ASSUME RenewalIsStored
    PROVE  Spec => []CredentialsAreOwn
<1>1. CredentialInv => CredentialsAreOwn
  BY DEF CredentialInv, VaultIsOwn, CredentialsAreOwn
<1> QED
  BY <1>1, CredentialInvariant, PTL

\* Where renewal tokens can be stored, open edits are saved as whoever began them, or not
\* at all, whatever is renewed, signed out and signed in meanwhile.
THEOREM SavedAsTheirOwner ==
    ASSUME RenewalIsStored
    PROVE  Spec => []EditsSavedAsOwner
<1>1. CredentialInv => EditsSavedAsOwner
  <2> SUFFICES ASSUME CredentialInv PROVE EditsSavedAsOwner
    OBVIOUS
  <2>1. layer.config \in Ids
    BY CredentialTypes DEF CredentialInv
  <2> QED
    BY <2>1 DEF CredentialInv, VaultIsOwn, EditsAreOfItsAccount, EditsSavedAsOwner
<1> QED
  BY <1>1, CredentialInvariant, PTL

=============================================================================
