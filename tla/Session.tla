------------------------------- MODULE Session -------------------------------
(* Who QGIS is signed in as: the settings, the credentials in qgis-auth.db     *)
(* which layers refer to by id, the renewal of an ID token before it expires,  *)
(* and the actions parked behind a renewal (plugin.py, core/session.py,        *)
(* auth.py, settings.py).                                                      *)
(*                                                                             *)
(* Everything here runs on QGIS's main thread, on one stack. A modal dialog    *)
(* runs an event loop of its own: results of background tasks are delivered    *)
(* inside it, on top of whatever opened it, while the person can do nothing    *)
(* but answer it. So a renewal may be completed, and parked actions run again, *)
(* in the middle of an action or of another such replay.                       *)
EXTENDS Integers, Sequences, FiniteSets

CONSTANTS
    Accounts, \* Google accounts the person has
    First,    \* the account signed in when QGIS starts
    Nobody,   \* no account: signed out, no token, edits nobody began
    Faults,   \* which calls may fail: a subset of {"renewal"}
    Cancels,  \* tasks the person cancels in the task manager: a subset of TaskKinds
    HasAction, \* the plugin has the publish_action which push disables (pushlocal.py:494)
    MaxGen,   \* bound: session generations, and so sign-ins and sign-outs
    MaxAsks   \* bound: actions the person asks for

TaskKinds == {"exchange", "renew", "read"}

ASSUME SessionAssumption ==
    /\ First \in Accounts /\ Nobody \notin Accounts
    /\ Faults \subseteq {"renewal"}
    /\ Cancels \subseteq TaskKinds
    /\ HasAction \in BOOLEAN
    /\ MaxGen \in Nat /\ MaxAsks \in Nat

Owners == Accounts \cup {Nobody}

\* Ids of auth configs: one is there from the start, each sign-in may issue another.
NoConfig == 0
Ids == 1..(MaxGen + 1)
Configs == Ids \cup {NoConfig}

\* connect_backend, publish_local_layers, and the push which Connect offers.
Actions == {"connect", "publish", "push"}

VARIABLES
    settings,   \* oauth_email, the stored auth config, and whether the token is due
    remembered, \* signed_out_connection: account and auth config of the last sign-out
    vault,      \* qgis-auth.db: whose bearer token each auth config holds
    renewal,    \* qgis-auth.db: whose renewal token is stored
    layer,      \* a class layer: auth config in its URI, editing, who began the edits
    session,    \* SessionCoordinator: generation, refreshing, repairing
    queue,      \* SessionCoordinator._deferred
    stack,      \* what the main thread is in, innermost first
    signin,     \* a browser sign-in is waiting
    timer,      \* the single-shot renewal timer is armed
    tasks,      \* background tasks whose result was not delivered yet
    serial,     \* _track_change_serial
    registry,   \* the class registry is loaded
    publishing, \* plugin.publishing
    consented,  \* history: accounts signed in with in the browser, since the last sign-out
    asks,       \* history: how often the person asked for each action
    begun       \* history: how often each action went past its check of the token

credentialVars == <<settings, remembered, vault, renewal, timer>>
panelVars == <<signin, registry, publishing>>
historyVars == <<consented, asks, begun>>
vars == <<credentialVars, layer, session, queue, stack, tasks, serial, panelVars, historyVars>>

\* Background tasks. A read knows the session it was captured in (ReadContext), its
\* serial number, and whether it is the one retry after a renewal.
Reads == [kind : {"read"}, gen : 0..MaxGen, email : Owners, config : Configs,
          serial : Nat, retry : BOOLEAN]
Tasks == [kind : {"exchange", "renew"}, gen : 0..MaxGen, account : Accounts] \cup Reads
             \cup [kind : {"write"}, of : {"publish", "push"}, number : Nat]

\* What is parked: an action to be called again, or one read to be submitted again.
Entries == [kind : Actions] \cup [kind : {"retry"}, read : Reads]

Dialogs == {"preview", "offer", "report"}
Frames == [kind : {"replay"}, rest : Seq(Entries), valid : BOOLEAN] \cup [kind : Dialogs]

TypeOK ==
    /\ settings \in [email : Owners, config : Configs, due : BOOLEAN]
    /\ remembered \in [email : Owners, config : Configs]
    /\ vault \in [Ids -> Owners]
    /\ renewal \in Owners
    /\ layer \in [config : Ids, editing : BOOLEAN, owner : Owners]
    /\ session \in [gen : 0..MaxGen, refreshing : BOOLEAN, repairing : BOOLEAN]
    /\ queue \in Seq(Entries)
    /\ stack \in Seq(Frames)
    /\ tasks \subseteq Tasks
    /\ serial \in Nat
    /\ signin \in BOOLEAN /\ timer \in BOOLEAN /\ registry \in BOOLEAN
    /\ publishing \in BOOLEAN
    /\ consented \subseteq Accounts
    /\ asks \in [Actions -> Nat] /\ begun \in [Actions -> Nat]

\* QGIS is connected as First, and so is the layer of its project.
Init ==
    /\ \E due \in BOOLEAN : settings = [email |-> First, config |-> 1, due |-> due]
    /\ remembered = [email |-> Nobody, config |-> NoConfig]
    /\ vault = [id \in Ids |-> IF id = 1 THEN First ELSE Nobody]
    /\ renewal = First
    /\ layer = [config |-> 1, editing |-> FALSE, owner |-> Nobody]
    /\ session = [gen |-> 0, refreshing |-> FALSE, repairing |-> FALSE]
    /\ queue = <<>> /\ stack = <<>> /\ tasks = {}
    /\ signin = FALSE /\ timer = TRUE /\ registry = TRUE /\ publishing = FALSE
    /\ serial = 0
    /\ consented = {First}
    /\ asks = [a \in Actions |-> 0] /\ begun = [a \in Actions |-> 0]

\* The event loop runs, of QGIS itself or of the innermost dialog.
Idle == stack = <<>>
Delivers == IF Idle THEN TRUE ELSE Head(stack).kind \in Dialogs

-----------------------------------------------------------------------------
(* SessionCoordinator (core/session.py).                                    *)

\* A replay compares generation and cancellation count with those it began with: once
\* cancelled it never matches again, so its frame keeps only whether it still does.
Abandoned(S) == [n \in DOMAIN S |-> IF S[n].kind = "replay" THEN [S[n] EXCEPT !.valid = FALSE]
                                    ELSE S[n]]

\* resuming: _replay_context, of the innermost replay, is the present one.
Resuming(S) ==
    \E n \in DOMAIN S :
        /\ S[n].kind = "replay" /\ S[n].valid
        /\ \A m \in 1..(n - 1) : S[m].kind # "replay"

CancelPending(S) ==
    /\ queue' = <<>>
    /\ stack' = Abandoned(S)

\* _advance_session
Advance(S) ==
    /\ CancelPending(S)
    /\ session' = [gen |-> session.gen + 1, refreshing |-> FALSE, repairing |-> FALSE]
    /\ serial' = serial + 1
    /\ registry' = FALSE

\* Mutant: the queue is left as it is.
GiveUpQuietly(S) ==
    /\ stack' = S /\ UNCHANGED queue
    /\ session' = [session EXCEPT !.refreshing = FALSE, !.repairing = FALSE]

\* end_refresh(discard_pending=True)
GiveUpRefresh(S) ==
    /\ CancelPending(S)
    /\ session' = [session EXCEPT !.refreshing = FALSE, !.repairing = FALSE]

\* Mutant: the queue is replayed and not detached.
ResumeAgain(S) ==
    IF Resuming(S) \/ queue = <<>>
    THEN stack' = S /\ UNCHANGED queue
    ELSE /\ stack' = <<[kind |-> "replay", rest |-> queue, valid |-> TRUE]>> \o S
         /\ UNCHANGED queue

\* resume(): the queue is detached and becomes a replay on top of the stack.
Resume(S) ==
    IF Resuming(S) \/ queue = <<>>
    THEN stack' = S /\ UNCHANGED queue
    ELSE /\ stack' = <<[kind |-> "replay", rest |-> queue, valid |-> TRUE]>> \o S
         /\ queue' = <<>>

-----------------------------------------------------------------------------
(* Renewal (plugin.py).                                                     *)

\* _refresh_credential begins a renewal unless one is under way. `waiting` is the queue
\* with what the caller parked, T and S the tasks and the stack without the caller, s the
\* coordinator. A locked database refuses, and drops everything parked.
Refresh(waiting, T, S, s) ==
    IF s.refreshing
    THEN queue' = waiting /\ stack' = S /\ tasks' = T /\ session' = s
    ELSE \/ /\ CancelPending(S)
            /\ tasks' = T
            /\ session' = [s EXCEPT !.repairing = FALSE]
         \/ /\ renewal # Nobody
            /\ queue' = waiting
            /\ stack' = S
            /\ tasks' = T \cup {[kind |-> "renew", gen |-> s.gen, account |-> renewal]}
            /\ session' = [s EXCEPT !.refreshing = TRUE]

\* _repair_after_401, which _fail calls with every message
Repair(waiting, T, S) ==
    IF session.refreshing \/ session.repairing \/ settings.email = Nobody
    THEN queue' = waiting /\ stack' = S /\ tasks' = T /\ UNCHANGED session
    ELSE Refresh(waiting, T, S, [session EXCEPT !.repairing = TRUE])

\* _defer_until_fresh: the action parks itself, unless it is being replayed.
MustWait(S) == settings.due /\ ~Resuming(S)

Began(action) == begun' = [begun EXCEPT ![action] = @ + 1]

\* _run_read_task captures the session; current() compares it at every later step.
ReadOf(retry, number) ==
    [kind |-> "read", gen |-> session.gen, email |-> settings.email,
     config |-> settings.config, serial |-> number, retry |-> retry]

Current(read) ==
    /\ read.gen = session.gen
    /\ read.email = settings.email
    /\ read.config = settings.config

\* connect_backend
Connect(S) ==
    IF MustWait(S)
    THEN Refresh(Append(queue, [kind |-> "connect"]), tasks, S, session) /\ UNCHANGED <<serial, begun>>
    ELSE /\ serial' = serial + 1
         /\ tasks' = tasks \cup {ReadOf(FALSE, serial + 1)}
         /\ stack' = S
         /\ Began("connect")
         /\ UNCHANGED <<queue, session>>

\* publish_local_layers, as far as its preview
Publish(S) ==
    IF publishing \/ ~registry
    THEN stack' = S /\ UNCHANGED <<queue, session, tasks, serial, begun>>
    ELSE IF MustWait(S)
    THEN Refresh(Append(queue, [kind |-> "publish"]), tasks, S, session) /\ UNCHANGED <<serial, begun>>
    ELSE /\ stack' = <<[kind |-> "preview"]>> \o S
         /\ Began("publish")
         /\ UNCHANGED <<queue, session, tasks, serial>>

\* The upload which a publish or a push starts, numbered to tell it from another
WriteOf(action) == [kind |-> "write", of |-> action, number |-> begun[action]]

\* Mutant: push does not look at `publishing`.
PushRegardless(S) ==
    IF ~registry
    THEN stack' = S /\ UNCHANGED <<queue, session, tasks, serial, publishing, begun>>
    ELSE IF MustWait(S)
    THEN Refresh(Append(queue, [kind |-> "push"]), tasks, S, session) /\ UNCHANGED <<serial, publishing, begun>>
    ELSE /\ publishing' = TRUE
         /\ tasks' = tasks \cup {WriteOf("push")}
         /\ stack' = S
         /\ Began("push")
         /\ UNCHANGED <<queue, session, serial>>

\* PushAllLocal.push, as Connect calls it: without access, or with nothing to upload, it
\* ends where it began. LocalUpload has what the upload itself does.
Push(S) ==
    IF publishing \/ ~registry
    THEN stack' = S /\ UNCHANGED <<queue, session, tasks, serial, publishing, begun>>
    ELSE IF MustWait(S)
    THEN Refresh(Append(queue, [kind |-> "push"]), tasks, S, session) /\ UNCHANGED <<serial, publishing, begun>>
    ELSE /\ \/ /\ publishing' = TRUE
               /\ tasks' = IF HasAction THEN tasks \cup {WriteOf("push")} ELSE tasks
               /\ Began("push")
            \/ UNCHANGED <<publishing, tasks, begun>>
         /\ stack' = S
         /\ UNCHANGED <<queue, session, serial>>

\* submit(True) of a read which was refused with 401
Retry(read, S) ==
    /\ stack' = S
    /\ tasks' = IF Current(read) THEN tasks \cup {[read EXCEPT !.retry = TRUE]} ELSE tasks
    /\ UNCHANGED <<queue, session, serial, begun>>

Perform(entry, S) ==
    CASE entry.kind = "connect" -> Connect(S) /\ UNCHANGED publishing
      [] entry.kind = "publish" -> Publish(S) /\ UNCHANGED publishing
      [] entry.kind = "push" -> Push(S)
      [] entry.kind = "retry" -> Retry(entry.read, S) /\ UNCHANGED publishing

\* The loop of resume(): its next action, or its end if there is none or it is cancelled.
ReplayNext ==
    /\ ~Delivers
    /\ LET frame == Head(stack)
       IN  IF frame.valid /\ frame.rest # <<>>
           THEN Perform(Head(frame.rest),
                        <<[frame EXCEPT !.rest = Tail(@)]>> \o Tail(stack))
           ELSE stack' = Tail(stack) /\ UNCHANGED <<queue, session, tasks, serial, publishing, begun>>
    /\ UNCHANGED <<credentialVars, layer, signin, registry, consented, asks>>

\* _arm_refresh_timer armed it for the moment the token is due; it may be late.
TimerFires ==
    /\ Delivers
    /\ timer /\ settings.due
    /\ timer' = FALSE
    /\ Refresh(queue, tasks, stack, session)
    /\ UNCHANGED <<settings, remembered, vault, renewal, layer, serial, panelVars, historyVars>>

TokenAges ==
    /\ settings.email # Nobody /\ ~settings.due
    /\ settings' = [settings EXCEPT !.due = TRUE]
    /\ UNCHANGED <<remembered, vault, renewal, timer, layer, session, queue, stack, tasks,
                   serial, panelVars, historyVars>>

-----------------------------------------------------------------------------
(* Storing a credential: auth.py and the three handlers which call it.      *)

\* store_id_token_for_tracks: the id in use is kept and its token replaced; else an id
\* is issued which never was before.
StoreIdToken(account, existing) ==
    LET id == IF existing # NoConfig THEN existing ELSE session.gen + 1
    IN  /\ vault' = [vault EXCEPT ![id] = account]
        /\ settings' = [email |-> account, config |-> id, due |-> FALSE]

\* store_refresh_token answers FALSE, and leaves the old token, where it cannot store.
StoreRenewalToken(account) ==
    \/ renewal' = account
    \/ "renewal" \in Faults /\ UNCHANGED renewal

\* Mutant: their results are taken whoever is signed in meanwhile.
MineRegardless(t) == TRUE

\* generation == self._session.generation, in the callbacks of an exchange and a renewal
Mine(t) == t.gen = session.gen

\* _exchange_code: the browser came back with a code.
CodeReceived(account) ==
    /\ Delivers
    /\ signin
    /\ session.gen < MaxGen
    /\ signin' = FALSE
    /\ tasks' = tasks \cup {[kind |-> "exchange", gen |-> session.gen, account |-> account]}
    /\ consented' = consented \cup {account}
    /\ UNCHANGED <<credentialVars, layer, session, queue, stack, serial, registry, publishing,
                   asks, begun>>

\* _on_sign_in_failed, when the browser flow times out or the person closes it
SignInFails ==
    /\ Delivers
    /\ signin
    /\ signin' = FALSE
    /\ CancelPending(stack)
    /\ UNCHANGED <<credentialVars, layer, session, tasks, serial, registry, publishing,
                   historyVars>>

\* Open edits of one account must not be saved as another.
MustFinishEditing(account) ==
    /\ settings.config # NoConfig
    /\ settings.email \notin {Nobody, account}
    /\ layer.editing

\* Mutant: whoever signs in next gets the config of the last sign-out.
ExistingForAnyone(account) ==
    IF settings.config # NoConfig THEN settings.config ELSE remembered.config

\* signed_out_authcfgs: the same account gets the config it had, and its layers with it.
Existing(account) ==
    IF settings.config # NoConfig THEN settings.config
    ELSE IF remembered.email = account THEN remembered.config ELSE NoConfig

\* _store_credential. Its _run_deferred finds nothing: _advance_session dropped it all.
StoreCredential(account) ==
    IF MustFinishEditing(account)
    THEN UNCHANGED <<credentialVars, session, queue, stack, serial, registry>>
    ELSE /\ StoreIdToken(account, Existing(account))
         /\ StoreRenewalToken(account)
         /\ remembered' = [email |-> Nobody, config |-> NoConfig]
         /\ timer' = TRUE
         /\ Advance(stack)

\* signed_in and failed of _exchange_code; _on_sign_in_failed drops what is parked, and
\* _fail may still begin a repair
ExchangeAnswered(t) ==
    /\ Delivers
    /\ t.kind = "exchange"
    /\ \/ /\ Mine(t)
          /\ tasks' = tasks \ {t}
          /\ StoreCredential(t.account)
          /\ UNCHANGED signin
       \/ /\ Mine(t)
          /\ signin' = FALSE
          /\ \/ CancelPending(stack) /\ tasks' = tasks \ {t} /\ UNCHANGED session
             \/ Repair(<<>>, tasks \ {t}, Abandoned(stack))
          /\ UNCHANGED <<credentialVars, serial, registry>>
       \/ /\ ~Mine(t)
          /\ tasks' = tasks \ {t}
          /\ UNCHANGED <<credentialVars, session, queue, stack, serial, signin, registry>>
    /\ UNCHANGED <<layer, publishing, historyVars>>

\* _on_refreshed, with the replay of what was parked; or _on_refresh_failed, which is
\* also what a token that cannot be stored comes to.
RenewalAnswered(t) ==
    /\ Delivers
    /\ t.kind = "renew"
    /\ tasks' = tasks \ {t}
    /\ \/ /\ Mine(t)
          /\ StoreIdToken(t.account, settings.config)
          /\ StoreRenewalToken(t.account)
          /\ timer' = TRUE
          /\ session' = [session EXCEPT !.refreshing = FALSE, !.repairing = FALSE]
          /\ Resume(stack)
          /\ UNCHANGED remembered
       \/ /\ Mine(t)
          /\ GiveUpRefresh(stack)
          /\ UNCHANGED credentialVars
       \/ /\ ~Mine(t)
          /\ UNCHANGED <<credentialVars, session, queue, stack>>
    /\ UNCHANGED <<layer, serial, panelVars, historyVars>>

-----------------------------------------------------------------------------
(* Results of the other tasks.                                              *)

\* Mutant: layers are repaired where there is no auth config to point them at.
ConnectedRegardless ==
    /\ registry' = TRUE
    /\ layer' = IF layer.editing THEN layer ELSE [layer EXCEPT !.config = settings.config]
    /\ stack' \in {stack, <<[kind |-> "offer"]>> \o stack}
    /\ UNCHANGED <<queue, session>>

\* _on_connected: the catalog is in use, and layers of this backend which are not being
\* edited are pointed at the present auth config (repair_track_auth). Then the question
\* whether to upload local changes, if there are any.
Connected ==
    /\ registry' = TRUE
    /\ layer' = IF layer.editing \/ settings.config = NoConfig THEN layer
                ELSE [layer EXCEPT !.config = settings.config]
    /\ stack' \in {stack, <<[kind |-> "offer"]>> \o stack}
    /\ UNCHANGED <<queue, session>>

\* succeeded and failed of _run_read_task
ReadAnswered(t) ==
    /\ Delivers
    /\ t.kind = "read"
    /\ \/ /\ ~Current(t) \/ t.serial # serial
          /\ tasks' = tasks \ {t}
          /\ UNCHANGED <<queue, session, stack, layer, registry>>
       \/ /\ Current(t) /\ t.serial = serial
          /\ tasks' = tasks \ {t}
          /\ Connected
       \/ /\ Current(t) /\ t.serial = serial
          /\ tasks' = tasks \ {t}
          /\ registry' = FALSE
          /\ UNCHANGED <<queue, session, stack, layer>>
       \/ /\ Current(t) /\ ~t.retry /\ settings.email # Nobody
          /\ Refresh(Append(queue, [kind |-> "retry", read |-> t]), tasks \ {t}, stack, session)
          /\ UNCHANGED <<layer, registry>>
    /\ UNCHANGED <<credentialVars, serial, signin, publishing, historyVars>>

\* The end of a publish or a push: the report, or a failure, which may be a 401.
WriteAnswered(t) ==
    /\ Delivers
    /\ t.kind = "write"
    /\ publishing' = FALSE
    /\ \/ /\ tasks' = tasks \ {t}
          /\ stack' \in {stack, <<[kind |-> "report"]>> \o stack}
          /\ UNCHANGED <<queue, session>>
       \/ Repair(queue, tasks \ {t}, stack)
    /\ UNCHANGED <<credentialVars, layer, serial, signin, registry, historyVars>>

-----------------------------------------------------------------------------
(* The person.                                                              *)

\* Mutant: they are not.
NeverBusy == FALSE

\* The panel's buttons are disabled while a task runs; Connect in the window "sign in and
\* connect" notices it only half a second later.
Busy == tasks # {}

Asked(action) == asks' = [asks EXCEPT ![action] = @ + 1] /\ UNCHANGED consented

AskConnect ==
    /\ Idle
    /\ asks["connect"] + asks["publish"] < MaxAsks
    /\ Asked("connect")
    /\ Connect(stack)
    /\ UNCHANGED <<credentialVars, layer, panelVars>>

AskPublish ==
    /\ Idle /\ ~Busy
    /\ asks["connect"] + asks["publish"] < MaxAsks
    /\ Asked("publish")
    /\ Publish(stack)
    /\ UNCHANGED <<credentialVars, layer, panelVars>>

\* What was opened on top of everything else is closed, or answered No.
CloseDialog ==
    /\ ~Idle /\ Delivers
    /\ stack' = Tail(stack)
    /\ UNCHANGED <<credentialVars, layer, session, queue, tasks, serial, panelVars, historyVars>>

\* The preview is accepted. Without a registry the request cannot even be built.
AcceptPreview ==
    /\ ~Idle /\ Head(stack).kind = "preview"
    /\ registry
    /\ publishing' = TRUE
    /\ tasks' = tasks \cup {WriteOf("publish")}
    /\ stack' = Tail(stack)
    /\ UNCHANGED <<credentialVars, layer, session, queue, serial, signin, registry, historyVars>>

AcceptOffer ==
    /\ ~Idle /\ Head(stack).kind = "offer"
    /\ Asked("push")
    /\ Push(Tail(stack))
    /\ UNCHANGED <<credentialVars, layer, signin, registry>>

SignIn ==
    /\ Idle
    /\ ~signin
    /\ session.gen < MaxGen
    /\ signin' = TRUE
    /\ UNCHANGED <<credentialVars, layer, session, queue, stack, tasks, serial, registry,
                   publishing, historyVars>>

\* sign_out: remove_all takes the renewal token along.
SignOut ==
    /\ Idle
    /\ session.gen < MaxGen
    /\ signin' = FALSE
    /\ IF settings.config = NoConfig
       THEN UNCHANGED <<remembered, vault, renewal>>
       ELSE /\ remembered' = [email |-> settings.email, config |-> settings.config]
            /\ vault' = [vault EXCEPT ![settings.config] = Nobody]
            /\ renewal' = Nobody
    /\ settings' = [email |-> Nobody, config |-> NoConfig, due |-> FALSE]
    /\ timer' = FALSE
    /\ Advance(stack)
    /\ consented' = {}
    /\ UNCHANGED <<layer, tasks, publishing, asks, begun>>

StartEditing ==
    /\ Idle
    /\ ~layer.editing
    /\ layer' = [layer EXCEPT !.editing = TRUE, !.owner = settings.email]
    /\ UNCHANGED <<credentialVars, session, queue, stack, tasks, serial, panelVars, historyVars>>

\* The edits were saved, or rolled back.
StopEditing ==
    /\ Idle
    /\ layer.editing
    /\ layer' = [layer EXCEPT !.editing = FALSE, !.owner = Nobody]
    /\ UNCHANGED <<credentialVars, session, queue, stack, tasks, serial, panelVars, historyVars>>

\* FunctionTask.finished of a cancelled task calls nobody back.
CancelTask(t) ==
    /\ Idle
    /\ t.kind \in Cancels
    /\ tasks' = tasks \ {t}
    /\ UNCHANGED <<credentialVars, layer, session, queue, stack, serial, panelVars, historyVars>>

-----------------------------------------------------------------------------

Renewed == \E t \in tasks : RenewalAnswered(t)

Answered == \E t \in tasks : ExchangeAnswered(t) \/ ReadAnswered(t) \/ WriteAnswered(t)

DialogAnswered == CloseDialog \/ AcceptPreview \/ AcceptOffer

Person ==
    \/ AskConnect \/ AskPublish \/ SignIn \/ SignOut
    \/ StartEditing \/ StopEditing
    \/ \E t \in tasks : CancelTask(t)

Next ==
    \/ ReplayNext \/ TimerFires \/ TokenAges \/ Renewed \/ Answered
    \/ \E account \in Accounts : CodeReceived(account)
    \/ SignInFails \/ DialogAnswered \/ Person

Spec == Init /\ [][Next]_vars

\* Python goes on; the clock too; a renewal is answered, if only by its time limit; and
\* nobody leaves a modal dialog, which blocks QGIS, open for ever. What the person asks
\* for, and whether the browser comes back, is left open.
LiveSpec ==
    /\ Spec
    /\ WF_vars(ReplayNext) /\ WF_vars(Renewed) /\ WF_vars(DialogAnswered)
    /\ WF_vars(TimerFires) /\ WF_vars(TokenAges)

-----------------------------------------------------------------------------
(* What the session promises.                                              *)

\* "Open edits must not silently be saved under a different account": whatever is renewed,
\* signed out and signed in again while a layer is edited, the token its Save would carry
\* is that of whoever began the edits, or there is none.
EditsSavedAsOwner ==
    layer.editing /\ layer.owner # Nobody => vault[layer.config] \in {layer.owner, Nobody}

\* No token but those of the account the panel shows is left in qgis-auth.db, and that
\* account was signed in with since the last sign-out: after "Signed out" there is none
\* at all, though a renewal or an exchange begun before it may still be answered.
CredentialsAreOwn ==
    /\ settings.email \in consented \cup {Nobody}
    /\ renewal \in {settings.email, Nobody}
    /\ \A id \in Ids : vault[id] \in {settings.email, Nobody}

\* How often an action still waits, in the queue or in a replay under way.
Waiting(action) ==
    LET In(entries) == Cardinality({n \in DOMAIN entries : entries[n].kind = action})
        Live == {n \in DOMAIN stack : stack[n].kind = "replay" /\ stack[n].valid}
    IN  IF Live = {} THEN In(queue)
        ELSE In(queue) + In(stack[CHOOSE n \in Live : \A m \in Live : n <= m].rest)

\* An action parked behind a renewal is run again once, not once for each renewal,
\* nor again by a replay nested in its own.
AskedOnce == \A a \in Actions : begun[a] + Waiting(a) <= asks[a]

\* "Guard repeated requests so concurrent runs cannot duplicate the uploaded data": a
\* publish looks at `publishing` before its preview only, and Connect offers its push
\* from inside whatever dialog is open; yet one upload runs at a time, and says so.
OnePublish ==
    LET writes == {t \in tasks : t.kind = "write"}
    IN  Cardinality(writes) <= 1 /\ (writes # {} => publishing)

\* A parked action is run again or dropped in the end, whatever it was parked behind.
ParkedIsWoken == queue # <<>> ~> queue = <<>>
=============================================================================
