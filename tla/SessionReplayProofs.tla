------------------------- MODULE SessionReplayProofs -------------------------
(* Parked actions and what runs at once: proofs that one publish or push runs *)
(* at a time, and that each action is run as often as it was asked for, about *)
(* module Session.                                                            *)
EXTENDS SessionProofs, FunctionTheorems, FiniteSetTheorems

-----------------------------------------------------------------------------
(* The shape of the main thread's stack.                                    *)

\* Frame n of S is a replay which nothing cancelled.
IsLive(S, n) == S[n].kind = "replay" /\ S[n].valid

NoLive(S) == \A n \in 1..Len(S) : ~IsLive(S, n)

NoPreview(S) == \A n \in 1..Len(S) : S[n].kind # "preview"

\* No replay is about to open the preview of a publish.
NoPublish(S) ==
    \A n \in 1..Len(S) : IsLive(S, n) =>
        \A k \in 1..Len(S[n].rest) : S[n].rest[k].kind # "publish"

\* A preview is on top of everything else; a replay which was not cancelled is on top, or
\* below a preview; and a publish is its first entry, not yet run.
Shape(S) ==
    \A n \in 1..Len(S) :
        /\ S[n].kind = "preview" => n = 1
        /\ IsLive(S, n) =>
              /\ n = 1 \/ (n = 2 /\ S[1].kind = "preview")
              /\ \A k \in 1..Len(S[n].rest) : S[n].rest[k].kind = "publish" => n = 1 /\ k = 1

\* Below what is on top there is no preview, and no publish to come.
LEMMA TailShape ==
    ASSUME NEW S \in Seq(Frames), S # <<>>, Shape(S)
    PROVE  /\ Tail(S) \in Seq(Frames)
           /\ Shape(Tail(S)) /\ NoPreview(Tail(S)) /\ NoPublish(Tail(S))
           /\ S[1].kind # "preview" => NoLive(Tail(S))
<1>1. /\ Tail(S) \in Seq(Frames) /\ Len(Tail(S)) = Len(S) - 1 /\ Len(S) \in Nat
      /\ \A n \in 1..Len(Tail(S)) : Tail(S)[n] = S[n + 1] /\ n + 1 \in 1..Len(S)
  BY HeadTailProperties
<1>2. \A n \in 1..Len(Tail(S)) : IsLive(Tail(S), n) => IsLive(S, n + 1)
  BY <1>1 DEF IsLive
<1>3. NoPreview(Tail(S))
  BY <1>1 DEF NoPreview, Shape
<1>4. ASSUME NEW n \in 1..Len(Tail(S)), IsLive(Tail(S), n)
      PROVE  /\ n = 1 /\ S[1].kind = "preview"
             /\ \A k \in 1..Len(Tail(S)[n].rest) : Tail(S)[n].rest[k].kind # "publish"
  BY <1>1, <1>2, <1>4 DEF Shape
<1>5. NoPublish(Tail(S)) /\ (S[1].kind # "preview" => NoLive(Tail(S)))
  BY <1>4 DEF NoPublish, NoLive
<1>6. Shape(Tail(S))
  BY <1>3, <1>4 DEF Shape, NoPreview
<1> QED
  BY <1>1, <1>3, <1>5, <1>6

\* Cancelling leaves no replay that goes on.
LEMMA AbandonedShape ==
    ASSUME NEW S \in Seq(Frames), Shape(S)
    PROVE  /\ Shape(Abandoned(S)) /\ NoLive(Abandoned(S)) /\ NoPublish(Abandoned(S))
           /\ NoPreview(S) => NoPreview(Abandoned(S))
<1>1. NoLive(Abandoned(S))
  BY AbandonedStack DEF NoLive, IsLive
<1>2. NoPublish(Abandoned(S))
  BY <1>1 DEF NoLive, NoPublish
<1>3. Shape(Abandoned(S))
  BY <1>1, AbandonedStack DEF Shape, NoLive
<1>4. NoPreview(S) => NoPreview(Abandoned(S))
  BY AbandonedStack DEF NoPreview
<1> QED
  BY <1>1, <1>2, <1>3, <1>4

\* An offer or a report on top of a stack on which no replay goes on.
LEMMA DialogShape ==
    ASSUME NEW S \in Seq(Frames), NoPreview(S), NoLive(S), NEW d \in {"offer", "report"}
    PROVE  LET U == <<[kind |-> d]>> \o S
           IN  Shape(U) /\ NoPreview(U) /\ NoPublish(U)
<1> DEFINE f == [kind |-> d]
           U == <<f>> \o S
<1>1. f \in Frames /\ f.kind = d
  BY ReplayFrames DEF Dialogs
<1> HIDE DEF f
<1>2. /\ Len(U) = Len(S) + 1 /\ Len(S) \in Nat /\ U[1] = f
      /\ \A n \in 2..(Len(S) + 1) : U[n] = S[n - 1]
  BY <1>1, PushedStack, LenProperties
<1> HIDE DEF U
<1>3. \A n \in 1..Len(U) : U[n].kind # "preview" /\ ~IsLive(U, n)
  <2> SUFFICES ASSUME NEW n \in 1..Len(U)
               PROVE  U[n].kind # "preview" /\ ~IsLive(U, n)
    OBVIOUS
  <2>1. CASE n = 1
    BY <1>1, <1>2, <2>1 DEF IsLive
  <2>2. CASE n # 1
    <3>1. n - 1 \in 1..Len(S) /\ U[n] = S[n - 1]
      BY <1>2, <2>2
    <3> QED
      BY <3>1 DEF NoPreview, NoLive, IsLive
  <2> QED
    BY <2>1, <2>2
<1>4. Shape(U) /\ NoPreview(U) /\ NoPublish(U)
  BY <1>3 DEF Shape, NoPreview, NoPublish
<1> QED
  BY <1>4 DEF U, f

\* A preview on top of a stack without one.
LEMMA PreviewShape ==
    ASSUME NEW S \in Seq(Frames), Shape(S), NoPreview(S), NoPublish(S)
    PROVE  LET U == <<[kind |-> "preview"]>> \o S
           IN  Shape(U) /\ NoPublish(U)
<1> DEFINE f == [kind |-> "preview"]
           U == <<f>> \o S
<1>1. f \in Frames /\ f.kind = "preview"
  BY ReplayFrames DEF Dialogs
<1> HIDE DEF f
<1>2. /\ Len(U) = Len(S) + 1 /\ Len(S) \in Nat /\ U[1] = f
      /\ \A n \in 2..(Len(S) + 1) : U[n] = S[n - 1]
  BY <1>1, PushedStack, LenProperties
<1> HIDE DEF U
<1>3. ~IsLive(U, 1) /\ U[1].kind = "preview"
  BY <1>1, <1>2 DEF IsLive
<1>4. ASSUME NEW n \in 2..Len(U)
      PROVE  /\ U[n].kind # "preview"
             /\ IsLive(U, n) => /\ n = 2
                                /\ \A k \in 1..Len(U[n].rest) : U[n].rest[k].kind # "publish"
  <2>1. n - 1 \in 1..Len(S) /\ U[n] = S[n - 1]
    BY <1>2
  <2>2. IsLive(U, n) => IsLive(S, n - 1)
    BY <2>1 DEF IsLive
  <2>3. IsLive(S, n - 1) => n - 1 = 1
    BY <2>1 DEF Shape, NoPreview
  <2> QED
    BY <2>1, <2>2, <2>3 DEF NoPreview, NoPublish
<1>5. \A n \in 1..Len(U) : n = 1 \/ n \in 2..Len(U)
  BY <1>2
<1>6. Shape(U) /\ NoPublish(U)
  BY <1>3, <1>4, <1>5 DEF Shape, NoPublish
<1> QED
  BY <1>6 DEF U, f

\* A replay on top of a stack on which none goes on.
LEMMA ReplayShape ==
    ASSUME NEW S \in Seq(Frames), NoPreview(S), NoLive(S),
           NEW f \in Frames, f.kind = "replay",
           \A k \in 1..Len(f.rest) : f.rest[k].kind = "publish" => k = 1
    PROVE  LET U == <<f>> \o S
           IN  /\ Shape(U) /\ NoPreview(U)
               /\ (\A k \in 1..Len(f.rest) : f.rest[k].kind # "publish") => NoPublish(U)
<1> DEFINE U == <<f>> \o S
<1>2. /\ Len(U) = Len(S) + 1 /\ Len(S) \in Nat /\ U[1] = f
      /\ \A n \in 2..(Len(S) + 1) : U[n] = S[n - 1]
  BY PushedStack, LenProperties
<1> HIDE DEF U
<1>3. U[1].kind # "preview"
  BY <1>2
<1>4. ASSUME NEW n \in 2..Len(U)
      PROVE  U[n].kind # "preview" /\ ~IsLive(U, n)
  <2>1. n - 1 \in 1..Len(S) /\ U[n] = S[n - 1]
    BY <1>2
  <2> QED
    BY <2>1 DEF NoPreview, NoLive, IsLive
<1>5. \A n \in 1..Len(U) : n = 1 \/ n \in 2..Len(U)
  BY <1>2
<1>6. NoPreview(U) /\ Shape(U)
  BY <1>2, <1>3, <1>4, <1>5 DEF Shape, NoPreview
<1>7. (\A k \in 1..Len(f.rest) : f.rest[k].kind # "publish") => NoPublish(U)
  BY <1>2, <1>4, <1>5 DEF NoPublish
<1> QED
  BY <1>6, <1>7 DEF U

\* resuming is that a replay goes on.
LEMMA ResumingIsLive ==
    ASSUME NEW S \in Seq(Frames), Shape(S)
    PROVE  Resuming(S) <=> ~NoLive(S)
<1>1. DOMAIN S = 1..Len(S) /\ Len(S) \in Nat
  BY LenProperties
<1>2. Resuming(S) => ~NoLive(S)
  BY <1>1 DEF Resuming, NoLive, IsLive
<1>3. ASSUME NEW n \in 1..Len(S), IsLive(S, n) PROVE Resuming(S)
  <2>1. n = 1 \/ (n = 2 /\ S[1].kind = "preview")
    BY <1>3 DEF Shape
  <2>2. \A m \in 1..(n - 1) : S[m].kind # "replay"
    BY <2>1
  <2> QED
    BY <1>1, <1>3, <2>2 DEF Resuming, IsLive
<1> QED
  BY <1>2, <1>3 DEF NoLive

-----------------------------------------------------------------------------
(* What is under way while a publish is parked, or its preview open.        *)

\* A renewal whose answer will be taken.
Renews(t) == t.kind = "renew" /\ t.gen = session.gen

NoRenewal == \A t \in tasks : ~Renews(t)

NoReads == \A t \in tasks : t.kind # "read"

NoWrites == \A t \in tasks : t.kind # "write"

\* Generations only grow, and the one renewal of the present session is the one which
\* `refreshing` is about.
RenewalIsOne ==
    /\ \A t \in tasks : t.kind = "renew" => t.gen <= session.gen
    /\ \A t, u \in tasks : Renews(t) /\ Renews(u) => session.refreshing /\ t = u

\* What is parked waits for a renewal.
ParkedIsRefreshing == queue # <<>> => session.refreshing

\* While a preview is open nothing is read or uploaded whose end could open another
\* dialog, and no renewal could wake what is parked on top of it.
PreviewIsAlone ==
    ~NoPreview(stack) => NoReads /\ NoWrites /\ (queue = <<>> \/ NoRenewal)

\* Nor is anything read when a replay is about to open one.
PublishIsAlone ==
    ~NoPublish(stack) => NoReads /\ (queue = <<>> \/ NoRenewal)

\* Nor while a publish is parked which a renewal will wake.
ParkedIsAlone ==
    ~NoRenewal =>
        \A k \in 1..Len(queue) :
            queue[k].kind = "publish" =>
                k = 1 /\ NoReads /\ NoWrites /\ settings.due /\ stack = <<>>

OneWrite == \A t, u \in tasks : t.kind = "write" /\ u.kind = "write" => t = u /\ publishing

ReplayInv ==
    /\ RenewalIsOne /\ ParkedIsRefreshing
    /\ Shape(stack)
    /\ PreviewIsAlone /\ PublishIsAlone /\ ParkedIsAlone
    /\ OneWrite

\* Tasks answered, and exchanges begun, disturb none of this.
LEMMA FewerTasks ==
    ASSUME NEW started, \A t \in started : t.kind = "exchange",
           tasks' \subseteq tasks \cup started,
           session'.gen = session.gen, session'.refreshing = session.refreshing
    PROVE  /\ NoReads => NoReads'
           /\ NoWrites => NoWrites'
           /\ NoRenewal => NoRenewal'
           /\ RenewalIsOne => RenewalIsOne'
           /\ UNCHANGED publishing /\ OneWrite => OneWrite'
           /\ NoWrites => OneWrite'
<1>1. \A t \in tasks' : t \in tasks \/ t.kind = "exchange"
  OBVIOUS
<1>2. \A t \in tasks' : t.kind \in {"read", "write", "renew"} => t \in tasks
  BY <1>1
<1>3. NoReads => NoReads'
  BY <1>2 DEF NoReads
<1>4. NoWrites => NoWrites' /\ OneWrite'
  BY <1>2 DEF NoWrites, OneWrite
<1>5. UNCHANGED publishing /\ OneWrite => OneWrite'
  BY <1>2 DEF OneWrite
<1>6. \A t \in tasks' : Renews(t)' => t \in tasks /\ Renews(t)
  BY <1>2 DEF Renews
<1>7. NoRenewal => NoRenewal'
  BY <1>6 DEF NoRenewal
<1>8. RenewalIsOne => RenewalIsOne'
  BY <1>2, <1>6 DEF RenewalIsOne
<1> QED
  BY <1>3, <1>4, <1>5, <1>7, <1>8

\* Nor do tasks answered alone.
LEMMA AnsweredTasks ==
    ASSUME tasks' \subseteq tasks,
           session'.gen = session.gen, session'.refreshing = session.refreshing
    PROVE  /\ NoReads => NoReads'
           /\ NoWrites => NoWrites'
           /\ NoRenewal => NoRenewal'
           /\ RenewalIsOne => RenewalIsOne'
           /\ UNCHANGED publishing /\ OneWrite => OneWrite'
           /\ NoWrites => OneWrite'
<1> DEFINE none == {}
<1>1. (\A t \in none : t.kind = "exchange") /\ tasks' \subseteq tasks \cup none
  OBVIOUS
<1> HIDE DEF none
<1> QED
  BY <1>1, FewerTasks

\* A step which parks nothing and opens nothing, and answers tasks or begins an exchange.
LEMMA PassingKeeps ==
    ASSUME ReplayInv, UNCHANGED queue, stack' \in {stack, Tail(stack)}, stack = stack' \/ stack # <<>>,
           stack \in Seq(Frames),
           settings'.due = settings.due \/ settings'.due = TRUE,
           session'.gen = session.gen, session'.refreshing = session.refreshing,
           NEW started, \A t \in started : t.kind = "exchange",
           tasks' \subseteq tasks \cup started,
           OneWrite'
    PROVE  ReplayInv'
<1>0. /\ RenewalIsOne /\ ParkedIsRefreshing /\ Shape(stack)
      /\ PreviewIsAlone /\ PublishIsAlone /\ ParkedIsAlone
  BY DEF ReplayInv
<1>1. /\ NoReads => NoReads'
      /\ NoWrites => NoWrites'
      /\ NoRenewal => NoRenewal'
      /\ RenewalIsOne'
  BY <1>0, FewerTasks
<1>2. /\ Shape(stack')
      /\ ~NoPreview(stack') => ~NoPreview(stack)
      /\ ~NoPublish(stack') => ~NoPublish(stack)
      /\ stack = <<>> => stack' = <<>>
  BY <1>0, TailShape
<1>3. ParkedIsRefreshing'
  BY <1>0 DEF ParkedIsRefreshing
<1>4. PreviewIsAlone'
  BY <1>0, <1>1, <1>2 DEF PreviewIsAlone
<1>5. PublishIsAlone'
  BY <1>0, <1>1, <1>2 DEF PublishIsAlone
<1>6. ParkedIsAlone'
  BY <1>0, <1>1, <1>2 DEF ParkedIsAlone
<1> QED
  BY <1>1, <1>2, <1>3, <1>4, <1>5, <1>6 DEF ReplayInv

\* Cancelling what is parked and what goes on keeps all of it.
LEMMA DroppedKeeps ==
    ASSUME ReplayInv, queue' = <<>>, stack' = Abandoned(stack), stack \in Seq(Frames),
           RenewalIsOne', OneWrite',
           NoReads => NoReads', NoWrites => NoWrites'
    PROVE  ReplayInv'
<1>0. /\ Shape(stack) /\ PreviewIsAlone
  BY DEF ReplayInv
<1>1. Shape(stack') /\ NoPublish(stack') /\ (NoPreview(stack) => NoPreview(stack'))
  BY <1>0, AbandonedShape
<1>2. ParkedIsRefreshing' /\ ParkedIsAlone'
  BY DEF ParkedIsRefreshing, ParkedIsAlone
<1>3. PreviewIsAlone' /\ PublishIsAlone'
  BY <1>0, <1>1 DEF PreviewIsAlone, PublishIsAlone
<1> QED
  BY <1>1, <1>2, <1>3 DEF ReplayInv

\* The three outcomes of _refresh_credential: a renewal is under way, none can be begun,
\* or one is.
LEMMA RefreshCases ==
    ASSUME TypeOK, NEW waiting, NEW T, NEW S, NEW s \in Sessions, Refresh(waiting, T, S, s)
    PROVE  \/ /\ s.refreshing /\ queue' = waiting /\ stack' = S /\ tasks' = T
              /\ session'.gen = s.gen /\ session'.refreshing = TRUE
           \/ /\ ~s.refreshing /\ queue' = <<>> /\ stack' = Abandoned(S) /\ tasks' = T
              /\ session'.gen = s.gen /\ session'.refreshing = FALSE
           \/ /\ ~s.refreshing /\ queue' = waiting /\ stack' = S
              /\ tasks' = T \cup {[kind |-> "renew", gen |-> s.gen, account |-> renewal]}
              /\ session'.gen = s.gen /\ session'.refreshing = TRUE
<1>1. CASE s.refreshing
  BY <1>1 DEF Refresh, Sessions
<1>2. CASE CancelPending(S) /\ tasks' = T /\ session' = [s EXCEPT !.repairing = FALSE] /\ ~s.refreshing
  BY <1>2 DEF CancelPending, Sessions
<1>3. CASE /\ queue' = waiting /\ stack' = S /\ ~s.refreshing
           /\ tasks' = T \cup {[kind |-> "renew", gen |-> s.gen, account |-> renewal]}
           /\ session' = [s EXCEPT !.refreshing = TRUE]
  BY <1>3 DEF Sessions
<1> QED
  BY <1>1, <1>2, <1>3 DEF Refresh

\* Begun for anything but a publish: `waiting` is the queue, with something parked only
\* where there is no preview and no publish to come.
LEMMA RefreshKeeps ==
    ASSUME TypeOK, ReplayInv, UNCHANGED settings,
           NEW waiting \in Seq(Entries), NEW T \in SUBSET tasks, NEW S \in Seq(Frames),
           NEW s \in Sessions, s.gen = session.gen, s.refreshing = session.refreshing,
           Refresh(waiting, T, S, s),
           \A k \in 1..Len(waiting) : waiting[k].kind = "publish" =>
               k \in 1..Len(queue) /\ queue[k].kind = "publish",
           Shape(S), stack = <<>> => S = <<>>,
           NoPreview(stack) => NoPreview(S), NoPublish(stack) => NoPublish(S),
           waiting \in {queue, <<>>} \/ (NoPreview(S) /\ NoPublish(S)),
           OneWrite'
    PROVE  ReplayInv'
<1>0. /\ RenewalIsOne /\ ParkedIsRefreshing /\ Shape(stack)
      /\ PreviewIsAlone /\ PublishIsAlone /\ ParkedIsAlone
  BY DEF ReplayInv
<1>1. CASE /\ s.refreshing /\ queue' = waiting /\ stack' = S /\ tasks' = T
           /\ session'.gen = session.gen /\ session'.refreshing = TRUE
  <2>1. /\ NoReads => NoReads'
        /\ NoWrites => NoWrites'
        /\ NoRenewal => NoRenewal'
        /\ RenewalIsOne'
    <3>1. session.refreshing = TRUE
      BY <1>1 DEF Sessions
    <3> QED
      BY <1>0, <1>1, <3>1, AnsweredTasks
  <2>2. ParkedIsRefreshing'
    BY <1>1 DEF ParkedIsRefreshing
  <2>3. PreviewIsAlone'
    BY <1>0, <1>1, <2>1 DEF PreviewIsAlone
  <2>4. PublishIsAlone'
    BY <1>0, <1>1, <2>1 DEF PublishIsAlone
  <2>5. ParkedIsAlone'
    BY <1>0, <1>1, <2>1 DEF ParkedIsAlone
  <2> QED
    BY <1>1, <2>1, <2>2, <2>3, <2>4, <2>5 DEF ReplayInv
<1>2. CASE /\ ~s.refreshing /\ queue' = <<>> /\ stack' = Abandoned(S) /\ tasks' = T
           /\ session'.gen = session.gen /\ session'.refreshing = FALSE
  <2>1. /\ NoReads => NoReads'
        /\ NoWrites => NoWrites'
        /\ RenewalIsOne'
    <3>1. session.refreshing = FALSE
      BY <1>2 DEF Sessions
    <3> QED
      BY <1>0, <1>2, <3>1, AnsweredTasks
  <2>2. Shape(stack') /\ NoPublish(stack') /\ (NoPreview(S) => NoPreview(stack'))
    BY <1>2, AbandonedShape
  <2>3. ParkedIsRefreshing' /\ ParkedIsAlone'
    BY <1>2 DEF ParkedIsRefreshing, ParkedIsAlone
  <2>4. PreviewIsAlone' /\ PublishIsAlone'
    BY <1>0, <1>2, <2>1, <2>2 DEF PreviewIsAlone, PublishIsAlone
  <2> QED
    BY <2>1, <2>2, <2>3, <2>4 DEF ReplayInv
<1>3. CASE /\ ~s.refreshing /\ queue' = waiting /\ stack' = S
           /\ tasks' = T \cup {[kind |-> "renew", gen |-> s.gen, account |-> renewal]}
           /\ session'.gen = session.gen /\ session'.refreshing = TRUE
  <2> DEFINE renew == [kind |-> "renew", gen |-> s.gen, account |-> renewal]
  <2>1. renew.kind = "renew" /\ renew.gen = session.gen
    OBVIOUS
  <2>2. tasks' = T \cup {renew}
    BY <1>3
  <2> HIDE DEF renew
  <2>3. queue = <<>> /\ NoRenewal
    BY <1>0, <1>3 DEF ParkedIsRefreshing, RenewalIsOne, NoRenewal
  <2>4. (NoReads => NoReads') /\ (NoWrites => NoWrites')
    BY <2>1, <2>2 DEF NoReads, NoWrites
  <2>5. session.gen <= session.gen
    BY DEF TypeOK
  <2>6. RenewalIsOne'
    BY <1>0, <1>3, <2>1, <2>2, <2>3, <2>5 DEF RenewalIsOne, NoRenewal, Renews
  <2>7. ParkedIsRefreshing'
    BY <1>3 DEF ParkedIsRefreshing
  <2>8. PreviewIsAlone' /\ PublishIsAlone'
    BY <1>0, <1>3, <2>3, <2>4 DEF PreviewIsAlone, PublishIsAlone
  <2>9. ParkedIsAlone'
    BY <1>3, <2>3 DEF ParkedIsAlone
  <2> QED
    BY <1>3, <2>6, <2>7, <2>8, <2>9 DEF ReplayInv
<1> QED
  BY <1>1, <1>2, <1>3, RefreshCases

\* A renewal that begins starts no read and no upload.
LEMMA RefreshStarts ==
    ASSUME TypeOK, NEW waiting, NEW T, NEW S, NEW s \in Sessions, Refresh(waiting, T, S, s)
    PROVE  \A t \in tasks' : t \in T \/ t.kind = "renew"
<1>1. [kind |-> "renew", gen |-> s.gen, account |-> renewal].kind = "renew"
  OBVIOUS
<1>2. \/ tasks' = T
      \/ tasks' = T \cup {[kind |-> "renew", gen |-> s.gen, account |-> renewal]}
  BY RefreshCases
<1> QED
  BY <1>1, <1>2

\* A read or an upload begins, where no preview is open and no publish is to come.
LEMMA WorkKeeps ==
    ASSUME ReplayInv, UNCHANGED <<queue, session, settings>>,
           stack # <<>> \/ ~settings.due,
           Shape(stack'), NoPreview(stack'), NoPublish(stack'),
           NEW work, work.kind \in {"read", "write"}, tasks' \subseteq tasks \cup {work},
           OneWrite'
    PROVE  ReplayInv'
<1>0. /\ RenewalIsOne /\ ParkedIsRefreshing /\ ParkedIsAlone
  BY DEF ReplayInv
<1>1. \A t \in tasks' : t \in tasks \/ t.kind \in {"read", "write"}
  OBVIOUS
<1>2. \A t \in tasks' : Renews(t)' => t \in tasks /\ Renews(t)
  BY <1>1 DEF Renews
<1>3. RenewalIsOne' /\ (NoRenewal => NoRenewal')
  BY <1>0, <1>1, <1>2 DEF RenewalIsOne, NoRenewal
<1>4. ParkedIsRefreshing'
  BY <1>0 DEF ParkedIsRefreshing
<1>5. PreviewIsAlone' /\ PublishIsAlone'
  BY DEF PreviewIsAlone, PublishIsAlone
<1>6. ParkedIsAlone'
  BY <1>0, <1>3 DEF ParkedIsAlone
<1> QED
  BY <1>3, <1>4, <1>5, <1>6 DEF ReplayInv

\* A dialog opens where an answer is delivered and no preview is open.
LEMMA OpenedKeeps ==
    ASSUME TypeOK, ReplayInv, Delivers, NoPreview(stack), NEW d \in {"offer", "report"},
           stack' \in {stack, <<[kind |-> d]>> \o stack},
           UNCHANGED <<queue, session, settings>>, tasks' \subseteq tasks, OneWrite',
           NEW t \in tasks, t.kind \in {"read", "write"}
    PROVE  ReplayInv'
<1>0. /\ RenewalIsOne /\ ParkedIsRefreshing /\ Shape(stack)
      /\ PreviewIsAlone /\ PublishIsAlone /\ ParkedIsAlone /\ stack \in Seq(Frames)
  BY DEF ReplayInv, TypeOK
<1>1. NoLive(stack)
  <2>1. CASE stack = <<>>
    BY <2>1 DEF NoLive
  <2>2. CASE stack # <<>>
    <3>1. 1 \in 1..Len(stack) /\ Head(stack) = stack[1]
      BY <1>0, <2>2, LenProperties, EmptySeq
    <3>2. stack[1].kind \in Dialogs
      BY <2>2, <3>1 DEF Delivers, Idle
    <3>3. ~IsLive(stack, 1)
      BY <3>2 DEF IsLive, Dialogs
    <3>4. stack[1].kind # "preview"
      BY <3>1 DEF NoPreview
    <3> QED
      BY <1>0, <3>3, <3>4 DEF Shape, NoLive
  <2> QED
    BY <2>1, <2>2
<1>2. Shape(stack') /\ NoPreview(stack') /\ NoPublish(stack')
  BY <1>0, <1>1, DialogShape DEF NoPublish, NoLive
<1>3. /\ NoRenewal => NoRenewal'
      /\ RenewalIsOne'
  BY <1>0, AnsweredTasks
<1>4. ParkedIsRefreshing'
  BY <1>0 DEF ParkedIsRefreshing
<1>5. PreviewIsAlone' /\ PublishIsAlone'
  BY <1>2 DEF PreviewIsAlone, PublishIsAlone
<1>6. ParkedIsAlone'
  BY <1>0, <1>3 DEF ParkedIsAlone, NoReads, NoWrites
<1> QED
  BY <1>2, <1>3, <1>4, <1>5, <1>6 DEF ReplayInv

\* Where a replay runs its next entry, that entry's frame goes on below.
LEMMA PoppedShape ==
    ASSUME TypeOK, ReplayInv, ReplayNext, Head(stack).valid, Head(stack).rest # <<>>
    PROVE  LET below == <<[Head(stack) EXCEPT !.rest = Tail(@)]>> \o Tail(stack)
               entry == Head(Head(stack).rest)
           IN  /\ stack # <<>> /\ below \in Seq(Frames) /\ entry \in Entries
               /\ Shape(below) /\ NoPreview(below) /\ NoPublish(below) /\ Resuming(below)
               /\ NoPreview(stack)
               /\ entry.kind = "publish" => ~NoPublish(stack)
<1> DEFINE frame == Head(stack)
           popped == [frame EXCEPT !.rest = Tail(@)]
           below == <<popped>> \o Tail(stack)
<1>0. Shape(stack) /\ stack \in Seq(Frames)
  BY DEF ReplayInv, TypeOK
<1>1. stack # <<>> /\ frame.kind \notin Dialogs
  BY DEF ReplayNext, Delivers, Idle
<1>2. frame \in Frames /\ Tail(stack) \in Seq(Frames) /\ frame = stack[1] /\ 1 \in 1..Len(stack)
  BY <1>0, <1>1, HeadTailProperties, LenProperties, EmptySeq
<1>3. frame.kind = "replay" /\ frame.rest \in Seq(Entries) /\ frame.valid /\ frame.rest # <<>>
  BY <1>1, <1>2, FrameParts
<1>4. /\ popped \in Frames /\ popped.kind = "replay" /\ popped.valid = frame.valid
      /\ popped.rest = Tail(frame.rest)
  BY <1>2, <1>3, ReplayFrames
<1> HIDE DEF popped
<1>5. IsLive(stack, 1) /\ stack[1].kind # "preview"
  BY <1>2, <1>3 DEF IsLive
<1>6. \A k \in 1..Len(frame.rest) : frame.rest[k].kind = "publish" => k = 1
  BY <1>0, <1>2, <1>5 DEF Shape
<1>7. \A k \in 1..Len(popped.rest) : popped.rest[k].kind # "publish"
  <2>1. /\ Len(popped.rest) = Len(frame.rest) - 1 /\ Len(frame.rest) \in Nat
        /\ \A k \in 1..Len(popped.rest) : popped.rest[k] = frame.rest[k + 1]
    BY <1>3, <1>4, HeadTailProperties
  <2> QED
    BY <1>6, <2>1
<1>8. NoPreview(Tail(stack)) /\ NoLive(Tail(stack))
  BY <1>0, <1>1, <1>5, TailShape
<1>9. below \in Seq(Frames) /\ below[1] = popped /\ Len(below) \in Nat /\ Len(below) >= 1
  BY <1>2, <1>4, PushedStack, LenProperties
<1>10. Shape(below) /\ NoPreview(below) /\ NoPublish(below)
  BY <1>2, <1>4, <1>7, <1>8, ReplayShape
<1>11. Resuming(below)
  <2>1. IsLive(below, 1) /\ 1 \in 1..Len(below)
    BY <1>3, <1>4, <1>9 DEF IsLive
  <2> QED
    BY <1>9, <1>10, <2>1, ResumingIsLive DEF NoLive
<1>12. NoPreview(stack)
  BY <1>0, <1>2, <1>5 DEF Shape, NoPreview
<1>13. Head(frame.rest) \in Entries /\ Head(frame.rest) = frame.rest[1] /\ 1 \in 1..Len(frame.rest)
  BY <1>3, HeadTailProperties, LenProperties, EmptySeq
<1>14. Head(frame.rest).kind = "publish" => ~NoPublish(stack)
  BY <1>2, <1>5, <1>13 DEF NoPublish
<1> QED
  BY <1>1, <1>9, <1>10, <1>11, <1>12, <1>13, <1>14 DEF popped

\* One turn of the loop of resume().
LEMMA ReplayKeeps ==
    ASSUME TypeOK, ReplayInv, ReplayNext
    PROVE  ReplayInv'
<1> DEFINE frame == Head(stack)
           below == <<[frame EXCEPT !.rest = Tail(@)]>> \o Tail(stack)
           entry == Head(frame.rest)
<1>0. /\ UNCHANGED settings /\ OneWrite /\ stack # <<>> /\ stack \in Seq(Frames)
      /\ PublishIsAlone /\ ParkedIsAlone /\ RenewalIsOne /\ ParkedIsRefreshing
  BY DEF ReplayNext, credentialVars, ReplayInv, Delivers, Idle, TypeOK
<1>1. CASE frame.valid /\ frame.rest # <<>>
  <2>1. /\ below \in Seq(Frames) /\ entry \in Entries
        /\ Shape(below) /\ NoPreview(below) /\ NoPublish(below) /\ Resuming(below)
        /\ NoPreview(stack) /\ (entry.kind = "publish" => ~NoPublish(stack))
    BY <1>1, PoppedShape
  <2>2. Perform(entry, below)
    BY <1>1 DEF ReplayNext
  <2> HIDE DEF below, entry
  <2>3. ~MustWait(below)
    BY <2>1 DEF MustWait
  <2>4. ASSUME Connect(below), UNCHANGED publishing PROVE ReplayInv'
    <3> DEFINE read == ReadOf(FALSE, serial + 1)
    <3>1. tasks' = tasks \cup {read} /\ stack' = below /\ UNCHANGED <<queue, session>>
      BY <2>3, <2>4 DEF Connect
    <3>2. read.kind = "read"
      BY DEF ReadOf
    <3> HIDE DEF read
    <3>3. OneWrite'
      BY <1>0, <2>4, <3>1, <3>2 DEF OneWrite
    <3> QED
      BY <1>0, <2>1, <3>1, <3>2, <3>3, WorkKeeps
  <2>5. ASSUME entry.kind = "publish", Publish(below), UNCHANGED publishing PROVE ReplayInv'
    <3>1. CASE publishing \/ ~registry
      <4>1. stack' = below /\ UNCHANGED <<queue, session, tasks>>
        BY <2>5, <3>1 DEF Publish
      <4>2. /\ OneWrite' /\ (NoRenewal => NoRenewal') /\ RenewalIsOne'
        BY <1>0, <2>5, <4>1, AnsweredTasks
      <4>3. PreviewIsAlone' /\ PublishIsAlone'
        BY <2>1, <4>1 DEF PreviewIsAlone, PublishIsAlone
      <4>4. ParkedIsRefreshing' /\ ParkedIsAlone'
        BY <1>0, <4>1, <4>2 DEF ParkedIsRefreshing, ParkedIsAlone
      <4> QED
        BY <2>1, <4>1, <4>2, <4>3, <4>4 DEF ReplayInv
    <3>2. CASE ~(publishing \/ ~registry)
      <4>1. stack' = <<[kind |-> "preview"]>> \o below /\ UNCHANGED <<queue, session, tasks>>
        BY <2>3, <2>5, <3>2 DEF Publish
      <4>2. Shape(stack') /\ NoPublish(stack')
        BY <2>1, <4>1, PreviewShape
      <4>3. NoReads /\ (queue = <<>> \/ NoRenewal)
        BY <1>0, <2>1, <2>5 DEF PublishIsAlone
      <4>4. NoWrites
        BY <1>0, <3>2 DEF OneWrite, NoWrites
      <4>5. /\ OneWrite' /\ (NoRenewal => NoRenewal') /\ RenewalIsOne' /\ NoReads' /\ NoWrites'
        BY <1>0, <2>5, <4>1, <4>3, <4>4, AnsweredTasks
      <4>6. PreviewIsAlone' /\ PublishIsAlone'
        BY <4>1, <4>2, <4>3, <4>5 DEF PreviewIsAlone, PublishIsAlone
      <4>7. ParkedIsRefreshing' /\ ParkedIsAlone'
        BY <1>0, <4>1, <4>5 DEF ParkedIsRefreshing, ParkedIsAlone
      <4> QED
        BY <4>2, <4>5, <4>6, <4>7 DEF ReplayInv
    <3> QED
      BY <3>1, <3>2
  <2>6. ASSUME Push(below) PROVE ReplayInv'
    <3> DEFINE write == WriteOf("push")
    <3>1. write.kind = "write"
      BY DEF WriteOf
    <3> HIDE DEF write
    <3>2. /\ stack' = below /\ UNCHANGED <<queue, session>>
          /\ \/ UNCHANGED <<tasks, publishing>>
             \/ tasks' \subseteq tasks \cup {write} /\ ~publishing /\ publishing' = TRUE
      BY <2>3, <2>6 DEF Push, write
    <3>3. OneWrite'
      BY <1>0, <3>1, <3>2 DEF OneWrite
    <3> QED
      BY <1>0, <2>1, <3>1, <3>2, <3>3, WorkKeeps
  <2>7. ASSUME entry.kind = "retry", Retry(entry.read, below), UNCHANGED publishing PROVE ReplayInv'
    <3> DEFINE read == [entry.read EXCEPT !.retry = TRUE]
    <3>1. read.kind = "read"
      BY <2>1, <2>7, EntryParts DEF Reads
    <3>2. stack' = below /\ tasks' \subseteq tasks \cup {read} /\ UNCHANGED <<queue, session>>
      BY <2>7 DEF Retry
    <3> HIDE DEF read
    <3>3. OneWrite'
      BY <1>0, <2>7, <3>1, <3>2 DEF OneWrite
    <3> QED
      BY <1>0, <2>1, <3>1, <3>2, <3>3, WorkKeeps
  <2> QED
    BY <2>1, <2>2, <2>4, <2>5, <2>6, <2>7, PerformCases
<1>2. CASE ~(frame.valid /\ frame.rest # <<>>)
  <2>1. stack' = Tail(stack) /\ UNCHANGED <<queue, session, tasks, publishing>>
    BY <1>2 DEF ReplayNext
  <2>2. OneWrite'
    BY <1>0, <2>1, AnsweredTasks
  <2> DEFINE none == {}
  <2>3. tasks' \subseteq tasks \cup none /\ \A t \in none : t.kind = "exchange"
    BY <2>1
  <2> HIDE DEF none
  <2> QED
    BY <1>0, <2>1, <2>2, <2>3, PassingKeeps
<1> QED
  BY <1>1, <1>2

\* The timer, the clock, a browser sign-in that fails.
LEMMA TimerKeeps ==
    ASSUME TypeOK, ReplayInv, TimerFires \/ TokenAges \/ SignInFails
    PROVE  ReplayInv'
<1>0. /\ RenewalIsOne /\ OneWrite /\ Shape(stack) /\ stack \in Seq(Frames)
      /\ queue \in Seq(Entries) /\ session \in Sessions
  BY DEF ReplayInv, TypeOK, Sessions
<1>1. CASE TimerFires
  <2>1. Refresh(queue, tasks, stack, session) /\ UNCHANGED <<settings, publishing>>
    BY <1>1 DEF TimerFires, panelVars
  <2>2. OneWrite'
    <3>1. \A t \in tasks' : t \in tasks \/ t.kind = "renew"
      BY <1>0, <2>1, RefreshStarts DEF TypeOK
    <3> QED
      BY <1>0, <2>1, <3>1 DEF OneWrite
  <2> QED
    BY <1>0, <2>1, <2>2, RefreshKeeps, LenProperties
<1>2. CASE TokenAges
  <2>1. /\ UNCHANGED <<session, queue, stack, tasks, publishing>> /\ settings'.due = TRUE
    BY <1>2 DEF TokenAges, panelVars, TypeOK
  <2>2. OneWrite'
    BY <1>0, <2>1, AnsweredTasks
  <2> DEFINE none == {}
  <2>3. tasks' \subseteq tasks \cup none /\ \A t \in none : t.kind = "exchange"
    BY <2>1
  <2> HIDE DEF none
  <2> QED
    BY <1>0, <2>1, <2>2, <2>3, PassingKeeps
<1>3. CASE SignInFails
  <2>1. queue' = <<>> /\ stack' = Abandoned(stack) /\ UNCHANGED <<session, tasks, publishing>>
    BY <1>3 DEF SignInFails, CancelPending
  <2>2. RenewalIsOne' /\ OneWrite' /\ (NoReads => NoReads') /\ (NoWrites => NoWrites')
    BY <1>0, <2>1, AnsweredTasks
  <2> QED
    BY <1>0, <2>1, <2>2, DroppedKeeps
<1> QED
  BY <1>1, <1>2, <1>3

\* A session which ends leaves no renewal whose answer will be taken.
LEMMA AdvanceKeeps ==
    ASSUME TypeOK, ReplayInv, Advance(stack), tasks' \subseteq tasks, UNCHANGED publishing
    PROVE  ReplayInv'
<1>0. /\ RenewalIsOne /\ OneWrite /\ stack \in Seq(Frames)
  BY DEF ReplayInv, TypeOK
<1>1. /\ queue' = <<>> /\ stack' = Abandoned(stack) /\ session'.gen = session.gen + 1
      /\ session.gen \in Int
  BY SessionAssumption DEF Advance, CancelPending, TypeOK
<1>2. ASSUME NEW t \in tasks', t.kind = "renew"
      PROVE  t.gen <= session.gen /\ t.gen \in Int
  <2>1. t \in Tasks
    BY <1>2 DEF TypeOK
  <2> QED
    BY <1>0, <1>2, <2>1, TaskParts, SessionAssumption DEF RenewalIsOne
<1>3. RenewalIsOne'
  BY <1>1, <1>2 DEF RenewalIsOne, Renews
<1>4. OneWrite' /\ (NoReads => NoReads') /\ (NoWrites => NoWrites')
  BY <1>0 DEF OneWrite, NoReads, NoWrites
<1> QED
  BY <1>0, <1>1, <1>3, <1>4, DroppedKeeps

\* The answer to an exchange.
LEMMA ExchangeKeeps ==
    ASSUME TypeOK, ReplayInv, NEW t \in tasks, ExchangeAnswered(t)
    PROVE  ReplayInv'
<1>0. /\ RenewalIsOne /\ OneWrite /\ Shape(stack) /\ stack \in Seq(Frames)
      /\ queue \in Seq(Entries) /\ session \in Sessions
      /\ UNCHANGED publishing /\ t.kind = "exchange"
  BY DEF ReplayInv, TypeOK, Sessions, ExchangeAnswered
<1>1. ASSUME tasks' = tasks \ {t}, UNCHANGED <<settings, session, queue, stack>>
      PROVE  ReplayInv'
  <2>1. OneWrite'
    BY <1>0, <1>1, AnsweredTasks
  <2> DEFINE none == {}
  <2>2. tasks' \subseteq tasks \cup none /\ \A u \in none : u.kind = "exchange"
    BY <1>1
  <2> HIDE DEF none
  <2> QED
    BY <1>0, <1>1, <2>1, <2>2, PassingKeeps
<1>2. CASE Mine(t) /\ tasks' = tasks \ {t} /\ StoreCredential(t.account)
  <2>1. CASE MustFinishEditing(t.account)
    BY <1>1, <1>2, <2>1 DEF StoreCredential, credentialVars
  <2>2. CASE ~MustFinishEditing(t.account)
    <3>1. Advance(stack) /\ tasks' \subseteq tasks
      BY <1>2, <2>2 DEF StoreCredential
    <3> QED
      BY <1>0, <3>1, AdvanceKeeps
  <2> QED
    BY <2>1, <2>2
<1>3. CASE CancelPending(stack) /\ tasks' = tasks \ {t} /\ UNCHANGED session
  <2>1. queue' = <<>> /\ stack' = Abandoned(stack)
    BY <1>3 DEF CancelPending
  <2>2. RenewalIsOne' /\ OneWrite' /\ (NoReads => NoReads') /\ (NoWrites => NoWrites')
    BY <1>0, <1>3, AnsweredTasks
  <2> QED
    BY <1>0, <2>1, <2>2, DroppedKeeps
<1>4. CASE Repair(<<>>, tasks \ {t}, Abandoned(stack)) /\ UNCHANGED credentialVars
  <2>1. CASE /\ queue' = <<>> /\ stack' = Abandoned(stack) /\ tasks' = tasks \ {t}
             /\ UNCHANGED session
    <3>1. RenewalIsOne' /\ OneWrite' /\ (NoReads => NoReads') /\ (NoWrites => NoWrites')
      BY <1>0, <2>1, AnsweredTasks
    <3> QED
      BY <1>0, <2>1, <3>1, DroppedKeeps
  <2>2. CASE Refresh(<<>>, tasks \ {t}, Abandoned(stack), [session EXCEPT !.repairing = TRUE])
    <3> DEFINE s == [session EXCEPT !.repairing = TRUE]
               S == Abandoned(stack)
               T == tasks \ {t}
    <3>1. s \in Sessions /\ s.gen = session.gen /\ s.refreshing = session.refreshing
      BY <1>0 DEF Sessions
    <3>2. Shape(S) /\ NoPublish(S) /\ (NoPreview(stack) => NoPreview(S)) /\ S \in Seq(Frames)
      BY <1>0, AbandonedShape, AbandonedStack
    <3>3. stack = <<>> => S = <<>>
      BY AbandonedStack, EmptySeq, <1>0, <3>2
    <3>4. T \in SUBSET tasks /\ <<>> \in Seq(Entries) /\ Len(<<>>) = 0 /\ UNCHANGED settings
      BY <1>4 DEF credentialVars
    <3> HIDE DEF s, S, T
    <3>5. Refresh(<<>>, T, S, s)
      BY <2>2 DEF s, S, T
    <3>6. OneWrite'
      <4>1. \A u \in tasks' : u \in tasks \/ u.kind = "renew"
        BY <3>1, <3>4, <3>5, RefreshStarts
      <4> QED
        BY <1>0, <4>1 DEF OneWrite
    <3>7. \A k \in 1..Len(<<>>) : FALSE
      BY <3>4
    <3> QED
      BY <3>1, <3>2, <3>3, <3>4, <3>5, <3>6, <3>7, RefreshKeeps
  <2> QED
    BY <1>4, <2>1, <2>2 DEF Repair
<1> QED
  BY <1>1, <1>2, <1>3, <1>4 DEF ExchangeAnswered, credentialVars

\* The answer to a renewal: its replay starts where none goes on, and no preview is open.
LEMMA RenewalKeeps ==
    ASSUME TypeOK, ReplayInv, NEW t \in tasks, RenewalAnswered(t)
    PROVE  ReplayInv'
<1>0. /\ RenewalIsOne /\ OneWrite /\ Shape(stack) /\ stack \in Seq(Frames)
      /\ PreviewIsAlone /\ ParkedIsAlone
      /\ queue \in Seq(Entries) /\ session \in Sessions /\ Delivers
      /\ UNCHANGED publishing /\ t.kind = "renew" /\ tasks' = tasks \ {t}
  BY DEF ReplayInv, TypeOK, Sessions, RenewalAnswered, panelVars
<1>1. OneWrite' /\ (NoReads => NoReads') /\ (NoWrites => NoWrites')
  BY <1>0 DEF OneWrite, NoReads, NoWrites
<1>2. ASSUME Mine(t), session'.gen = session.gen PROVE RenewalIsOne' /\ NoRenewal' /\ ~NoRenewal
  <2>1. Renews(t)
    BY <1>0, <1>2 DEF Mine, Renews
  <2>2. NoRenewal' /\ ~NoRenewal
    BY <1>0, <1>2, <2>1 DEF RenewalIsOne, NoRenewal, Renews
  <2> QED
    BY <1>0, <1>2, <2>2 DEF RenewalIsOne, NoRenewal
<1>3. CASE /\ Mine(t) /\ Resume(stack)
           /\ session' = [session EXCEPT !.refreshing = FALSE, !.repairing = FALSE]
  <2>1. session'.gen = session.gen /\ session'.refreshing = FALSE
    BY <1>0, <1>3 DEF Sessions
  <2>2. RenewalIsOne' /\ NoRenewal' /\ ~NoRenewal
    BY <1>2, <1>3, <2>1
  <2>3. CASE queue = <<>>
    <3>1. UNCHANGED <<queue, stack>>
      BY <1>3, <2>3 DEF Resume
    <3>2. PublishIsAlone
      BY DEF ReplayInv
    <3>3. PreviewIsAlone' /\ PublishIsAlone'
      BY <1>0, <1>1, <2>3, <3>1, <3>2 DEF PreviewIsAlone, PublishIsAlone
    <3>4. ParkedIsRefreshing' /\ ParkedIsAlone'
      BY <2>2, <2>3, <3>1 DEF ParkedIsRefreshing, ParkedIsAlone
    <3> QED
      BY <1>0, <1>1, <2>2, <3>1, <3>3, <3>4 DEF ReplayInv
  <2>4. CASE queue # <<>>
    <3> DEFINE f == [kind |-> "replay", rest |-> queue, valid |-> TRUE]
    <3>1. NoPreview(stack)
      BY <1>0, <2>2, <2>4 DEF PreviewIsAlone
    <3>2. NoLive(stack)
      <4>1. CASE stack = <<>>
        BY <4>1 DEF NoLive
      <4>2. CASE stack # <<>>
        <5>1. 1 \in 1..Len(stack) /\ Head(stack) = stack[1]
          BY <1>0, <4>2, LenProperties, EmptySeq
        <5>2. stack[1].kind \in Dialogs /\ stack[1].kind # "preview"
          BY <1>0, <3>1, <4>2, <5>1 DEF Delivers, Idle, NoPreview
        <5>3. ~IsLive(stack, 1)
          BY <5>2 DEF IsLive, Dialogs
        <5> QED
          BY <1>0, <5>2, <5>3 DEF Shape, NoLive
      <4> QED
        BY <4>1, <4>2
    <3>3. stack' = <<f>> \o stack /\ queue' = <<>>
      BY <1>0, <1>3, <2>4, <3>2, ResumingIsLive DEF Resume
    <3>4. f \in Frames /\ f.kind = "replay" /\ f.rest = queue
      BY <1>0, ReplayFrames
    <3> HIDE DEF f
    <3>5. \A k \in 1..Len(queue) : queue[k].kind = "publish" => k = 1 /\ NoReads
      BY <1>0, <2>2 DEF ParkedIsAlone
    <3>6. /\ Shape(stack') /\ NoPreview(stack')
          /\ (\A k \in 1..Len(queue) : queue[k].kind # "publish") => NoPublish(stack')
      BY <1>0, <3>1, <3>2, <3>3, <3>4, <3>5, ReplayShape
    <3>7. ~NoPublish(stack') => NoReads'
      BY <1>1, <3>5, <3>6
    <3>8. PreviewIsAlone' /\ PublishIsAlone'
      BY <3>3, <3>6, <3>7 DEF PreviewIsAlone, PublishIsAlone
    <3>9. ParkedIsRefreshing' /\ ParkedIsAlone'
      BY <2>2, <3>3 DEF ParkedIsRefreshing, ParkedIsAlone
    <3> QED
      BY <1>1, <2>2, <3>6, <3>8, <3>9 DEF ReplayInv
  <2> QED
    BY <2>3, <2>4
<1>4. CASE Mine(t) /\ GiveUpRefresh(stack)
  <2>1. queue' = <<>> /\ stack' = Abandoned(stack) /\ session'.gen = session.gen
    BY <1>0, <1>4 DEF GiveUpRefresh, CancelPending, Sessions
  <2>2. RenewalIsOne'
    BY <1>2, <1>4, <2>1
  <2> QED
    BY <1>0, <1>1, <2>1, <2>2, DroppedKeeps
<1>5. CASE ~Mine(t) /\ UNCHANGED <<credentialVars, session, queue, stack>>
  <2> DEFINE none == {}
  <2>1. tasks' \subseteq tasks \cup none /\ \A u \in none : u.kind = "exchange"
    BY <1>0
  <2> HIDE DEF none
  <2> QED
    BY <1>0, <1>1, <1>5, <2>1, PassingKeeps DEF credentialVars
<1> QED
  BY <1>3, <1>4, <1>5 DEF RenewalAnswered

\* A step which opens nothing, parks nothing and only answers tasks.
LEMMA AnsweredKeeps ==
    ASSUME ReplayInv, stack \in Seq(Frames), UNCHANGED queue,
           stack' = stack \/ (stack # <<>> /\ stack' = Tail(stack)),
           settings'.due = settings.due, session'.gen = session.gen,
           session'.refreshing = session.refreshing, tasks' \subseteq tasks, OneWrite'
    PROVE  ReplayInv'
<1> DEFINE none == {}
<1>1. tasks' \subseteq tasks \cup none /\ \A u \in none : u.kind = "exchange"
  OBVIOUS
<1> HIDE DEF none
<1> QED
  BY <1>1, PassingKeeps

\* One entry is parked which is not a publish, where there is no preview and no publish
\* to come.
LEMMA ParkKeeps ==
    ASSUME TypeOK, ReplayInv, UNCHANGED <<settings, publishing>>,
           NEW e \in Entries, e.kind # "publish",
           NEW T \in SUBSET tasks, NEW S \in Seq(Frames),
           Refresh(Append(queue, e), T, S, session),
           Shape(S), NoPreview(S), NoPublish(S), stack = <<>> => S = <<>>
    PROVE  ReplayInv'
<1>0. queue \in Seq(Entries) /\ session \in Sessions /\ OneWrite
  BY DEF TypeOK, Sessions, ReplayInv
<1>1. /\ Append(queue, e) \in Seq(Entries) /\ Len(Append(queue, e)) = Len(queue) + 1
      /\ Len(queue) \in Nat /\ Append(queue, e)[Len(queue) + 1] = e
      /\ \A k \in 1..Len(queue) : Append(queue, e)[k] = queue[k]
  BY <1>0, AppendProperties, LenProperties
<1> DEFINE waiting == Append(queue, e)
<1>2. waiting \in Seq(Entries) /\ Refresh(waiting, T, S, session)
  BY <1>1
<1>3. \A k \in 1..Len(waiting) : waiting[k].kind = "publish" =>
         k \in 1..Len(queue) /\ queue[k].kind = "publish"
  BY <1>1
<1> HIDE DEF waiting
<1>4. OneWrite'
  <2>1. \A t \in tasks' : t \in tasks \/ t.kind = "renew"
    BY <1>0, <1>2, RefreshStarts
  <2> QED
    BY <1>0, <2>1 DEF OneWrite
<1> QED
  BY <1>0, <1>2, <1>3, <1>4, RefreshKeeps

\* The answer to a read.
LEMMA ReadKeeps ==
    ASSUME TypeOK, ReplayInv, NEW t \in tasks, ReadAnswered(t)
    PROVE  ReplayInv'
<1>0. /\ RenewalIsOne /\ OneWrite /\ Shape(stack) /\ stack \in Seq(Frames)
      /\ PreviewIsAlone /\ PublishIsAlone /\ queue \in Seq(Entries) /\ session \in Sessions
      /\ UNCHANGED <<settings, publishing>> /\ t.kind = "read" /\ Delivers
  BY DEF ReplayInv, TypeOK, Sessions, ReadAnswered, credentialVars
<1>1. NoPreview(stack) /\ NoPublish(stack)
  BY <1>0 DEF PreviewIsAlone, PublishIsAlone, NoReads
<1>2. CASE tasks' = tasks \ {t} /\ UNCHANGED <<queue, session, stack>>
  <2>1. OneWrite'
    BY <1>0, <1>2, AnsweredTasks
  <2> QED
    BY <1>0, <1>2, <2>1, AnsweredKeeps
<1>3. CASE tasks' = tasks \ {t} /\ Connected
  <2>1. stack' \in {stack, <<[kind |-> "offer"]>> \o stack} /\ UNCHANGED <<queue, session>>
    BY <1>3 DEF Connected
  <2>2. OneWrite'
    BY <1>0, <1>3, <2>1, AnsweredTasks
  <2> QED
    BY <1>0, <1>1, <1>3, <2>1, <2>2, OpenedKeeps
<1>4. CASE Refresh(Append(queue, [kind |-> "retry", read |-> t]), tasks \ {t}, stack, session)
  <2> DEFINE e == [kind |-> "retry", read |-> t]
  <2>1. t \in Reads
    BY <1>0, TaskParts DEF TypeOK
  <2>2. e \in Entries /\ e.kind # "publish"
    BY <2>1 DEF Entries
  <2> HIDE DEF e
  <2>3. Refresh(Append(queue, e), tasks \ {t}, stack, session)
    BY <1>4 DEF e
  <2> QED
    BY <1>0, <1>1, <2>2, <2>3, ParkKeeps
<1> QED
  BY <1>2, <1>3, <1>4 DEF ReadAnswered

\* The end of an upload.
LEMMA WriteKeeps ==
    ASSUME TypeOK, ReplayInv, NEW t \in tasks, WriteAnswered(t)
    PROVE  ReplayInv'
<1>0. /\ RenewalIsOne /\ OneWrite /\ Shape(stack) /\ stack \in Seq(Frames)
      /\ PreviewIsAlone /\ queue \in Seq(Entries) /\ session \in Sessions
      /\ UNCHANGED settings /\ t.kind = "write" /\ Delivers
  BY DEF ReplayInv, TypeOK, Sessions, WriteAnswered, credentialVars
<1>1. NoPreview(stack)
  BY <1>0 DEF PreviewIsAlone, NoWrites
<1>2. \A u \in tasks \ {t} : u.kind # "write"
  BY <1>0 DEF OneWrite
<1>3. CASE /\ tasks' = tasks \ {t} /\ stack' \in {stack, <<[kind |-> "report"]>> \o stack}
           /\ UNCHANGED <<queue, session>>
  <2>1. OneWrite'
    BY <1>2, <1>3 DEF OneWrite
  <2> QED
    BY <1>0, <1>1, <1>3, <2>1, OpenedKeeps
<1>4. CASE Repair(queue, tasks \ {t}, stack)
  <2>1. CASE queue' = queue /\ stack' = stack /\ tasks' = tasks \ {t} /\ UNCHANGED session
    <3>1. OneWrite'
      BY <1>2, <2>1 DEF OneWrite
    <3> QED
      BY <1>0, <2>1, <3>1, AnsweredKeeps
  <2>2. CASE Refresh(queue, tasks \ {t}, stack, [session EXCEPT !.repairing = TRUE])
    <3> DEFINE s == [session EXCEPT !.repairing = TRUE]
    <3>1. s \in Sessions /\ s.gen = session.gen /\ s.refreshing = session.refreshing
      BY <1>0 DEF Sessions
    <3> HIDE DEF s
    <3>2. Refresh(queue, tasks \ {t}, stack, s)
      BY <2>2 DEF s
    <3>3. OneWrite'
      <4>1. \A u \in tasks' : u \in tasks \ {t} \/ u.kind = "renew"
        BY <3>1, <3>2, RefreshStarts
      <4> QED
        BY <1>2, <4>1 DEF OneWrite
    <3> QED
      BY <1>0, <3>1, <3>2, <3>3, RefreshKeeps, LenProperties
  <2> QED
    BY <1>4, <2>1, <2>2 DEF Repair
<1> QED
  BY <1>3, <1>4 DEF WriteAnswered

\* The answers to a dialog.
LEMMA DialogKeeps ==
    ASSUME TypeOK, ReplayInv, DialogAnswered
    PROVE  ReplayInv'
<1>0. /\ RenewalIsOne /\ OneWrite /\ Shape(stack) /\ stack \in Seq(Frames) /\ stack # <<>>
      /\ PreviewIsAlone /\ session \in Sessions /\ UNCHANGED settings
  BY DEF ReplayInv, TypeOK, Sessions, DialogAnswered, CloseDialog, AcceptPreview, AcceptOffer,
         Idle, credentialVars
<1>1. /\ Tail(stack) \in Seq(Frames) /\ Shape(Tail(stack))
      /\ NoPreview(Tail(stack)) /\ NoPublish(Tail(stack))
  BY <1>0, TailShape
<1>2. CASE CloseDialog
  <2>1. stack' = Tail(stack) /\ UNCHANGED <<session, queue, tasks, publishing>>
    BY <1>2 DEF CloseDialog, panelVars
  <2>2. OneWrite'
    BY <1>0, <2>1, AnsweredTasks
  <2> QED
    BY <1>0, <2>1, <2>2, AnsweredKeeps
<1>3. CASE AcceptPreview
  <2> DEFINE write == WriteOf("publish")
  <2>1. /\ Head(stack).kind = "preview" /\ publishing' = TRUE /\ tasks' = tasks \cup {write}
        /\ stack' = Tail(stack) /\ UNCHANGED <<session, queue>> /\ write.kind = "write"
    BY <1>3 DEF AcceptPreview, WriteOf
  <2> HIDE DEF write
  <2>2. 1 \in 1..Len(stack) /\ Head(stack) = stack[1]
    BY <1>0, LenProperties, EmptySeq
  <2>3. NoWrites
    BY <1>0, <2>1, <2>2 DEF PreviewIsAlone, NoPreview
  <2>4. OneWrite'
    BY <2>1, <2>3 DEF OneWrite, NoWrites
  <2> QED
    BY <1>0, <1>1, <2>1, <2>4, WorkKeeps
<1>4. CASE AcceptOffer
  <2>1. Push(Tail(stack))
    BY <1>4 DEF AcceptOffer
  <2>2. CASE publishing \/ ~registry
    <3>1. stack' = Tail(stack) /\ UNCHANGED <<session, queue, tasks, publishing>>
      BY <2>1, <2>2 DEF Push
    <3>2. OneWrite'
      BY <1>0, <3>1, AnsweredTasks
    <3> QED
      BY <1>0, <3>1, <3>2, AnsweredKeeps
  <2>3. CASE ~(publishing \/ ~registry) /\ MustWait(Tail(stack))
    <3> DEFINE e == [kind |-> "push"]
    <3>1. /\ Refresh(Append(queue, e), tasks, Tail(stack), session)
          /\ UNCHANGED publishing /\ e \in Entries /\ e.kind # "publish"
      BY <2>1, <2>3 DEF Push, Entries, Actions
    <3> HIDE DEF e
    <3> QED
      BY <1>0, <1>1, <3>1, ParkKeeps
  <2>4. CASE ~(publishing \/ ~registry) /\ ~MustWait(Tail(stack))
    <3> DEFINE write == WriteOf("push")
    <3>1. write.kind = "write"
      BY DEF WriteOf
    <3> HIDE DEF write
    <3>2. /\ stack' = Tail(stack) /\ UNCHANGED <<queue, session>>
          /\ \/ UNCHANGED <<tasks, publishing>>
             \/ tasks' \subseteq tasks \cup {write} /\ ~publishing /\ publishing' = TRUE
      BY <2>1, <2>4 DEF Push, write
    <3>3. OneWrite'
      BY <1>0, <3>1, <3>2 DEF OneWrite
    <3> QED
      BY <1>0, <1>1, <3>1, <3>2, <3>3, WorkKeeps
  <2> QED
    BY <2>2, <2>3, <2>4
<1> QED
  BY <1>2, <1>3, <1>4 DEF DialogAnswered

\* Nothing is open in an idle QGIS.
LEMMA IdleShape ==
    ASSUME Idle
    PROVE  /\ stack = <<>> /\ stack \in Seq(Frames) /\ Shape(stack)
           /\ NoPreview(stack) /\ NoPublish(stack) /\ NoLive(stack) /\ ~Resuming(stack)
<1>1. stack = <<>> /\ Len(stack) = 0 /\ DOMAIN stack = 1..0 /\ stack \in Seq(Frames)
  BY DEF Idle
<1> QED
  BY <1>1 DEF Shape, NoPreview, NoPublish, NoLive, Resuming

\* The person asks to connect.
LEMMA AskConnectKeeps ==
    ASSUME TypeOK, ReplayInv, AskConnect
    PROVE  ReplayInv'
<1>0. /\ Connect(stack) /\ Idle /\ UNCHANGED <<settings, publishing>> /\ OneWrite
  BY DEF AskConnect, credentialVars, panelVars, ReplayInv
<1>1. CASE MustWait(stack)
  <2> DEFINE e == [kind |-> "connect"]
  <2>1. Refresh(Append(queue, e), tasks, stack, session) /\ e \in Entries /\ e.kind # "publish"
    BY <1>0, <1>1 DEF Connect, Entries, Actions
  <2> HIDE DEF e
  <2> QED
    BY <1>0, <2>1, ParkKeeps, IdleShape
<1>2. CASE ~MustWait(stack)
  <2> DEFINE read == ReadOf(FALSE, serial + 1)
  <2>1. tasks' = tasks \cup {read} /\ stack' = stack /\ UNCHANGED <<queue, session>>
    BY <1>0, <1>2 DEF Connect
  <2>2. read.kind = "read"
    BY DEF ReadOf
  <2> HIDE DEF read
  <2>3. OneWrite'
    BY <1>0, <2>1, <2>2 DEF OneWrite
  <2>4. ~settings.due
    BY <1>0, <1>2, IdleShape DEF MustWait
  <2> QED
    BY <1>0, <2>1, <2>2, <2>3, <2>4, WorkKeeps, IdleShape
<1> QED
  BY <1>1, <1>2

\* The person asks to publish: nothing runs, so nothing can come in between.
LEMMA AskPublishKeeps ==
    ASSUME TypeOK, ReplayInv, AskPublish
    PROVE  ReplayInv'
<1>0. /\ Publish(stack) /\ Idle /\ tasks = {} /\ UNCHANGED <<settings, publishing>>
      /\ RenewalIsOne /\ ParkedIsRefreshing /\ OneWrite
      /\ queue \in Seq(Entries) /\ session \in Sessions
  BY DEF AskPublish, Busy, credentialVars, panelVars, ReplayInv, TypeOK, Sessions
<1>1. CASE publishing \/ ~registry
  <2>1. stack' = stack /\ UNCHANGED <<session, queue, tasks>>
    BY <1>0, <1>1 DEF Publish
  <2>2. OneWrite'
    BY <1>0, <2>1, AnsweredTasks
  <2> QED
    BY <1>0, <2>1, <2>2, AnsweredKeeps, IdleShape
<1>2. CASE ~(publishing \/ ~registry) /\ MustWait(stack)
  <2> DEFINE e == [kind |-> "publish"]
  <2>1. Refresh(Append(queue, e), tasks, stack, session) /\ e \in Entries
    BY <1>0, <1>2 DEF Publish, Entries, Actions
  <2> HIDE DEF e
  <2>2. settings.due
    BY <1>2 DEF MustWait
  <2>3. CASE /\ session.refreshing /\ stack' = stack /\ tasks' = tasks
             /\ session'.refreshing = TRUE
    <3>1. /\ RenewalIsOne' /\ OneWrite' /\ ParkedIsRefreshing' /\ NoRenewal'
      BY <1>0, <2>3 DEF RenewalIsOne, OneWrite, ParkedIsRefreshing, NoRenewal
    <3>2. PreviewIsAlone' /\ PublishIsAlone' /\ Shape(stack')
      BY <1>0, <2>3, IdleShape DEF PreviewIsAlone, PublishIsAlone
    <3>3. ParkedIsAlone'
      BY <3>1 DEF ParkedIsAlone
    <3> QED
      BY <3>1, <3>2, <3>3 DEF ReplayInv
  <2>4. CASE /\ queue' = <<>> /\ stack' = Abandoned(stack) /\ tasks' = tasks
    <3>1. RenewalIsOne' /\ OneWrite' /\ (NoReads => NoReads') /\ (NoWrites => NoWrites')
      BY <1>0, <2>4 DEF RenewalIsOne, OneWrite, NoReads, NoWrites
    <3> QED
      BY <1>0, <2>4, <3>1, DroppedKeeps, IdleShape
  <2>5. CASE /\ ~session.refreshing /\ queue' = Append(queue, e) /\ stack' = stack
             /\ tasks' = tasks \cup {[kind |-> "renew", gen |-> session.gen, account |-> renewal]}
             /\ session'.gen = session.gen /\ session'.refreshing = TRUE
    <3> DEFINE renew == [kind |-> "renew", gen |-> session.gen, account |-> renewal]
    <3>1. renew.kind = "renew" /\ renew.gen = session.gen /\ session.gen <= session.gen
      BY DEF TypeOK
    <3>2. tasks' = {renew}
      BY <1>0, <2>5
    <3> HIDE DEF renew
    <3>3. queue = <<>>
      BY <1>0, <2>5 DEF ParkedIsRefreshing
    <3>4. Len(queue') = 1
      <4>1. Len(queue') = Len(queue) + 1
        BY <1>0, <2>1, <2>5, AppendProperties
      <4> QED
        BY <3>3, <4>1
    <3>5. RenewalIsOne' /\ OneWrite' /\ ParkedIsRefreshing' /\ NoReads' /\ NoWrites'
      BY <2>5, <3>1, <3>2
         DEF RenewalIsOne, Renews, OneWrite, ParkedIsRefreshing, NoReads, NoWrites
    <3>6. PreviewIsAlone' /\ PublishIsAlone' /\ Shape(stack')
      BY <1>0, <2>5, IdleShape DEF PreviewIsAlone, PublishIsAlone
    <3>7. stack' = <<>> /\ settings'.due
      BY <1>0, <2>2, <2>5, IdleShape
    <3>8. ParkedIsAlone'
      BY <3>4, <3>5, <3>7 DEF ParkedIsAlone
    <3> QED
      BY <3>5, <3>6, <3>8 DEF ReplayInv
  <2> QED
    BY <1>0, <2>1, <2>3, <2>4, <2>5, RefreshCases
<1>3. CASE ~(publishing \/ ~registry) /\ ~MustWait(stack)
  <2>1. stack' = <<[kind |-> "preview"]>> \o stack /\ UNCHANGED <<queue, session, tasks>>
    BY <1>0, <1>3 DEF Publish
  <2>2. Shape(stack') /\ NoPublish(stack')
    BY <1>0, <2>1, PreviewShape, IdleShape
  <2>3. RenewalIsOne' /\ OneWrite' /\ NoReads' /\ NoWrites' /\ NoRenewal'
    BY <1>0, <2>1 DEF RenewalIsOne, OneWrite, NoReads, NoWrites, NoRenewal
  <2>4. PreviewIsAlone' /\ PublishIsAlone' /\ ParkedIsAlone' /\ ParkedIsRefreshing'
    BY <1>0, <2>1, <2>2, <2>3
       DEF PreviewIsAlone, PublishIsAlone, ParkedIsAlone, ParkedIsRefreshing
  <2> QED
    BY <2>2, <2>3, <2>4 DEF ReplayInv
<1> QED
  BY <1>1, <1>2, <1>3

\* What else the person does, and a browser which comes back.
LEMMA PersonKeeps ==
    ASSUME TypeOK, ReplayInv,
           \/ SignIn \/ SignOut \/ StartEditing \/ StopEditing
           \/ \E t \in tasks : CancelTask(t)
           \/ \E account \in Accounts : CodeReceived(account)
    PROVE  ReplayInv'
<1>0. stack \in Seq(Frames) /\ OneWrite /\ RenewalIsOne
  BY DEF TypeOK, ReplayInv
<1>1. CASE SignIn \/ StartEditing \/ StopEditing \/ \E t \in tasks : CancelTask(t)
  <2>1. /\ UNCHANGED <<session, queue, stack, settings, publishing>> /\ tasks' \subseteq tasks
    BY <1>1 DEF SignIn, StartEditing, StopEditing, CancelTask, credentialVars, panelVars
  <2>2. OneWrite'
    BY <1>0, <2>1, AnsweredTasks
  <2> QED
    BY <1>0, <2>1, <2>2, AnsweredKeeps
<1>2. CASE SignOut
  <2>1. Advance(stack) /\ UNCHANGED <<tasks, publishing>>
    BY <1>2 DEF SignOut
  <2> QED
    BY <2>1, AdvanceKeeps
<1>3. ASSUME NEW account \in Accounts, CodeReceived(account) PROVE ReplayInv'
  <2> DEFINE exchange == [kind |-> "exchange", gen |-> session.gen, account |-> account]
             started == {exchange}
  <2>1. /\ tasks' = tasks \cup started
        /\ UNCHANGED <<session, queue, stack, settings, publishing>>
    BY <1>3 DEF CodeReceived, credentialVars
  <2>2. \A u \in started : u.kind = "exchange"
    OBVIOUS
  <2> HIDE DEF started
  <2>3. OneWrite'
    BY <1>0, <2>1, <2>2, FewerTasks
  <2> QED
    BY <1>0, <2>1, <2>2, <2>3, PassingKeeps
<1> QED
  BY <1>1, <1>2, <1>3

\* Every step keeps the invariant.
LEMMA StepReplay ==
    ASSUME TypeOK, ReplayInv, [Next]_vars
    PROVE  ReplayInv'
<1>1. CASE UNCHANGED vars
  <2>1. UNCHANGED <<session, queue, stack, settings, publishing, tasks>> /\ OneWrite
        /\ stack \in Seq(Frames)
    BY <1>1 DEF vars, credentialVars, panelVars, ReplayInv, TypeOK
  <2>2. OneWrite'
    BY <2>1, AnsweredTasks
  <2> QED
    BY <2>1, <2>2, AnsweredKeeps
<1>2. CASE ReplayNext \/ TimerFires \/ TokenAges \/ SignInFails
  BY <1>2, ReplayKeeps, TimerKeeps
<1>3. CASE Renewed \/ Answered
  BY <1>3, RenewalKeeps, ExchangeKeeps, ReadKeeps, WriteKeeps DEF Renewed, Answered
<1>4. CASE DialogAnswered
  BY <1>4, DialogKeeps
<1>5. CASE Person
  BY <1>5, AskConnectKeeps, AskPublishKeeps, PersonKeeps DEF Person
<1>6. CASE \E account \in Accounts : CodeReceived(account)
  BY <1>6, PersonKeeps
<1> QED
  BY <1>1, <1>2, <1>3, <1>4, <1>5, <1>6 DEF Next

\* Nothing runs and nothing is parked at the start.
LEMMA InitReplay ==
    ASSUME Init
    PROVE  ReplayInv
<1>1. Idle /\ queue = <<>> /\ tasks = {}
  BY DEF Init, Idle
<1>2. RenewalIsOne /\ ParkedIsRefreshing /\ OneWrite
  BY <1>1 DEF RenewalIsOne, ParkedIsRefreshing, OneWrite
<1>3. PreviewIsAlone /\ PublishIsAlone /\ Shape(stack)
  BY <1>1, IdleShape DEF PreviewIsAlone, PublishIsAlone
<1>4. ParkedIsAlone
  BY <1>1 DEF ParkedIsAlone
<1> QED
  BY <1>2, <1>3, <1>4 DEF ReplayInv

\* In every reachable state.
LEMMA ReplayInvariant == Spec => [](TypeInv /\ ReplayInv)
<1>1. Init => TypeInv /\ ReplayInv
  BY InitTypes, InitReplay
<1>2. TypeInv /\ ReplayInv /\ [Next]_vars => (TypeInv /\ ReplayInv)'
  BY StepTypes, StepReplay DEF TypeInv
<1> QED
  BY <1>1, <1>2, PTL DEF Spec

\* One upload runs at a time, and says so in `publishing`: though a publish looks at the
\* flag before its preview only, and Connect may offer a push inside any dialog, no answer
\* that could start another upload is due while a preview is open.
THEOREM OneUploadAtATime == Spec => []OnePublish
<1>1. ReplayInv => OnePublish
  <2> SUFFICES ASSUME ReplayInv PROVE OnePublish
    OBVIOUS
  <2> DEFINE writes == {t \in tasks : t.kind = "write"}
  <2>1. \A t, u \in writes : t = u /\ publishing
    BY DEF ReplayInv, OneWrite
  <2>2. Cardinality(writes) <= 1
    <3>1. CASE writes = {}
      BY <3>1, FS_EmptySet
    <3>2. CASE writes # {}
      <4>1. PICK t : t \in writes
        BY <3>2
      <4>2. writes = {t}
        BY <2>1, <4>1
      <4>3. Cardinality({t}) = 1
        BY FS_Singleton
      <4> QED
        BY <4>2, <4>3
    <3> QED
      BY <3>1, <3>2
  <2>3. writes # {} => publishing
    BY <2>1
  <2> QED
    BY <2>2, <2>3 DEF OnePublish
<1> QED
  BY <1>1, ReplayInvariant, PTL

-----------------------------------------------------------------------------
(* How often an action waits.                                               *)

\* The entries of q which are this action.
Places(a, q) == {n \in 1..Len(q) : q[n].kind = a}

Count(a, q) == Cardinality(Places(a, q))

\* What is counted is finite.
LEMMA CountType ==
    ASSUME NEW q \in Seq(Entries), NEW a
    PROVE  IsFiniteSet(Places(a, q)) /\ Count(a, q) \in Nat
<1>1. Len(q) \in Nat
  BY LenProperties
<1>2. IsFiniteSet(1..Len(q)) /\ Places(a, q) \in SUBSET (1..Len(q))
  BY <1>1, FS_Interval DEF Places
<1> QED
  BY <1>2, FS_Subset, FS_CardinalityType DEF Count

\* Nothing waits in an empty queue.
LEMMA CountNone ==
    ASSUME NEW a
    PROVE  Count(a, <<>>) = 0
<1>1. Places(a, <<>>) = {}
  BY DEF Places
<1> QED
  BY <1>1, FS_EmptySet DEF Count

\* An entry parked counts once, if it is this action.
LEMMA CountAppend ==
    ASSUME NEW q \in Seq(Entries), NEW e \in Entries, NEW a
    PROVE  Count(a, Append(q, e)) = Count(a, q) + IF e.kind = a THEN 1 ELSE 0
<1> DEFINE p == Append(q, e)
<1>1. /\ Len(p) = Len(q) + 1 /\ Len(q) \in Nat /\ p[Len(q) + 1] = e
      /\ \A n \in 1..Len(q) : p[n] = q[n]
  BY AppendProperties, LenProperties
<1> HIDE DEF p
<1>2. IsFiniteSet(Places(a, q)) /\ Count(a, q) \in Nat
  BY CountType
<1>3. CASE e.kind = a
  <2>1. Places(a, p) = Places(a, q) \cup {Len(q) + 1}
    BY <1>1, <1>3 DEF Places
  <2>2. Len(q) + 1 \notin Places(a, q)
    BY <1>1 DEF Places
  <2>3. Cardinality(Places(a, q) \cup {Len(q) + 1}) = Cardinality(Places(a, q)) + 1
    BY <1>2, <2>2, FS_AddElement
  <2> QED
    BY <1>3, <2>1, <2>3 DEF Count, p
<1>4. CASE e.kind # a
  <2>1. Places(a, p) = Places(a, q)
    BY <1>1, <1>4 DEF Places
  <2> QED
    BY <1>2, <1>4, <2>1 DEF Count, p
<1> QED
  BY <1>3, <1>4

\* Taking the first entry takes one from the count of its action.
LEMMA CountTail ==
    ASSUME NEW q \in Seq(Entries), q # <<>>, NEW a
    PROVE  Count(a, q) = Count(a, Tail(q)) + IF Head(q).kind = a THEN 1 ELSE 0
<1> DEFINE r == Tail(q)
           later == {n \in 2..Len(q) : q[n].kind = a}
           shift == [n \in Places(a, r) |-> n + 1]
<1>1. /\ r \in Seq(Entries) /\ Len(r) = Len(q) - 1 /\ Len(q) \in Nat /\ Len(q) > 0
      /\ \A n \in 1..Len(r) : r[n] = q[n + 1]
      /\ Head(q) = q[1]
  BY HeadTailProperties, LenProperties, EmptySeq
<1> HIDE DEF r
<1>2. IsFiniteSet(Places(a, r)) /\ Count(a, r) \in Nat
  BY <1>1, CountType
<1>3. \A n \in Places(a, r) : n + 1 \in later /\ n \in Nat
  BY <1>1 DEF Places
<1>4. \A n \in later : n - 1 \in Places(a, r) /\ n = (n - 1) + 1
  BY <1>1 DEF Places
<1>5. shift \in Bijection(Places(a, r), later)
  <2>1. shift \in [Places(a, r) -> later]
    BY <1>3
  <2>2. \A m, n \in Places(a, r) : shift[m] = shift[n] => m = n
    BY <1>3
  <2>3. \A n \in later : \E m \in Places(a, r) : shift[m] = n
    BY <1>4
  <2> QED
    BY <2>1, <2>2, <2>3, Fun_IsBij
<1>6. IsFiniteSet(later) /\ Cardinality(later) = Count(a, r)
  <2>1. ExistsBijection(Places(a, r), later)
    BY <1>5 DEF ExistsBijection
  <2> QED
    BY <1>2, <2>1, FS_Bijection DEF Count
<1>7. CASE Head(q).kind = a
  <2>1. Places(a, q) = later \cup {1}
    BY <1>1, <1>7 DEF Places
  <2>2. 1 \notin later
    OBVIOUS
  <2> HIDE DEF later
  <2>3. Cardinality(later \cup {1}) = Cardinality(later) + 1
    BY <1>6, <2>2, FS_AddElement
  <2> QED
    BY <1>6, <1>7, <2>1, <2>3 DEF Count, r
<1>8. CASE Head(q).kind # a
  <2>1. Places(a, q) = later
    BY <1>1, <1>8 DEF Places
  <2> QED
    BY <1>2, <1>6, <1>8, <2>1 DEF Count, r
<1> QED
  BY <1>7, <1>8

-----------------------------------------------------------------------------

\* The entries which the replay that goes on has left; there is one such replay at most.
LiveRest(S) ==
    IF NoLive(S) THEN <<>> ELSE S[CHOOSE n \in 1..Len(S) : IsLive(S, n)].rest

\* There is one such replay at most.
LEMMA LiveIsOne ==
    ASSUME NEW S \in Seq(Frames), Shape(S), NEW n \in 1..Len(S), IsLive(S, n)
    PROVE  /\ \A m \in 1..Len(S) : IsLive(S, m) => m = n
           /\ LiveRest(S) = S[n].rest /\ LiveRest(S) \in Seq(Entries)
<1>1. Len(S) \in Nat /\ S[n] \in Frames
  BY LenProperties
<1>2. ASSUME NEW m \in 1..Len(S), IsLive(S, m) PROVE m = n
  <2>1. m \in {1, 2} /\ n \in {1, 2} /\ (m = 2 \/ n = 2 => S[1].kind = "preview")
    BY <1>2 DEF Shape
  <2>2. S[1].kind = "preview" => m # 1 /\ n # 1
    BY <1>2 DEF IsLive
  <2> QED
    BY <2>1, <2>2
<1>3. ~NoLive(S)
  BY DEF NoLive
<1>4. (CHOOSE m \in 1..Len(S) : IsLive(S, m)) = n
  BY <1>2
<1>5. S[n].rest \in Seq(Entries)
  BY <1>1, FrameParts DEF IsLive
<1> QED
  BY <1>2, <1>3, <1>4, <1>5 DEF LiveRest

\* A stack without one leaves nothing to run.
LEMMA LiveRestType ==
    ASSUME NEW S \in Seq(Frames), Shape(S)
    PROVE  LiveRest(S) \in Seq(Entries) /\ (NoLive(S) => LiveRest(S) = <<>>)
<1>1. CASE NoLive(S)
  BY <1>1 DEF LiveRest
<1>2. CASE ~NoLive(S)
  BY <1>2, LiveIsOne DEF NoLive
<1> QED
  BY <1>1, <1>2

\* Closing what is on top, unless it is a replay with entries left, leaves the same to run.
LEMMA LiveRestTail ==
    ASSUME NEW S \in Seq(Frames), S # <<>>, Shape(S),
           IsLive(S, 1) => S[1].rest = <<>>
    PROVE  LiveRest(Tail(S)) = LiveRest(S)
<1>1. /\ Tail(S) \in Seq(Frames) /\ Len(Tail(S)) = Len(S) - 1 /\ Len(S) \in Nat /\ Len(S) > 0
      /\ \A n \in 1..Len(Tail(S)) : Tail(S)[n] = S[n + 1]
  BY HeadTailProperties, LenProperties, EmptySeq
<1>2. Shape(Tail(S)) /\ (S[1].kind # "preview" => NoLive(Tail(S)))
  BY TailShape
<1>3. CASE IsLive(S, 1)
  <2>1. LiveRest(S) = <<>> /\ 1 \in 1..Len(S)
    BY <1>1, <1>3, LiveIsOne
  <2>2. S[1].kind # "preview"
    BY <1>3 DEF IsLive
  <2> QED
    BY <1>2, <2>1, <2>2 DEF LiveRest
<1>4. CASE NoLive(S)
  <2>1. NoLive(Tail(S))
    BY <1>1, <1>4 DEF NoLive, IsLive
  <2> QED
    BY <1>4, <2>1 DEF LiveRest
<1>5. CASE ~IsLive(S, 1) /\ ~NoLive(S)
  <2>1. PICK n \in 1..Len(S) : IsLive(S, n)
    BY <1>5 DEF NoLive
  <2>2. n = 2 /\ S[1].kind = "preview"
    BY <1>5, <2>1 DEF Shape
  <2>3. 1 \in 1..Len(Tail(S)) /\ Tail(S)[1] = S[2]
    BY <1>1, <2>1, <2>2
  <2>4. IsLive(Tail(S), 1)
    BY <2>1, <2>2, <2>3 DEF IsLive
  <2> QED
    BY <1>1, <1>2, <2>1, <2>2, <2>3, <2>4, LiveIsOne
<1> QED
  BY <1>3, <1>4, <1>5

\* A dialog that opens leaves the same to run.
LEMMA LiveRestDialog ==
    ASSUME NEW S \in Seq(Frames), Shape(S), NEW d \in Dialogs,
           Shape(<<[kind |-> d]>> \o S)
    PROVE  LiveRest(<<[kind |-> d]>> \o S) = LiveRest(S)
<1> DEFINE f == [kind |-> d]
           U == <<f>> \o S
<1>1. f \in Frames /\ f.kind \in Dialogs
  BY ReplayFrames
<1> HIDE DEF f
<1>2. /\ Len(U) = Len(S) + 1 /\ Len(S) \in Nat /\ U[1] = f /\ U \in Seq(Frames)
      /\ \A n \in 1..Len(S) : U[n + 1] = S[n]
  BY <1>1, PushedStack, LenProperties
<1>3. Shape(U)
  BY DEF f
<1> HIDE DEF U
<1>4. ~IsLive(U, 1)
  BY <1>1, <1>2 DEF IsLive, Dialogs
<1>5. \A n \in 1..Len(S) : IsLive(U, n + 1) <=> IsLive(S, n)
  BY <1>2 DEF IsLive
<1>6. CASE NoLive(S)
  <2>1. ASSUME NEW n \in 1..Len(U) PROVE ~IsLive(U, n)
    <3>1. n = 1 \/ (n - 1 \in 1..Len(S) /\ (n - 1) + 1 = n)
      BY <1>2
    <3> QED
      BY <1>4, <1>5, <1>6, <3>1 DEF NoLive
  <2>2. NoLive(U)
    BY <2>1 DEF NoLive
  <2> QED
    BY <1>6, <2>2 DEF LiveRest, U, f
<1>7. CASE ~NoLive(S)
  <2>1. PICK n \in 1..Len(S) : IsLive(S, n)
    BY <1>7 DEF NoLive
  <2>2. n + 1 \in 1..Len(U) /\ IsLive(U, n + 1) /\ U[n + 1] = S[n]
    BY <1>2, <1>5, <2>1
  <2>3. LiveRest(U) = U[n + 1].rest /\ LiveRest(S) = S[n].rest
    BY <1>2, <1>3, <2>1, <2>2, LiveIsOne
  <2> QED
    BY <2>2, <2>3 DEF U, f
<1> QED
  BY <1>6, <1>7

\* A replay put on top is what goes on.
LEMMA LiveRestReplay ==
    ASSUME NEW S \in Seq(Frames), NEW f \in Frames, f.kind = "replay", f.valid,
           Shape(<<f>> \o S)
    PROVE  LiveRest(<<f>> \o S) = f.rest
<1> DEFINE U == <<f>> \o S
<1>1. U \in Seq(Frames) /\ U[1] = f /\ Len(U) = Len(S) + 1 /\ Len(S) \in Nat
  BY PushedStack, LenProperties
<1> HIDE DEF U
<1>2. 1 \in 1..Len(U) /\ IsLive(U, 1)
  BY <1>1 DEF IsLive
<1>3. Shape(U)
  BY DEF U
<1>4. LiveRest(U) = U[1].rest
  BY <1>1, <1>2, <1>3, LiveIsOne
<1> QED
  BY <1>1, <1>4 DEF U

-----------------------------------------------------------------------------
(* No action is run more often than it was asked for.                       *)

\* How often an action will still be run.
Demand(a) == Count(a, queue) + Count(a, LiveRest(stack))

AskedInv == \A a \in Actions : begun[a] + Demand(a) <= asks[a]

\* Waiting is what Demand counts.
LEMMA WaitingIsDemand ==
    ASSUME TypeOK, ReplayInv, NEW a
    PROVE  Waiting(a) = Demand(a)
<1> DEFINE In(entries) == Cardinality({n \in DOMAIN entries : entries[n].kind = a})
           Live == {n \in DOMAIN stack : stack[n].kind = "replay" /\ stack[n].valid}
<1>0. /\ stack \in Seq(Frames) /\ queue \in Seq(Entries) /\ Shape(stack)
      /\ DOMAIN stack = 1..Len(stack)
  BY LenProperties DEF TypeOK, ReplayInv
<1>1. \A q \in Seq(Entries) : In(q) = Count(a, q)
  <2> SUFFICES ASSUME NEW q \in Seq(Entries) PROVE In(q) = Count(a, q)
    OBVIOUS
  <2>1. DOMAIN q = 1..Len(q)
    BY LenProperties
  <2> QED
    BY <2>1 DEF Count, Places
<1>2. Live = {n \in 1..Len(stack) : IsLive(stack, n)}
  BY <1>0 DEF IsLive
<1>3. Waiting(a) = IF Live = {} THEN In(queue)
                   ELSE In(queue) + In(stack[CHOOSE n \in Live : \A m \in Live : n <= m].rest)
  BY DEF Waiting
<1>4. In(queue) = Count(a, queue) /\ Count(a, queue) \in Nat
  BY <1>0, <1>1, CountType
<1> HIDE DEF In
<1>5. CASE NoLive(stack)
  <2>1. Live = {} /\ LiveRest(stack) = <<>>
    BY <1>2, <1>5 DEF NoLive, LiveRest
  <2> HIDE DEF Live
  <2>2. Count(a, LiveRest(stack)) = 0
    BY <2>1, CountNone
  <2> QED
    BY <1>3, <1>4, <2>1, <2>2 DEF Demand
<1>6. CASE ~NoLive(stack)
  <2>1. PICK n \in 1..Len(stack) : IsLive(stack, n)
    BY <1>6 DEF NoLive
  <2>2. /\ \A m \in 1..Len(stack) : IsLive(stack, m) => m = n
        /\ LiveRest(stack) = stack[n].rest /\ LiveRest(stack) \in Seq(Entries)
    BY <1>0, <2>1, LiveIsOne
  <2>3. Live = {n} /\ n <= n
    BY <1>2, <2>1, <2>2
  <2> HIDE DEF Live
  <2>4. (CHOOSE k \in Live : \A m \in Live : k <= m) = n
    BY <2>3
  <2>5. In(LiveRest(stack)) = Count(a, LiveRest(stack))
    BY <1>1, <2>2
  <2> QED
    BY <1>3, <1>4, <2>2, <2>3, <2>4, <2>5 DEF Demand
<1> QED
  BY <1>5, <1>6

\* What a step that runs nothing does to what waits: it waits on, or is dropped, or the
\* queue becomes a replay where none goes on.
Settles ==
    \/ queue' \in {queue, <<>>} /\ LiveRest(stack') \in {LiveRest(stack), <<>>}
    \/ queue' = <<>> /\ LiveRest(stack') = queue /\ LiveRest(stack) = <<>>

\* The counts are numbers.
LEMMA DemandTypes ==
    ASSUME TypeOK, ReplayInv, NEW a \in Actions
    PROVE  /\ Count(a, queue) \in Nat /\ Count(a, LiveRest(stack)) \in Nat
           /\ Count(a, <<>>) = 0 /\ begun[a] \in Nat /\ asks[a] \in Nat
           /\ queue \in Seq(Entries) /\ LiveRest(stack) \in Seq(Entries)
<1>1. /\ stack \in Seq(Frames) /\ queue \in Seq(Entries) /\ Shape(stack)
      /\ begun[a] \in Nat /\ asks[a] \in Nat
  BY DEF TypeOK, ReplayInv
<1>2. LiveRest(stack) \in Seq(Entries)
  BY <1>1, LiveRestType
<1> QED
  BY <1>1, <1>2, CountType, CountNone

\* Such a step keeps the invariant.
LEMMA SettlesKeeps ==
    ASSUME TypeOK, ReplayInv, AskedInv, UNCHANGED <<asks, begun>>, Settles
    PROVE  AskedInv'
<1> SUFFICES ASSUME NEW a \in Actions
             PROVE  begun[a] + (Count(a, queue') + Count(a, LiveRest(stack'))) <= asks[a]
  BY DEF AskedInv, Demand
<1>1. begun[a] + (Count(a, queue) + Count(a, LiveRest(stack))) <= asks[a]
  BY DEF AskedInv, Demand
<1> QED
  BY <1>1, DemandTypes DEF Settles

\* What a renewal that begins does to them.
LEMMA RefreshSettles ==
    ASSUME TypeOK, NEW waiting, NEW T, NEW S \in Seq(Frames), Shape(S), NEW s \in Sessions,
           Refresh(waiting, T, S, s)
    PROVE  \/ queue' = waiting /\ LiveRest(stack') = LiveRest(S)
           \/ queue' = <<>> /\ LiveRest(stack') = <<>>
<1>1. NoLive(Abandoned(S))
  BY AbandonedShape
<1>2. LiveRest(Abandoned(S)) = <<>>
  BY <1>1 DEF LiveRest
<1> QED
  BY <1>2, RefreshCases

\* A retry of a read that is parked is none of these actions.
LEMMA RetrySettles ==
    ASSUME TypeOK, ReplayInv, AskedInv, UNCHANGED <<asks, begun>>,
           NEW e \in Entries, e.kind = "retry", queue' = Append(queue, e),
           LiveRest(stack') = LiveRest(stack)
    PROVE  AskedInv'
<1> SUFFICES ASSUME NEW a \in Actions
             PROVE  begun[a] + (Count(a, queue') + Count(a, LiveRest(stack'))) <= asks[a]
  BY DEF AskedInv, Demand
<1>1. begun[a] + (Count(a, queue) + Count(a, LiveRest(stack))) <= asks[a]
  BY DEF AskedInv, Demand
<1>2. Count(a, queue') = Count(a, queue)
  <2>1. e.kind # a
    BY DEF Actions
  <2>2. Count(a, queue') = Count(a, queue) + 0
    BY <2>1, DemandTypes, CountAppend
  <2> QED
    BY <2>2, DemandTypes
<1> QED
  BY <1>1, <1>2

\* An action which is asked for waits, is run, or is refused.
LEMMA AskedKeeps ==
    ASSUME TypeOK, ReplayInv, AskedInv, NEW a \in Actions, Asked(a),
           \/ /\ queue' \in {queue, Append(queue, [kind |-> a]), <<>>}
              /\ LiveRest(stack') \in {LiveRest(stack), <<>>} /\ UNCHANGED begun
           \/ Settles /\ Began(a)
    PROVE  AskedInv'
<1> SUFFICES ASSUME NEW b \in Actions
             PROVE  begun'[b] + (Count(b, queue') + Count(b, LiveRest(stack'))) <= asks'[b]
  BY DEF AskedInv, Demand
<1>1. begun[b] + (Count(b, queue) + Count(b, LiveRest(stack))) <= asks[b]
  BY DEF AskedInv, Demand
<1>2. asks'[b] = asks[b] + IF b = a THEN 1 ELSE 0
  BY DEF Asked, TypeOK
<1> DEFINE e == [kind |-> a]
<1>3. e \in Entries /\ e.kind = a
  BY DEF Entries
<1>4. CASE queue' = Append(queue, [kind |-> a]) /\ UNCHANGED begun
           /\ LiveRest(stack') \in {LiveRest(stack), <<>>}
  <2> HIDE DEF e
  <2>1. Count(b, Append(queue, e)) = Count(b, queue) + IF b = a THEN 1 ELSE 0
    BY <1>3, DemandTypes, CountAppend
  <2>2. queue' = Append(queue, e)
    BY <1>4 DEF e
  <2> QED
    BY <1>1, <1>2, <1>4, <2>1, <2>2, DemandTypes
<1>5. CASE Settles /\ UNCHANGED begun
  BY <1>1, <1>2, <1>5, DemandTypes DEF Settles
<1>6. CASE Settles /\ Began(a)
  <2>1. begun'[b] = begun[b] + IF b = a THEN 1 ELSE 0
    BY <1>6 DEF Began, TypeOK
  <2>2. /\ Count(b, queue') \in Nat /\ Count(b, LiveRest(stack')) \in Nat
        /\ Count(b, queue') + Count(b, LiveRest(stack'))
              <= Count(b, queue) + Count(b, LiveRest(stack))
    BY <1>6, DemandTypes DEF Settles
  <2> HIDE DEF e
  <2>3. begun[b] \in Nat /\ asks[b] \in Nat /\ Count(b, queue) \in Nat /\ Count(b, LiveRest(stack)) \in Nat
    BY DemandTypes
  <2> QED
    BY <1>1, <1>2, <2>1, <2>2, <2>3
<1> QED
  BY <1>4, <1>5, <1>6 DEF Settles

\* A replay that runs its next entry takes it from what waits.
LEMMA ReplayAsked ==
    ASSUME TypeOK, ReplayInv, ReplayInv', AskedInv, ReplayNext
    PROVE  AskedInv'
<1> DEFINE frame == Head(stack)
           popped == [frame EXCEPT !.rest = Tail(@)]
           below == <<popped>> \o Tail(stack)
           entry == Head(frame.rest)
<1>0. /\ stack \in Seq(Frames) /\ Shape(stack) /\ Shape(stack') /\ UNCHANGED asks
      /\ stack # <<>> /\ frame.kind \notin Dialogs
  BY DEF ReplayNext, TypeOK, ReplayInv, Delivers, Idle
<1>1. frame \in Frames /\ Tail(stack) \in Seq(Frames) /\ frame = stack[1] /\ 1 \in 1..Len(stack)
  BY <1>0, HeadTailProperties, LenProperties, EmptySeq
<1>2. frame.kind = "replay" /\ frame.rest \in Seq(Entries) /\ frame.valid \in BOOLEAN
  BY <1>0, <1>1, FrameParts
<1>3. CASE frame.valid /\ frame.rest # <<>>
  <2>1. /\ below \in Seq(Frames) /\ entry \in Entries /\ Shape(below) /\ Resuming(below)
    BY <1>3, PoppedShape
  <2>2. Perform(entry, below)
    BY <1>3 DEF ReplayNext
  <2>3. popped \in Frames /\ popped.kind = "replay" /\ popped.valid /\ popped.rest = Tail(frame.rest)
    BY <1>1, <1>2, <1>3, ReplayFrames
  <2>4. LiveRest(stack) = frame.rest
    BY <1>0, <1>1, <1>2, <1>3, LiveIsOne DEF IsLive
  <2> HIDE DEF popped
  <2>5. LiveRest(below) = Tail(frame.rest)
    BY <1>1, <2>1, <2>3, LiveRestReplay
  <2> HIDE DEF below, entry
  <2>6. ~MustWait(below)
    BY <2>1 DEF MustWait
  <2>7. /\ queue' = queue
        /\ stack' = below \/ stack' = <<[kind |-> "preview"]>> \o below
        /\ \/ UNCHANGED begun
           \/ entry.kind \in Actions /\ Began(entry.kind)
    <3>1. CASE entry.kind = "connect" /\ Connect(below)
      BY <2>6, <3>1 DEF Connect, Actions
    <3>2. CASE entry.kind = "publish" /\ Publish(below)
      BY <2>6, <3>2 DEF Publish, Actions
    <3>3. CASE entry.kind = "push" /\ Push(below)
      BY <2>6, <3>3 DEF Push, Actions
    <3>4. CASE entry.kind = "retry" /\ Retry(entry.read, below)
      BY <3>4 DEF Retry
    <3> QED
      BY <2>1, <2>2, <3>1, <3>2, <3>3, <3>4, PerformCases
  <2>8. LiveRest(stack') = Tail(frame.rest)
    BY <1>0, <2>1, <2>5, <2>7, LiveRestDialog DEF Dialogs
  <2> SUFFICES ASSUME NEW a \in Actions
               PROVE  begun'[a] + (Count(a, queue') + Count(a, LiveRest(stack'))) <= asks'[a]
    BY DEF AskedInv, Demand
  <2>9. begun[a] + (Count(a, queue) + Count(a, LiveRest(stack))) <= asks[a]
    BY DEF AskedInv, Demand
  <2>10. Count(a, frame.rest) = Count(a, Tail(frame.rest)) + IF entry.kind = a THEN 1 ELSE 0
    BY <1>2, <1>3, CountTail DEF entry
  <2>11. begun'[a] <= begun[a] + IF entry.kind = a THEN 1 ELSE 0
    <3>1. begun \in [Actions -> Nat]
      BY DEF TypeOK
    <3>2. CASE UNCHANGED begun
      BY <3>1, <3>2
    <3>3. CASE entry.kind \in Actions /\ Began(entry.kind)
      BY <3>1, <3>3 DEF Began
    <3> QED
      BY <2>7, <3>2, <3>3
  <2>12. Count(a, Tail(frame.rest)) \in Nat /\ begun'[a] \in Int
    <3>1. Tail(frame.rest) \in Seq(Entries)
      BY <1>2, <1>3, HeadTailProperties
    <3>2. begun'[a] \in Int
      BY ReplayTypes
    <3> QED
      BY <3>1, <3>2, CountType
  <2> QED
    BY <1>0, <2>4, <2>7, <2>8, <2>9, <2>10, <2>11, <2>12, DemandTypes
<1>4. CASE ~(frame.valid /\ frame.rest # <<>>)
  <2>1. stack' = Tail(stack) /\ UNCHANGED <<queue, begun>>
    BY <1>4 DEF ReplayNext
  <2>2. IsLive(stack, 1) => stack[1].rest = <<>>
    BY <1>1, <1>4 DEF IsLive
  <2>3. LiveRest(stack') = LiveRest(stack)
    BY <1>0, <2>1, <2>2, LiveRestTail
  <2> QED
    BY <1>0, <2>1, <2>3, SettlesKeeps DEF Settles
<1> QED
  BY <1>3, <1>4

\* Cancelling settles what waits.
LEMMA CancelSettles ==
    ASSUME TypeOK, ReplayInv, CancelPending(stack)
    PROVE  Settles
<1>1. NoLive(stack')
  BY AbandonedShape DEF TypeOK, ReplayInv, CancelPending
<1> QED
  BY <1>1 DEF Settles, CancelPending, LiveRest

\* So does the answer to a task which does not park the read it was.
LEMMA AnswersSettle ==
    ASSUME TypeOK, ReplayInv, ReplayInv', NEW t \in tasks,
           ExchangeAnswered(t) \/ RenewalAnswered(t) \/ WriteAnswered(t)
    PROVE  Settles /\ UNCHANGED <<asks, begun>>
<1>0. /\ stack \in Seq(Frames) /\ queue \in Seq(Entries) /\ Shape(stack) /\ Shape(stack')
      /\ session \in Sessions /\ UNCHANGED <<asks, begun>>
  BY DEF TypeOK, ReplayInv, Sessions, ExchangeAnswered, RenewalAnswered, WriteAnswered, historyVars
<1>1. /\ [session EXCEPT !.repairing = TRUE] \in Sessions
  BY <1>0 DEF Sessions
<1> SUFFICES Settles
  BY <1>0
<1> DEFINE s == [session EXCEPT !.repairing = TRUE]
<1>2. CASE UNCHANGED <<queue, stack>>
  BY <1>2 DEF Settles
<1>3. CASE CancelPending(stack)
  BY <1>3, CancelSettles
<1>4. CASE ExchangeAnswered(t)
  <2>1. CASE Repair(<<>>, tasks \ {t}, Abandoned(stack))
    <3>1. Abandoned(stack) \in Seq(Frames) /\ Shape(Abandoned(stack)) /\ NoLive(Abandoned(stack))
      BY <1>0, AbandonedShape, AbandonedStack
    <3>2. LiveRest(Abandoned(stack)) = <<>>
      BY <3>1 DEF LiveRest
    <3>3. CASE queue' = <<>> /\ stack' = Abandoned(stack)
      BY <3>2, <3>3 DEF Settles
    <3>4. CASE Refresh(<<>>, tasks \ {t}, Abandoned(stack), s)
      <4> HIDE DEF s
      <4>1. s \in Sessions
        BY <1>1 DEF s
      <4> QED
        BY <3>1, <3>2, <3>4, <4>1, RefreshSettles DEF Settles
    <3> QED
      BY <2>1, <3>3, <3>4 DEF Repair
  <2>2. CASE StoreCredential(t.account)
    BY <1>2, <1>3, <2>2 DEF StoreCredential, Advance
  <2> QED
    BY <1>2, <1>3, <1>4, <2>1, <2>2 DEF ExchangeAnswered
<1>5. CASE RenewalAnswered(t)
  <2>1. CASE Resume(stack)
    <3>1. CASE Resuming(stack) \/ queue = <<>>
      BY <1>2, <2>1, <3>1 DEF Resume
    <3>2. CASE ~(Resuming(stack) \/ queue = <<>>)
      <4> DEFINE f == [kind |-> "replay", rest |-> queue, valid |-> TRUE]
      <4>1. stack' = <<f>> \o stack /\ queue' = <<>>
        BY <2>1, <3>2 DEF Resume
      <4>2. f \in Frames /\ f.kind = "replay" /\ f.valid /\ f.rest = queue
        BY <1>0, ReplayFrames
      <4> HIDE DEF f
      <4>3. LiveRest(stack') = queue
        BY <1>0, <4>1, <4>2, LiveRestReplay
      <4>4. LiveRest(stack) = <<>>
        BY <1>0, <3>2, ResumingIsLive DEF LiveRest
      <4> QED
        BY <4>1, <4>3, <4>4 DEF Settles
    <3> QED
      BY <3>1, <3>2
  <2> QED
    BY <1>2, <1>3, <1>5, <2>1 DEF RenewalAnswered, GiveUpRefresh
<1>6. CASE WriteAnswered(t)
  <2>1. CASE stack' \in {stack, <<[kind |-> "report"]>> \o stack} /\ UNCHANGED queue
    <3>1. LiveRest(stack') = LiveRest(stack)
      BY <1>0, <2>1, LiveRestDialog DEF Dialogs
    <3> QED
      BY <2>1, <3>1 DEF Settles
  <2>2. CASE Refresh(queue, tasks \ {t}, stack, s)
    <3> HIDE DEF s
    <3>1. s \in Sessions
      BY <1>1 DEF s
    <3> QED
      BY <1>0, <2>2, <3>1, RefreshSettles DEF Settles
  <2> QED
    BY <1>2, <1>6, <2>1, <2>2 DEF WriteAnswered, Repair
<1> QED
  BY <1>0, <1>4, <1>5, <1>6

\* The answer to a read, which may be parked to be asked again.
LEMMA ReadAsked ==
    ASSUME TypeOK, ReplayInv, ReplayInv', AskedInv, NEW t \in tasks, ReadAnswered(t)
    PROVE  AskedInv'
<1>0. /\ stack \in Seq(Frames) /\ Shape(stack) /\ Shape(stack') /\ session \in Sessions
      /\ UNCHANGED <<asks, begun>> /\ t.kind = "read"
  BY DEF TypeOK, ReplayInv, Sessions, ReadAnswered, historyVars
<1>1. CASE UNCHANGED queue /\ stack' \in {stack, <<[kind |-> "offer"]>> \o stack}
  <2>1. LiveRest(stack') = LiveRest(stack)
    BY <1>0, <1>1, LiveRestDialog DEF Dialogs
  <2> QED
    BY <1>0, <1>1, <2>1, SettlesKeeps DEF Settles
<1>2. CASE Refresh(Append(queue, [kind |-> "retry", read |-> t]), tasks \ {t}, stack, session)
  <2> DEFINE e == [kind |-> "retry", read |-> t]
  <2>1. t \in Reads
    BY <1>0, TaskParts DEF TypeOK
  <2>2. e \in Entries /\ e.kind = "retry"
    BY <2>1 DEF Entries
  <2> HIDE DEF e
  <2>3. \/ queue' = Append(queue, e) /\ LiveRest(stack') = LiveRest(stack)
        \/ queue' = <<>> /\ LiveRest(stack') = <<>>
    BY <1>0, <1>2, RefreshSettles DEF e
  <2> QED
    BY <1>0, <2>2, <2>3, RetrySettles, SettlesKeeps DEF Settles
<1> QED
  BY <1>1, <1>2 DEF ReadAnswered, Connected

\* The person asks to connect or to publish, or accepts the offer to push.
LEMMA RequestAsked ==
    ASSUME TypeOK, ReplayInv, ReplayInv', AskedInv, AskConnect \/ AskPublish \/ AcceptOffer
    PROVE  AskedInv'
<1>0. /\ stack \in Seq(Frames) /\ Shape(stack) /\ Shape(stack') /\ session \in Sessions
      /\ "connect" \in Actions /\ "publish" \in Actions /\ "push" \in Actions
  BY DEF TypeOK, ReplayInv, Sessions, Actions
<1>1. CASE AskConnect
  <2>1. Asked("connect") /\ Connect(stack)
    BY <1>1 DEF AskConnect
  <2>2. CASE MustWait(stack)
    <3>1. Refresh(Append(queue, [kind |-> "connect"]), tasks, stack, session) /\ UNCHANGED begun
      BY <2>1, <2>2 DEF Connect
    <3>2. \/ queue' = Append(queue, [kind |-> "connect"]) /\ LiveRest(stack') = LiveRest(stack)
          \/ queue' = <<>> /\ LiveRest(stack') = <<>>
      BY <1>0, <3>1, RefreshSettles
    <3> QED
      BY <1>0, <2>1, <3>1, <3>2, AskedKeeps
  <2>3. CASE ~MustWait(stack)
    <3>1. UNCHANGED <<queue, stack>> /\ Began("connect")
      BY <2>1, <2>3 DEF Connect
    <3> QED
      BY <1>0, <2>1, <3>1, AskedKeeps DEF Settles
  <2> QED
    BY <2>2, <2>3
<1>2. CASE AskPublish
  <2>1. Asked("publish") /\ Publish(stack)
    BY <1>2 DEF AskPublish
  <2>2. CASE publishing \/ ~registry
    <3>1. UNCHANGED <<queue, stack, begun>>
      BY <2>1, <2>2 DEF Publish
    <3> QED
      BY <1>0, <2>1, <3>1, AskedKeeps
  <2>3. CASE ~(publishing \/ ~registry) /\ MustWait(stack)
    <3>1. Refresh(Append(queue, [kind |-> "publish"]), tasks, stack, session) /\ UNCHANGED begun
      BY <2>1, <2>3 DEF Publish
    <3>2. \/ queue' = Append(queue, [kind |-> "publish"]) /\ LiveRest(stack') = LiveRest(stack)
          \/ queue' = <<>> /\ LiveRest(stack') = <<>>
      BY <1>0, <3>1, RefreshSettles
    <3> QED
      BY <1>0, <2>1, <3>1, <3>2, AskedKeeps
  <2>4. CASE ~(publishing \/ ~registry) /\ ~MustWait(stack)
    <3>1. /\ stack' = <<[kind |-> "preview"]>> \o stack /\ UNCHANGED queue /\ Began("publish")
      BY <2>1, <2>4 DEF Publish
    <3>2. LiveRest(stack') = LiveRest(stack)
      BY <1>0, <3>1, LiveRestDialog DEF Dialogs
    <3> QED
      BY <1>0, <2>1, <3>1, <3>2, AskedKeeps DEF Settles
  <2> QED
    BY <2>2, <2>3, <2>4
<1>3. CASE AcceptOffer
  <2>1. Asked("push") /\ Push(Tail(stack)) /\ stack # <<>> /\ Head(stack).kind = "offer"
    BY <1>3 DEF AcceptOffer, Idle
  <2>2. Tail(stack) \in Seq(Frames) /\ Shape(Tail(stack)) /\ Head(stack) = stack[1]
    BY <1>0, <2>1, TailShape, HeadTailProperties, LenProperties, EmptySeq
  <2>3. LiveRest(Tail(stack)) = LiveRest(stack)
    BY <1>0, <2>1, <2>2, LiveRestTail DEF IsLive
  <2>4. CASE publishing \/ ~registry
    <3>1. stack' = Tail(stack) /\ UNCHANGED <<queue, begun>>
      BY <2>1, <2>4 DEF Push
    <3> QED
      BY <1>0, <2>1, <2>3, <3>1, AskedKeeps
  <2>5. CASE ~(publishing \/ ~registry) /\ MustWait(Tail(stack))
    <3>1. Refresh(Append(queue, [kind |-> "push"]), tasks, Tail(stack), session) /\ UNCHANGED begun
      BY <2>1, <2>5 DEF Push
    <3>2. \/ queue' = Append(queue, [kind |-> "push"]) /\ LiveRest(stack') = LiveRest(stack)
          \/ queue' = <<>> /\ LiveRest(stack') = <<>>
      BY <1>0, <2>2, <2>3, <3>1, RefreshSettles
    <3> QED
      BY <1>0, <2>1, <3>1, <3>2, AskedKeeps
  <2>6. CASE ~(publishing \/ ~registry) /\ ~MustWait(Tail(stack))
    <3>1. stack' = Tail(stack) /\ UNCHANGED queue /\ (Began("push") \/ UNCHANGED begun)
      BY <2>1, <2>6 DEF Push
    <3> QED
      BY <1>0, <2>1, <2>3, <3>1, AskedKeeps DEF Settles
  <2> QED
    BY <2>4, <2>5, <2>6
<1> QED
  BY <1>1, <1>2, <1>3

\* Every step keeps the invariant.
LEMMA StepAsked ==
    ASSUME TypeOK, ReplayInv, ReplayInv', AskedInv, [Next]_vars
    PROVE  AskedInv'
<1> USE DEF historyVars
<1>0. /\ stack \in Seq(Frames) /\ Shape(stack) /\ Shape(stack') /\ session \in Sessions
      /\ queue \in Seq(Entries)
  BY DEF TypeOK, ReplayInv, Sessions
<1>1. CASE UNCHANGED <<queue, stack, asks, begun>>
  BY <1>1, SettlesKeeps DEF Settles
<1>2. CASE CancelPending(stack) /\ UNCHANGED <<asks, begun>>
  BY <1>2, CancelSettles, SettlesKeeps
<1>3. CASE TimerFires
  <2>1. Refresh(queue, tasks, stack, session) /\ UNCHANGED <<asks, begun>>
    BY <1>3 DEF TimerFires
  <2>2. Settles
    BY <1>0, <2>1, RefreshSettles DEF Settles
  <2> QED
    BY <2>1, <2>2, SettlesKeeps
<1>4. CASE CloseDialog \/ AcceptPreview
  <2>1. stack' = Tail(stack) /\ stack # <<>> /\ Delivers /\ UNCHANGED <<queue, asks, begun>>
    BY <1>4 DEF CloseDialog, AcceptPreview, Delivers, Dialogs, Idle
  <2>2. Head(stack) = stack[1] /\ Head(stack).kind \in Dialogs
    BY <1>0, <2>1, HeadTailProperties, LenProperties, EmptySeq DEF Delivers, Idle
  <2>3. LiveRest(stack') = LiveRest(stack)
    BY <1>0, <2>1, <2>2, LiveRestTail DEF IsLive, Dialogs
  <2> QED
    BY <2>1, <2>3, SettlesKeeps DEF Settles
<1>5. CASE Renewed \/ Answered
  BY <1>5, AnswersSettle, SettlesKeeps, ReadAsked DEF Renewed, Answered
<1>6. CASE ReplayNext
  BY <1>6, ReplayAsked
<1>7. CASE AskConnect \/ AskPublish \/ AcceptOffer
  BY <1>7, RequestAsked
<1>8. CASE TokenAges \/ SignIn \/ StartEditing \/ StopEditing
  BY <1>1, <1>8 DEF TokenAges, SignIn, StartEditing, StopEditing
<1>9. CASE (\E t \in tasks : CancelTask(t)) \/ \E account \in Accounts : CodeReceived(account)
  BY <1>1, <1>9 DEF CancelTask, CodeReceived
<1>10. CASE SignInFails \/ SignOut
  BY <1>2, <1>10 DEF SignInFails, SignOut, Advance
<1>11. CASE UNCHANGED vars
  BY <1>1, <1>11 DEF vars
<1> QED
  BY <1>3, <1>4, <1>5, <1>6, <1>7, <1>8, <1>9, <1>10, <1>11 DEF Next, Person, DialogAnswered

\* Nothing was asked for at the start.
LEMMA InitAsked ==
    ASSUME Init
    PROVE  AskedInv
<1>1. TypeOK /\ ReplayInv
  BY InitTypes, InitReplay DEF TypeInv
<1>2. queue = <<>> /\ stack = <<>> /\ begun = [a \in Actions |-> 0] /\ asks = [a \in Actions |-> 0]
  BY DEF Init
<1>3. LiveRest(stack) = <<>>
  BY <1>2, IdleShape DEF LiveRest, Idle
<1> QED
  BY <1>2, <1>3, CountNone DEF AskedInv, Demand

\* An action is begun at most as often as it was asked for, counting those that still
\* wait: parked behind several renewals, run again by a replay, a replay in a dialog of
\* another replay, or dropped on the way.
THEOREM RunAsOftenAsAsked == Spec => []AskedOnce
<1>1. Init => TypeInv /\ ReplayInv /\ AskedInv
  BY InitTypes, InitReplay, InitAsked
<1>2. TypeInv /\ ReplayInv /\ AskedInv /\ [Next]_vars => (TypeInv /\ ReplayInv /\ AskedInv)'
  BY StepTypes, StepReplay, StepAsked DEF TypeInv
<1>3. TypeInv /\ ReplayInv /\ AskedInv => AskedOnce
  BY WaitingIsDemand DEF TypeInv, AskedInv, AskedOnce
<1> QED
  BY <1>1, <1>2, <1>3, PTL DEF Spec

=============================================================================
