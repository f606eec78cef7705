-------------------------- MODULE LocalUploadProofs --------------------------
(* Proofs about LocalUpload: a key is created by an upload at most once, the  *)
(* journal with its requests implements UploadOnce, a local feature is        *)
(* created once and a copied label never, reports are true, and what is       *)
(* stored is neither sent again nor left out when a layer is done.            *)
EXTENDS LocalUpload, TLAPS

-----------------------------------------------------------------------------
(* The inductive invariant.                                                *)

\* The run of an upload: attempts stay within their number, a run under way has a
\* number, and what is in a batch was selected and has a key.
GoodRuns == {r \in Runs :
    /\ r.phase # "idle" => r.no # 0
    /\ r.phase \in {"idle", "loading", "reading"} => r.tries = 0
    /\ r.phase = "reserved" => r.tries < MaxTries
    /\ r.chunk \subseteq r.chosen
    /\ \A f \in r.chosen : r.drafts[f] \in Keys}

Types == TypeOK /\ run \in [Instances -> GoodRuns]

InFlight(k) == \E r \in wire : k \in r.keys

Sends(i) == run[i].phase \in {"reserved", "posted"}

\* A request which may still be applied has its rows, and has not been applied.
WireHeld == \A r \in wire : \A k \in r.keys : ledger[k] # "none" /\ landed[k] = 0

WireApart == \A r, s \in wire : r # s => r.keys \cap s.keys = {}

LandedHeld == \A k \in Keys : landed[k] # 0 => landed[k] = 1 /\ ledger[k] # "none"

\* A batch being sent has its rows, and shares none of them with another instance.
Held(i) == Sends(i) => \A k \in Batch(i) : ledger[k] # "none"

Apart(i, j) == i # j /\ Sends(i) /\ Sends(j) => Batch(i) \cap Batch(j) = {}

\* A batch which waits to be sent, or which the server turned down, is neither stored
\* nor under way.
Unsent(i) ==
    \/ run[i].phase = "reserved"
    \/ run[i].phase = "posted" /\ run[i].reply \in {"blamed", "refused", "throttled"}

Fresh(i) == Unsent(i) => \A k \in Batch(i) : landed[k] = 0 /\ ~InFlight(k)

Safe ==
    /\ \A i \in Instances : Held(i) /\ Fresh(i)
    /\ \A i, j \in Instances : Apart(i, j)
    /\ WireHeld /\ WireApart /\ LandedHeld

UploadInv == Types /\ Safe

-----------------------------------------------------------------------------
(* Records of runs.                                                        *)

\* Becomes changes the run of one instance alone.
LEMMA BecomesFacts ==
    ASSUME run \in [Instances -> Runs], NEW i \in Instances, NEW r, Becomes(i, r)
    PROVE  run'[i] = r /\ \A j \in Instances : j # i => run'[j] = run[j]
  BY SMT DEF Becomes

LEMMA BecomesGood ==
    ASSUME run \in [Instances -> GoodRuns], NEW i \in Instances, NEW r \in GoodRuns, Becomes(i, r)
    PROVE  run' \in [Instances -> GoodRuns]
  BY SMT DEF Becomes

LEMMA NoRunIsGood == NoRun \in GoodRuns
  <1>. DEFINE K == [f \in Sources |-> NoKey]
              F == [f \in Sources |-> "none"]
  <1>1. NoKey \in Maybe /\ "none" \in Fates
    BY DEF Maybe, Fates
  <1>2. K \in [Sources -> Maybe] /\ F \in [Sources -> Fates]
    BY <1>1
  <1>3. "idle" \in Phases /\ "none" \in Replies
    BY DEF Phases, Replies
  <1>4. 0 \in 0..MaxRuns /\ 0 \in 0..MaxTries
    BY SMT, UploadAssumption DEF UploadAssumption
  <1>5. TRUE \in BOOLEAN /\ FALSE \in BOOLEAN
    BY Zenon
  <1>6. {} \in SUBSET Keys /\ {} \in SUBSET Sources
    OBVIOUS
  <1>7. NoRun \in Runs
    BY <1>2, <1>3, <1>4, <1>5, <1>6, Zenon DEF NoRun, Runs
  <1>8. /\ NoRun.phase = "idle" /\ NoRun.tries = 0
        /\ NoRun.chunk = {} /\ NoRun.chosen = {}
    BY Zenon DEF NoRun
  <1>. QED
    BY <1>7, <1>8, SMT DEF GoodRuns

LEMMA GoodIf ==
    ASSUME NEW s \in Runs,
           s.phase # "idle" => s.no # 0,
           s.phase \in {"idle", "loading", "reading"} => s.tries = 0,
           s.phase = "reserved" => s.tries < MaxTries,
           s.chunk \subseteq s.chosen,
           \A f \in s.chosen : s.drafts[f] \in Keys
    PROVE  s \in GoodRuns
  BY DEF GoodRuns

\* What a batch is answered with.
LEMMA CountIsGood ==
    ASSUME Types, NEW i \in Instances, NEW fates \in [Sources -> Fates], Count(i, fates),
           run[i].phase # "idle"
    PROVE  run' \in [Instances -> GoodRuns] /\ run'[i].phase = "reading"
  <1>. DEFINE r == run[i]
              C == Pending(i) \ r.chunk
              F == [f \in Sources |-> IF f \in r.chunk THEN fates[f] ELSE r.fate[f]]
              s == [r EXCEPT !.phase = "reading", !.chunk = C, !.reply = "none",
                             !.tries = 0, !.fate = F]
  <1>1. r \in GoodRuns /\ r \in Runs
    BY DEF Types, GoodRuns
  <1>2. r.fate \in [Sources -> Fates] /\ r.chosen \subseteq Sources
    BY <1>1, Zenon DEF Runs
  <1>3. F \in [Sources -> Fates]
    BY <1>2, SMT
  <1>4. C \subseteq r.chosen
    BY SMT DEF Pending
  <1>5. "reading" \in Phases /\ "none" \in Replies /\ 0 \in 0..MaxTries
    BY SMT, UploadAssumption DEF Phases, Replies, UploadAssumption
  <1>6. C \in SUBSET Sources
    BY <1>2, <1>4
  <1>7. s \in Runs
    BY <1>1, <1>3, <1>5, <1>6, Zenon DEF Runs
  <1>8. /\ s.phase = "reading" /\ s.tries = 0 /\ s.no = r.no /\ s.chunk = C
        /\ s.chosen = r.chosen /\ s.drafts = r.drafts
    BY <1>1, SMT DEF Runs
  <1>9. r.no # 0 /\ \A f \in r.chosen : r.drafts[f] \in Keys
    BY <1>1, SMT DEF GoodRuns
  <1>10. s \in GoodRuns
    <2>. HIDE DEF s
    <2>. QED
      BY <1>4, <1>7, <1>8, <1>9, GoodIf
  <1>11. Becomes(i, s)
    BY DEF Count
  <1>12. run \in [Instances -> GoodRuns] /\ run \in [Instances -> Runs]
    BY DEF Types, TypeOK
  <1>. QED
    BY <1>8, <1>10, <1>11, <1>12, BecomesFacts, BecomesGood

\* What a step leaves of the batch an instance is sending.
Quiet(j) ==
    \/ ~Sends(j)'
    \/ /\ run'[j].phase = run[j].phase /\ run'[j].reply = run[j].reply
       /\ run'[j].chunk = run[j].chunk /\ run'[j].drafts = run[j].drafts

QuietRuns == run' \in [Instances -> GoodRuns] /\ \A j \in Instances : Quiet(j)

\* An instance goes to a phase in which it sends nothing.
LEMMA NotSending ==
    ASSUME Types, NEW i \in Instances, NEW s \in GoodRuns, Becomes(i, s),
           s.phase \notin {"reserved", "posted"}
    PROVE  QuietRuns
  <1>1. run \in [Instances -> GoodRuns] /\ run \in [Instances -> Runs]
    BY DEF Types, TypeOK
  <1>2. run' \in [Instances -> GoodRuns]
    BY <1>1, BecomesGood
  <1>3. run'[i] = s /\ \A j \in Instances : j # i => run'[j] = run[j]
    BY <1>1, BecomesFacts
  <1>. QED
    BY <1>2, <1>3, SMT DEF QuietRuns, Quiet, Sends

\* An instance goes on with what it was doing.
LEMMA SameSending ==
    ASSUME Types, NEW i \in Instances, NEW s \in Runs, Becomes(i, s),
           s.phase = run[i].phase, s.no = run[i].no, s.tries = run[i].tries,
           s.reply = run[i].reply, s.chunk = run[i].chunk, s.chosen = run[i].chosen,
           s.drafts = run[i].drafts
    PROVE  QuietRuns
  <1>1. run \in [Instances -> GoodRuns] /\ run \in [Instances -> Runs]
    BY DEF Types, TypeOK
  <1>2. s \in GoodRuns
    BY <1>1, SMT DEF GoodRuns
  <1>3. run' \in [Instances -> GoodRuns]
    BY <1>1, <1>2, BecomesGood
  <1>4. run'[i] = s /\ \A j \in Instances : j # i => run'[j] = run[j]
    BY <1>1, BecomesFacts
  <1>. QED
    BY <1>3, <1>4, SMT DEF QuietRuns, Quiet, Sends

LEMMA EditRuns ==
    ASSUME Types, NEW i \in Instances, NEW f \in Sources, Edit(i, f)
    PROVE  QuietRuns
  <1>. DEFINE b == run[i].phase # "idle"
              s == [run[i] EXCEPT !.edited = b]
  <1>1. run[i] \in Runs /\ b \in BOOLEAN
    BY DEF Types, TypeOK
  <1>2. s \in Runs
    BY <1>1, Zenon DEF Runs
  <1>3. /\ s.phase = run[i].phase /\ s.no = run[i].no /\ s.tries = run[i].tries
        /\ s.reply = run[i].reply /\ s.chunk = run[i].chunk /\ s.chosen = run[i].chosen
        /\ s.drafts = run[i].drafts
    BY <1>1, SMT DEF Runs
  <1>4. Becomes(i, s)
    BY DEF Edit
  <1>. HIDE DEF s
  <1>. QED
    BY <1>2, <1>3, <1>4, SameSending

LEMMA StopRuns ==
    ASSUME Types, NEW i \in Instances, Cancel(i) \/ ChangeConnection(i)
    PROVE  QuietRuns
  <1>. DEFINE s == [run[i] EXCEPT !.stopped = TRUE]
              t == [run[i] EXCEPT !.active = FALSE]
  <1>1. run[i] \in Runs
    BY DEF Types, TypeOK
  <1>2. s \in Runs /\ t \in Runs
    BY <1>1, Zenon DEF Runs
  <1>3. /\ s.phase = run[i].phase /\ s.no = run[i].no /\ s.tries = run[i].tries
        /\ s.reply = run[i].reply /\ s.chunk = run[i].chunk /\ s.chosen = run[i].chosen
        /\ s.drafts = run[i].drafts
    BY <1>1, SMT DEF Runs
  <1>4. /\ t.phase = run[i].phase /\ t.no = run[i].no /\ t.tries = run[i].tries
        /\ t.reply = run[i].reply /\ t.chunk = run[i].chunk /\ t.chosen = run[i].chosen
        /\ t.drafts = run[i].drafts
    BY <1>1, SMT DEF Runs
  <1>5. Becomes(i, s) \/ Becomes(i, t)
    BY DEF Cancel, ChangeConnection
  <1>. HIDE DEF s, t
  <1>. QED
    BY <1>2, <1>3, <1>4, <1>5, SameSending

LEMMA EndRuns ==
    ASSUME Types, NEW i \in Instances, LoadFails(i) \/ Finish(i) \/ Crash(i)
    PROVE  QuietRuns
  <1>1. Becomes(i, NoRun)
    BY DEF LoadFails, Finish, Crash
  <1>2. NoRun.phase = "idle"
    BY Zenon DEF NoRun
  <1>. QED
    BY <1>1, <1>2, NoRunIsGood, NotSending

LEMMA StartRuns ==
    ASSUME Types, NEW i \in Instances, NEW auto \in BOOLEAN, Start(i, auto)
    PROVE  QuietRuns
  <1>. DEFINE n == runs + 1
              U == {f \in Sources : key[f] # NoKey}
              p == IF HasAction THEN "loading" ELSE "raised"
              s == [NoRun EXCEPT !.phase = p, !.no = n, !.auto = auto,
                                 !.copy = key, !.pages = Keys, !.unread = U]
  <1>1. n \in 0..MaxRuns /\ n # 0
    <2>1. runs \in 0..MaxRuns /\ runs < MaxRuns
      BY DEF Types, TypeOK, Start
    <2>2. MaxRuns \in Nat
      BY UploadAssumption DEF UploadAssumption
    <2>. QED
      BY <2>1, <2>2, SMT
  <1>2. key \in [Sources -> Maybe] /\ U \in SUBSET Sources /\ Keys \in SUBSET Keys
    BY DEF Types, TypeOK
  <1>3. p \in Phases /\ p \in {"loading", "raised"}
    BY DEF Phases
  <1>4. NoRun \in Runs
    BY NoRunIsGood DEF GoodRuns
  <1>5. s \in Runs
    BY <1>1, <1>2, <1>3, <1>4, Zenon DEF Runs
  <1>6. NoRun.tries = 0 /\ NoRun.chunk = {} /\ NoRun.chosen = {}
    BY Zenon DEF NoRun
  <1>7. /\ s.phase = p /\ s.no = n /\ s.tries = NoRun.tries
        /\ s.chunk = NoRun.chunk /\ s.chosen = NoRun.chosen
    <2>. HIDE DEF n, U, p
    <2>1. \A r \in Runs : LET q == [r EXCEPT !.phase = p, !.no = n, !.auto = auto,
                                 !.copy = key, !.pages = Keys, !.unread = U]
                          IN  /\ q.phase = p /\ q.no = n /\ q.tries = r.tries
                              /\ q.chunk = r.chunk /\ q.chosen = r.chosen
      BY SMT DEF Runs
    <2>. QED
      BY <1>4, <2>1
  <1>8. Becomes(i, s)
    BY DEF Start
  <1>9. s \in GoodRuns
    <2>. HIDE DEF s, n, p
    <2>. QED
      BY <1>1, <1>3, <1>5, <1>6, <1>7, GoodIf
  <1>. HIDE DEF s, p
  <1>. QED
    BY <1>3, <1>7, <1>8, <1>9, NotSending

\* Reading leaves nothing being sent.
LEMMA PageRuns ==
    ASSUME Types, NEW i \in Instances, NEW k \in Keys, LoadPage(i, k)
    PROVE  QuietRuns
  <1>. DEFINE r == run[i]
  <1>1. r \in GoodRuns /\ r \in Runs /\ r.phase = "loading"
    BY DEF Types, GoodRuns, LoadPage
  <1>2. PICK slipped \in BOOLEAN :
          LET read == k \in OnServer /\ ~slipped
          IN  Becomes(i, [run[i] EXCEPT
                   !.pages = @ \ {k},
                   !.seen = IF read THEN @ \cup {k} ELSE @,
                   !.ids = [f \in Sources |->
                              IF f \in Labelled /\ read /\ labels[f] = k THEN k ELSE @[f]],
                   !.phase = IF run[i].pages = {k} THEN "reading" ELSE @,
                   !.shifted = @ /\ run[i].pages # {k}])
    BY DEF LoadPage
  <1>. DEFINE read == k \in OnServer /\ ~slipped
              P == r.pages \ {k}
              S == IF read THEN r.seen \cup {k} ELSE r.seen
              I == [f \in Sources |->
                     IF f \in Labelled /\ read /\ labels[f] = k THEN k ELSE r.ids[f]]
              p == IF r.pages = {k} THEN "reading" ELSE r.phase
              b == r.shifted /\ r.pages # {k}
              s == [r EXCEPT !.pages = P, !.seen = S, !.ids = I, !.phase = p, !.shifted = b]
  <1>3. Becomes(i, s)
    BY <1>2
  <1>4. /\ r.pages \in SUBSET Keys /\ r.seen \in SUBSET Keys
        /\ r.ids \in [Sources -> Maybe] /\ r.phase \in Phases
    BY <1>1, Zenon DEF Runs
  <1>5. P \in SUBSET Keys /\ S \in SUBSET Keys
    BY <1>4
  <1>6. I \in [Sources -> Maybe]
    BY <1>4, SMT DEF Maybe
  <1>7. p \in Phases /\ p \in {"loading", "reading"}
    BY <1>1, SMT DEF Phases
  <1>8. b \in BOOLEAN
    BY Zenon
  <1>. HIDE DEF P, S, I, p, b, r
  <1>9. s \in Runs
    BY <1>1, <1>5, <1>6, <1>7, <1>8, Zenon DEF Runs
  <1>10. /\ s.phase = p /\ s.no = r.no /\ s.tries = r.tries /\ s.chunk = r.chunk
         /\ s.chosen = r.chosen /\ s.drafts = r.drafts
    BY <1>1, SMT DEF Runs
  <1>. HIDE DEF s
  <1>11. r.no # 0 /\ r.tries = 0 /\ r.chunk \subseteq r.chosen
         /\ \A f \in r.chosen : r.drafts[f] \in Keys
    BY <1>1, SMT DEF GoodRuns
  <1>12. s \in GoodRuns
    BY <1>7, <1>9, <1>10, <1>11, GoodIf
  <1>. QED
    BY <1>3, <1>7, <1>10, <1>12, NotSending

LEMMA ReadRuns ==
    ASSUME Types, NEW i \in Instances, NEW f \in Sources, NEW k \in Keys,
           NEW fate \in Fates, Reads(i, f, k), Read(i, f, k, fate)
    PROVE  QuietRuns
  <1>. DEFINE r == run[i]
              U == r.unread \ {f}
              D == [r.drafts EXCEPT ![f] = k]
              F == [r.fate EXCEPT ![f] = fate]
              s == [r EXCEPT !.unread = U, !.drafts = D, !.fate = F]
  <1>1. r \in GoodRuns /\ r \in Runs /\ r.phase = "reading"
    BY DEF Types, GoodRuns, Reads
  <1>2. Becomes(i, s)
    BY DEF Read
  <1>3. /\ r.unread \in SUBSET Sources /\ r.drafts \in [Sources -> Maybe]
        /\ r.fate \in [Sources -> Fates] /\ r.chosen \in SUBSET Sources
    BY <1>1, Zenon DEF Runs
  <1>4. U \in SUBSET Sources
    BY <1>3
  <1>5. D \in [Sources -> Maybe] /\ F \in [Sources -> Fates]
    BY <1>3, SMT DEF Maybe
  <1>6. r.no # 0 /\ r.tries = 0 /\ r.chunk \subseteq r.chosen
        /\ \A g \in r.chosen : r.drafts[g] \in Keys
    BY <1>1, SMT DEF GoodRuns
  <1>7. \A g \in r.chosen : D[g] \in Keys
    BY <1>3, <1>6, SMT
  <1>. HIDE DEF r, U, D, F
  <1>8. s \in Runs
    BY <1>1, <1>4, <1>5, Zenon DEF Runs
  <1>9. /\ s.phase = r.phase /\ s.no = r.no /\ s.tries = r.tries /\ s.chunk = r.chunk
        /\ s.chosen = r.chosen /\ s.drafts = D
    BY <1>1, SMT DEF Runs
  <1>. HIDE DEF s
  <1>10. s \in GoodRuns
    BY <1>1, <1>6, <1>7, <1>8, <1>9, GoodIf
  <1>. QED
    BY <1>1, <1>2, <1>9, <1>10, NotSending

LEMMA TakenRuns ==
    ASSUME Types, NEW i \in Instances, NEW f \in Sources, NEW k \in Keys,
           FeatureTaken(i, f, k)
    PROVE  QuietRuns
  <1>1. PICK fits \in BOOLEAN :
          Becomes(i, [run[i] EXCEPT !.unread = @ \ {f},
                                    !.drafts = [@ EXCEPT ![f] = k],
                                    !.chosen = @ \cup {f},
                                    !.chunk = IF fits THEN @ \cup {f} ELSE @])
    BY DEF FeatureTaken
  <1>. DEFINE r == run[i]
              U == r.unread \ {f}
              D == [r.drafts EXCEPT ![f] = k]
              H == r.chosen \cup {f}
              C == IF fits THEN r.chunk \cup {f} ELSE r.chunk
              s == [r EXCEPT !.unread = U, !.drafts = D, !.chosen = H, !.chunk = C]
  <1>2. r \in GoodRuns /\ r \in Runs /\ r.phase = "reading"
    BY DEF Types, GoodRuns, FeatureTaken, Reads
  <1>3. Becomes(i, s)
    BY <1>1
  <1>4. /\ r.unread \in SUBSET Sources /\ r.drafts \in [Sources -> Maybe]
        /\ r.chosen \in SUBSET Sources /\ r.chunk \in SUBSET Sources
    BY <1>2, Zenon DEF Runs
  <1>5. U \in SUBSET Sources /\ H \in SUBSET Sources /\ C \in SUBSET Sources
    BY <1>4
  <1>6. D \in [Sources -> Maybe]
    BY <1>4, SMT DEF Maybe
  <1>7. r.no # 0 /\ r.tries = 0 /\ r.chunk \subseteq r.chosen
        /\ \A g \in r.chosen : r.drafts[g] \in Keys
    BY <1>2, SMT DEF GoodRuns
  <1>8. C \subseteq H /\ \A g \in H : D[g] \in Keys
    BY <1>4, <1>7, SMT
  <1>. HIDE DEF r, U, D, H, C
  <1>9. s \in Runs
    BY <1>2, <1>5, <1>6, Zenon DEF Runs
  <1>10. /\ s.phase = r.phase /\ s.no = r.no /\ s.tries = r.tries /\ s.chunk = C
         /\ s.chosen = H /\ s.drafts = D
    BY <1>2, SMT DEF Runs
  <1>. HIDE DEF s
  <1>11. s \in GoodRuns
    BY <1>2, <1>7, <1>8, <1>9, <1>10, GoodIf
  <1>. QED
    BY <1>2, <1>3, <1>10, <1>11, NotSending

LEMMA GoneRuns ==
    ASSUME Types, NEW i \in Instances, NEW f \in Sources, FeatureGone(i, f)
    PROVE  QuietRuns
  <1>. DEFINE U == run[i].unread \ {f}
              s == [run[i] EXCEPT !.unread = U]
  <1>1. run[i] \in Runs
    BY DEF Types, TypeOK
  <1>2. U \in SUBSET Sources
    BY <1>1, Zenon DEF Runs
  <1>3. Becomes(i, s)
    BY DEF FeatureGone
  <1>. HIDE DEF U
  <1>4. s \in Runs
    BY <1>1, <1>2, Zenon DEF Runs
  <1>5. /\ s.phase = run[i].phase /\ s.no = run[i].no /\ s.tries = run[i].tries
        /\ s.reply = run[i].reply /\ s.chunk = run[i].chunk /\ s.chosen = run[i].chosen
        /\ s.drafts = run[i].drafts
    BY <1>1, SMT DEF Runs
  <1>. HIDE DEF s
  <1>. QED
    BY <1>3, <1>4, <1>5, SameSending

LEMMA CloseRuns ==
    ASSUME Types, NEW i \in Instances, Raises(i) \/ EndLayer(i)
    PROVE  QuietRuns
  <1>. DEFINE s == [run[i] EXCEPT !.phase = "closing", !.error = TRUE]
              t == [run[i] EXCEPT !.phase = "closing"]
  <1>1. run[i] \in Runs /\ run[i] \in GoodRuns /\ run[i].phase # "idle"
    BY DEF Types, TypeOK, Raises, EndLayer
  <1>2. "closing" \in Phases
    BY DEF Phases
  <1>3. s \in Runs /\ t \in Runs
    BY <1>1, <1>2, Zenon DEF Runs
  <1>4. /\ s.phase = "closing" /\ s.no = run[i].no /\ s.chunk = run[i].chunk
        /\ s.chosen = run[i].chosen /\ s.drafts = run[i].drafts
    BY <1>1, SMT DEF Runs
  <1>5. /\ t.phase = "closing" /\ t.no = run[i].no /\ t.chunk = run[i].chunk
        /\ t.chosen = run[i].chosen /\ t.drafts = run[i].drafts
    BY <1>1, SMT DEF Runs
  <1>6. Becomes(i, s) \/ Becomes(i, t)
    BY DEF Raises, Fail, EndLayer
  <1>7. run[i].no # 0 /\ run[i].chunk \subseteq run[i].chosen
        /\ \A f \in run[i].chosen : run[i].drafts[f] \in Keys
    BY <1>1, SMT DEF GoodRuns
  <1>. HIDE DEF s, t
  <1>8. s \in GoodRuns /\ t \in GoodRuns
    BY <1>3, <1>4, <1>5, <1>7, GoodIf
  <1>. QED
    BY <1>4, <1>5, <1>6, <1>8, NotSending

\* Sending moves between reserved and posted.
LEMMA ReserveRuns ==
    ASSUME Types, NEW i \in Instances, Reserve(i)
    PROVE  /\ run' \in [Instances -> GoodRuns]
           /\ run'[i].phase = "reserved" /\ run'[i].chunk = run[i].chunk
           /\ run'[i].drafts = run[i].drafts
           /\ \A j \in Instances : j # i => run'[j] = run[j]
  <1>. DEFINE s == [run[i] EXCEPT !.phase = "reserved"]
  <1>1. run[i] \in Runs /\ run[i] \in GoodRuns /\ run[i].phase = "reading"
    BY DEF Types, TypeOK, Reserve, Due
  <1>2. "reserved" \in Phases
    BY DEF Phases
  <1>3. s \in Runs
    BY <1>1, <1>2, Zenon DEF Runs
  <1>4. /\ s.phase = "reserved" /\ s.no = run[i].no /\ s.tries = run[i].tries
        /\ s.chunk = run[i].chunk /\ s.chosen = run[i].chosen /\ s.drafts = run[i].drafts
    BY <1>1, SMT DEF Runs
  <1>5. Becomes(i, s)
    BY DEF Reserve
  <1>6. run[i].no # 0 /\ run[i].tries = 0 /\ run[i].chunk \subseteq run[i].chosen
        /\ \A f \in run[i].chosen : run[i].drafts[f] \in Keys
    BY <1>1, SMT DEF GoodRuns
  <1>. HIDE DEF s
  <1>7. 0 < MaxTries
    BY UploadAssumption, SMT DEF UploadAssumption
  <1>8. s \in GoodRuns
    BY <1>3, <1>4, <1>6, <1>7, GoodIf
  <1>9. run \in [Instances -> GoodRuns] /\ run \in [Instances -> Runs]
    BY DEF Types, TypeOK
  <1>. QED
    BY <1>4, <1>5, <1>8, <1>9, BecomesFacts, BecomesGood

LEMMA PostRuns ==
    ASSUME Types, NEW i \in Instances, Post(i)
    PROVE  /\ run' \in [Instances -> GoodRuns]
           /\ run'[i].phase = "posted" /\ run'[i].reply = "none"
           /\ run'[i].chunk = run[i].chunk /\ run'[i].drafts = run[i].drafts
           /\ \A j \in Instances : j # i => run'[j] = run[j]
  <1>. DEFINE n == run[i].tries + 1
              s == [run[i] EXCEPT !.phase = "posted", !.reply = "none", !.tries = n]
  <1>1. run[i] \in Runs /\ run[i] \in GoodRuns /\ run[i].phase = "reserved"
    BY DEF Types, TypeOK, Post
  <1>2. "posted" \in Phases /\ "none" \in Replies
    BY DEF Phases, Replies
  <1>3. n \in 0..MaxTries
    <2>1. run[i].tries \in 0..MaxTries
      BY <1>1, Zenon DEF Runs
    <2>2. run[i].tries < MaxTries
      BY <1>1, SMT DEF GoodRuns
    <2>3. MaxTries \in Nat
      BY UploadAssumption DEF UploadAssumption
    <2>. QED
      BY <2>1, <2>2, <2>3, SMT
  <1>4. Becomes(i, s)
    BY DEF Post
  <1>. HIDE DEF n
  <1>5. s \in Runs
    BY <1>1, <1>2, <1>3, Zenon DEF Runs
  <1>6. /\ s.phase = "posted" /\ s.reply = "none" /\ s.no = run[i].no
        /\ s.chunk = run[i].chunk /\ s.chosen = run[i].chosen /\ s.drafts = run[i].drafts
    BY <1>1, SMT DEF Runs
  <1>7. run[i].no # 0 /\ run[i].chunk \subseteq run[i].chosen
        /\ \A f \in run[i].chosen : run[i].drafts[f] \in Keys
    BY <1>1, SMT DEF GoodRuns
  <1>. HIDE DEF s
  <1>8. s \in GoodRuns
    BY <1>5, <1>6, <1>7, GoodIf
  <1>9. run \in [Instances -> GoodRuns] /\ run \in [Instances -> Runs]
    BY DEF Types, TypeOK
  <1>. QED
    BY <1>4, <1>6, <1>8, <1>9, BecomesFacts, BecomesGood

\* The rate limiter sends a posted batch back to be sent again.
LEMMA AgainRuns ==
    ASSUME Types, NEW i \in Instances, run[i].phase = "posted",
           run[i].tries < MaxTries, Becomes(i, [run[i] EXCEPT !.phase = "reserved"])
    PROVE  /\ run' \in [Instances -> GoodRuns]
           /\ run'[i].phase = "reserved" /\ run'[i].chunk = run[i].chunk
           /\ run'[i].drafts = run[i].drafts
           /\ \A j \in Instances : j # i => run'[j] = run[j]
  <1>. DEFINE s == [run[i] EXCEPT !.phase = "reserved"]
  <1>1. run[i] \in Runs /\ run[i] \in GoodRuns
    BY DEF Types, TypeOK
  <1>2. "reserved" \in Phases
    BY DEF Phases
  <1>3. s \in Runs
    BY <1>1, <1>2, Zenon DEF Runs
  <1>4. /\ s.phase = "reserved" /\ s.no = run[i].no /\ s.tries = run[i].tries
        /\ s.chunk = run[i].chunk /\ s.chosen = run[i].chosen /\ s.drafts = run[i].drafts
    BY <1>1, SMT DEF Runs
  <1>5. run[i].no # 0 /\ run[i].chunk \subseteq run[i].chosen
        /\ \A f \in run[i].chosen : run[i].drafts[f] \in Keys
    BY <1>1, SMT DEF GoodRuns
  <1>. HIDE DEF s
  <1>6. s \in GoodRuns
    BY <1>3, <1>4, <1>5, GoodIf
  <1>7. Becomes(i, s)
    BY DEF s
  <1>8. run \in [Instances -> GoodRuns] /\ run \in [Instances -> Runs]
    BY DEF Types, TypeOK
  <1>. QED
    BY <1>4, <1>6, <1>7, <1>8, BecomesFacts, BecomesGood

\* A request leaves the wire, and its sender may have an answer.
LEMMA AnswerRuns ==
    ASSUME Types, NEW r \in wire, NEW replies \in SUBSET Replies, Answer(r, replies)
    PROVE  /\ run' \in [Instances -> GoodRuns]
           /\ \A j \in Instances :
                 /\ run'[j].phase = run[j].phase /\ run'[j].chunk = run[j].chunk
                 /\ run'[j].drafts = run[j].drafts
                 /\ \/ run'[j].reply = run[j].reply
                    \/ run'[j].reply \in replies /\ Batch(j) = r.keys
  <1>. DEFINE i == r.by
  <1>1. i \in Instances
    <2>1. r \in Requests
      BY DEF Types, TypeOK
    <2>. QED
      BY <2>1, SMT DEF Requests
  <1>2. PICK reply \in replies :
          Becomes(i, [run[i] EXCEPT !.reply =
            IF run[i].phase = "posted" /\ run[i].no = r.no /\ Batch(i) = r.keys
            THEN reply ELSE @])
    BY DEF Answer
  <1>. DEFINE q == IF run[i].phase = "posted" /\ run[i].no = r.no /\ Batch(i) = r.keys
                   THEN reply ELSE run[i].reply
              s == [run[i] EXCEPT !.reply = q]
  <1>3. run[i] \in Runs /\ run[i] \in GoodRuns
    BY <1>1 DEF Types, TypeOK
  <1>4. run[i].reply \in Replies
    BY <1>3, Zenon DEF Runs
  <1>5. q = run[i].reply \/ (q \in replies /\ Batch(i) = r.keys)
    BY SMT
  <1>. HIDE DEF q
  <1>5a. q \in Replies
    BY <1>4, <1>5
  <1>6. Becomes(i, s)
    BY <1>2 DEF q
  <1>. HIDE DEF i
  <1>7. s \in Runs
    BY <1>3, <1>5a, Zenon DEF Runs
  <1>8. /\ s.phase = run[i].phase /\ s.no = run[i].no /\ s.tries = run[i].tries
        /\ s.reply = q /\ s.chunk = run[i].chunk /\ s.chosen = run[i].chosen
        /\ s.drafts = run[i].drafts
    BY <1>3, SMT DEF Runs
  <1>. HIDE DEF s
  <1>9. s \in GoodRuns
    BY <1>3, <1>7, <1>8, SMT DEF GoodRuns
  <1>10. run \in [Instances -> GoodRuns] /\ run \in [Instances -> Runs]
    BY DEF Types, TypeOK
  <1>11. run' \in [Instances -> GoodRuns]
    BY <1>1, <1>6, <1>9, <1>10, BecomesGood
  <1>12. run'[i] = s /\ \A j \in Instances : j # i => run'[j] = run[j]
    BY <1>1, <1>6, <1>10, BecomesFacts
  <1>. QED
    BY <1>5, <1>8, <1>11, <1>12

LEMMA DeleteRuns ==
    ASSUME Types, NEW k \in Keys, OthersDelete(k)
    PROVE  QuietRuns
  <1>1. SUFFICES ASSUME NEW i \in Instances
                 PROVE  run'[i] \in GoodRuns /\ Quiet(i)
    BY DEF QuietRuns, OthersDelete
  <1>. DEFINE b == run[i].shifted \/ run[i].phase = "loading"
              s == [run[i] EXCEPT !.shifted = b]
  <1>2. run[i] \in Runs /\ run[i] \in GoodRuns /\ b \in BOOLEAN
    BY Zenon DEF Types, TypeOK
  <1>3. run'[i] = s
    BY DEF OthersDelete
  <1>. HIDE DEF b
  <1>4. s \in Runs
    BY <1>2, Zenon DEF Runs
  <1>5. /\ s.phase = run[i].phase /\ s.no = run[i].no /\ s.tries = run[i].tries
        /\ s.reply = run[i].reply /\ s.chunk = run[i].chunk /\ s.chosen = run[i].chosen
        /\ s.drafts = run[i].drafts
    BY <1>2, SMT DEF Runs
  <1>. HIDE DEF s
  <1>6. s \in GoodRuns
    BY <1>2, <1>4, <1>5, SMT DEF GoodRuns
  <1>. QED
    BY <1>3, <1>5, <1>6, SMT DEF Quiet

-----------------------------------------------------------------------------
(* Steps which keep requests and rows apart.                               *)

LEMMA BatchKeys ==
    ASSUME Types, NEW i \in Instances
    PROVE  Batch(i) \subseteq Keys
  <1>1. run[i] \in GoodRuns
    BY DEF Types
  <1>2. run[i].chunk \subseteq run[i].chosen /\ \A f \in run[i].chosen : run[i].drafts[f] \in Keys
    BY <1>1, SMT DEF GoodRuns
  <1>. QED
    BY <1>2, SMT DEF Batch

LEMMA RequestKeys ==
    ASSUME Types, NEW r \in wire
    PROVE  r.keys \subseteq Keys /\ r.by \in Instances /\ r \in Requests
  <1>1. r \in Requests
    BY DEF Types, TypeOK
  <1>. QED
    BY <1>1, SMT DEF Requests

\* Nothing departs and nothing lands, no row is given up, no batch begins to be sent.
LEMMA QuietSafe ==
    ASSUME Types, Safe, QuietRuns, UNCHANGED <<wire, landed>>,
           \A k \in Keys : ledger[k] # "none" => ledger'[k] # "none"
    PROVE  Safe'
  <1>1. \A j \in Instances : ~Sends(j)' \/ (Sends(j) /\ Batch(j)' = Batch(j) /\ (Unsent(j)' => Unsent(j)))
    BY SMT DEF QuietRuns, Quiet, Sends, Unsent, Batch
  <1>2. \A j \in Instances : Batch(j) \subseteq Keys
    BY BatchKeys
  <1>3. \A k : InFlight(k)' = InFlight(k)
    BY DEF InFlight
  <1>4. \A j \in Instances : Held(j)'
    BY <1>1, <1>2, SMT DEF Safe, Held
  <1>5. \A j \in Instances : Fresh(j)'
    <2>1. SUFFICES ASSUME NEW j \in Instances, Unsent(j)' PROVE \A k \in Batch(j)' : landed'[k] = 0 /\ ~InFlight(k)'
      BY DEF Fresh
    <2>2. Sends(j)'
      BY <2>1 DEF Unsent, Sends
    <2>3. Batch(j)' = Batch(j) /\ Unsent(j)
      BY <1>1, <2>1, <2>2
    <2>. QED
      BY <1>3, <2>3 DEF Safe, Fresh
  <1>6. \A i, j \in Instances : Apart(i, j)'
    BY <1>1, SMT DEF Safe, Apart
  <1>7. WireHeld'
    <2>1. \A r \in wire : r.keys \subseteq Keys
      BY RequestKeys
    <2>. QED
      BY <2>1 DEF Safe, WireHeld
  <1>8. WireApart'
    BY DEF Safe, WireApart
  <1>9. LandedHeld'
    BY DEF Safe, LandedHeld
  <1>. QED
    BY <1>4, <1>5, <1>6, <1>7, <1>8, <1>9 DEF Safe

LEMMA ReserveSafe ==
    ASSUME Types, Safe, NEW i \in Instances, Reserve(i)
    PROVE  Safe'
  <1>1. /\ run'[i].phase = "reserved" /\ run'[i].chunk = run[i].chunk
        /\ run'[i].drafts = run[i].drafts
        /\ \A j \in Instances : j # i => run'[j] = run[j]
    BY ReserveRuns
  <1>2. \A j \in Instances : Batch(j)' = Batch(j)
    BY <1>1 DEF Batch
  <1>3. \A j \in Instances : Batch(j) \subseteq Keys
    BY BatchKeys
  <1>4. UNCHANGED <<wire, landed>>
    BY DEF Reserve, serverVars, historyVars
  <1>5. \A k \in Keys : ledger'[k] = IF k \in Batch(i) THEN "uncertain" ELSE ledger[k]
    BY DEF Reserve
  <1>6. \A k \in Batch(i) : ledger[k] = "none"
    BY DEF Reserve, Batch
  <1>7. \A k \in Keys : ledger[k] # "none" => ledger'[k] # "none"
    BY <1>5, SMT
  <1>8. \A k \in Batch(i) : ledger'[k] # "none" /\ landed[k] = 0 /\ ~InFlight(k)
    <2>1. \A k \in Batch(i) : ledger'[k] # "none"
      BY <1>3, <1>5, SMT
    <2>2. \A k \in Batch(i) : landed[k] = 0
      BY <1>3, <1>6 DEF Safe, LandedHeld
    <2>3. \A k \in Batch(i) : ~InFlight(k)
      BY <1>6 DEF Safe, WireHeld, InFlight
    <2>. QED
      BY <2>1, <2>2, <2>3
  <1>9. \A j \in Instances : j # i => Sends(j)' = Sends(j) /\ Unsent(j)' = Unsent(j)
    BY <1>1 DEF Sends, Unsent
  <1>10. \A j \in Instances : Held(j)'
    BY <1>2, <1>3, <1>7, <1>8, <1>9 DEF Safe, Held
  <1>11. \A j \in Instances : Fresh(j)'
    BY <1>2, <1>4, <1>8, <1>9 DEF Safe, Fresh, InFlight
  <1>12. \A j \in Instances : j # i /\ Sends(j) => Batch(i) \cap Batch(j) = {}
    BY <1>6 DEF Safe, Held
  <1>13. \A g, j \in Instances : Apart(g, j)'
    BY <1>2, <1>9, <1>12 DEF Safe, Apart
  <1>14. WireHeld'
    <2>1. \A r \in wire : r.keys \subseteq Keys
      BY RequestKeys
    <2>. QED
      BY <1>4, <1>7, <2>1 DEF Safe, WireHeld
  <1>15. WireApart' /\ LandedHeld'
    BY <1>4, <1>7 DEF Safe, WireApart, LandedHeld
  <1>. QED
    BY <1>10, <1>11, <1>13, <1>14, <1>15 DEF Safe

LEMMA PostSafe ==
    ASSUME Types, Safe, NEW i \in Instances, Post(i)
    PROVE  Safe'
  <1>. DEFINE q == [by |-> i, no |-> run[i].no, from |-> run[i].chunk, keys |-> Batch(i)]
  <1>1. /\ run'[i].phase = "posted" /\ run'[i].reply = "none"
        /\ run'[i].chunk = run[i].chunk /\ run'[i].drafts = run[i].drafts
        /\ \A j \in Instances : j # i => run'[j] = run[j]
    BY PostRuns
  <1>2. \A j \in Instances : Batch(j)' = Batch(j)
    BY <1>1 DEF Batch
  <1>3. wire' = wire \cup {q} /\ q.keys = Batch(i)
    BY DEF Post
  <1>4. UNCHANGED <<ledger, landed>>
    BY DEF Post, journalVars, historyVars
  <1>5. Sends(i) /\ Unsent(i)
    BY DEF Post, Sends, Unsent
  <1>6. \A k \in Batch(i) : ledger[k] # "none" /\ landed[k] = 0 /\ ~InFlight(k)
    BY <1>5 DEF Safe, Held, Fresh
  <1>7. \A j \in Instances : Sends(j)' = Sends(j)
    BY <1>1, <1>5, SMT DEF Sends
  <1>8. \A j \in Instances : Unsent(j)' => j # i /\ Unsent(j)
    BY <1>1, SMT DEF Unsent
  <1>. HIDE DEF q
  <1>9. \A j \in Instances : Held(j)'
    BY <1>2, <1>4, <1>7 DEF Safe, Held
  <1>10. \A j \in Instances : Unsent(j)' => Sends(j)
    BY <1>8 DEF Unsent, Sends
  <1>11. \A j \in Instances : Fresh(j)'
    <2>1. SUFFICES ASSUME NEW j \in Instances, Unsent(j)', NEW k \in Batch(j)
                   PROVE  landed'[k] = 0 /\ ~InFlight(k)'
      BY <1>2 DEF Fresh
    <2>2. j # i /\ Unsent(j) /\ Sends(j)
      BY <1>8, <1>10, <2>1
    <2>3. landed[k] = 0 /\ ~InFlight(k)
      BY <2>2 DEF Safe, Fresh
    <2>4. k \notin Batch(i)
      BY <1>5, <2>2 DEF Safe, Apart
    <2>. QED
      BY <1>3, <1>4, <2>3, <2>4 DEF InFlight
  <1>12. \A g, j \in Instances : Apart(g, j)'
    BY <1>2, <1>7 DEF Safe, Apart
  <1>13. WireHeld' /\ LandedHeld'
    BY <1>3, <1>4, <1>6 DEF Safe, WireHeld, LandedHeld
  <1>14. WireApart'
    BY <1>3, <1>6 DEF Safe, WireApart, InFlight
  <1>. QED
    BY <1>9, <1>11, <1>12, <1>13, <1>14 DEF Safe

\* The rows of a batch which was neither stored nor is under way may be given up.
LEMMA ReleaseSafe ==
    ASSUME Types, Safe, NEW i \in Instances, Unsent(i), FinishMissing(i),
           run' \in [Instances -> GoodRuns], run'[i].phase = "reading",
           \A j \in Instances : j # i => run'[j] = run[j],
           UNCHANGED <<wire, landed>>
    PROVE  Safe'
  <1>1. \A j \in Instances : Batch(j) \subseteq Keys
    BY BatchKeys
  <1>2. \A k \in Keys : ledger[k] # "none" /\ k \notin Batch(i) => ledger'[k] # "none"
    BY DEF FinishMissing, FinishNotCreated, FinishUncertain, journalVars
  <1>3. ~Sends(i)' /\ ~Unsent(i)'
    BY DEF Sends, Unsent
  <1>4. \A j \in Instances : j # i => Sends(j)' = Sends(j) /\ Unsent(j)' = Unsent(j)
                                     /\ Batch(j)' = Batch(j)
    BY DEF Sends, Unsent, Batch
  <1>5. Sends(i)
    BY DEF Unsent, Sends
  <1>6. \A k \in Batch(i) : landed[k] = 0 /\ ~InFlight(k)
    BY DEF Safe, Fresh
  <1>7. \A j \in Instances : Held(j)'
    <2>1. SUFFICES ASSUME NEW j \in Instances, Sends(j)', NEW k \in Batch(j)'
                   PROVE  ledger'[k] # "none"
      BY DEF Held
    <2>2. j # i /\ Sends(j) /\ k \in Batch(j)
      BY <1>3, <1>4, <2>1
    <2>3. k \notin Batch(i) /\ ledger[k] # "none" /\ k \in Keys
      BY <1>1, <1>5, <2>2 DEF Safe, Apart, Held
    <2>. QED
      BY <1>2, <2>3
  <1>8. \A j \in Instances : Fresh(j)'
    BY <1>3, <1>4 DEF Safe, Fresh, InFlight
  <1>9. \A g, j \in Instances : Apart(g, j)'
    BY <1>3, <1>4 DEF Safe, Apart
  <1>10. WireHeld'
    <2>1. \A r \in wire : r.keys \subseteq Keys
      BY RequestKeys
    <2>. QED
      BY <1>2, <1>6, <2>1 DEF Safe, WireHeld, InFlight
  <1>11. LandedHeld'
    BY <1>2, <1>6 DEF Safe, LandedHeld
  <1>12. WireApart'
    BY DEF Safe, WireApart
  <1>. QED
    BY <1>7, <1>8, <1>9, <1>10, <1>11, <1>12 DEF Safe

LEMMA AgainSafe ==
    ASSUME Types, Safe, NEW i \in Instances, Unsent(i), run[i].phase = "posted",
           run[i].tries < MaxTries, Becomes(i, [run[i] EXCEPT !.phase = "reserved"]),
           UNCHANGED <<wire, landed, ledger>>
    PROVE  Safe'
  <1>1. /\ run'[i].phase = "reserved" /\ run'[i].chunk = run[i].chunk
        /\ run'[i].drafts = run[i].drafts
        /\ \A j \in Instances : j # i => run'[j] = run[j]
    BY AgainRuns
  <1>2. \A j \in Instances : Batch(j)' = Batch(j)
    BY <1>1 DEF Batch
  <1>3. \A j \in Instances : Sends(j)' = Sends(j)
    BY <1>1, SMT DEF Sends
  <1>4. \A j \in Instances : Unsent(j)' => Unsent(j)
    BY <1>1 DEF Unsent
  <1>. QED
    BY <1>2, <1>3, <1>4 DEF Safe, Held, Fresh, Apart, WireHeld, WireApart, LandedHeld, InFlight

\* A request was applied, or never will be.
LEMMA CommitSafe ==
    ASSUME Types, Safe, NEW r \in wire, Commit(r)
    PROVE  Safe'
  <1>1. {"created"} \in SUBSET Replies
    BY DEF Replies
  <1>2. Answer(r, {"created"})
    BY DEF Commit
  <1>3. \A j \in Instances :
          /\ run'[j].phase = run[j].phase /\ run'[j].chunk = run[j].chunk
          /\ run'[j].drafts = run[j].drafts
          /\ \/ run'[j].reply = run[j].reply
             \/ run'[j].reply \in {"created"} /\ Batch(j) = r.keys
    BY <1>1, <1>2, AnswerRuns
  <1>4. \A j \in Instances : Batch(j)' = Batch(j) /\ Sends(j)' = Sends(j)
    BY <1>3 DEF Batch, Sends
  <1>5. \A j \in Instances : Unsent(j)' => Unsent(j)
    BY <1>3, SMT DEF Unsent
  <1>6. wire' = wire \ {r} /\ ledger' = ledger
    BY DEF Commit, Answer, journalVars
  <1>7. \A k \in Keys : landed'[k] = IF k \in r.keys THEN landed[k] + 1 ELSE landed[k]
    BY DEF Commit
  <1>8. r.keys \subseteq Keys /\ \A k \in r.keys : ledger[k] # "none" /\ landed[k] = 0
    BY RequestKeys DEF Safe, WireHeld
  <1>9. \A j \in Instances : Batch(j) \subseteq Keys
    BY BatchKeys
  <1>10. \A j \in Instances : Held(j)'
    BY <1>4, <1>6 DEF Safe, Held
  <1>11. \A j \in Instances : Fresh(j)'
    <2>1. SUFFICES ASSUME NEW j \in Instances, Unsent(j)', NEW k \in Batch(j)
                   PROVE  landed'[k] = 0 /\ ~InFlight(k)'
      BY <1>4 DEF Fresh
    <2>2. landed[k] = 0 /\ ~InFlight(k) /\ k \in Keys
      BY <1>5, <1>9, <2>1 DEF Safe, Fresh
    <2>. QED
      BY <1>6, <1>7, <2>2 DEF InFlight
  <1>12. \A g, j \in Instances : Apart(g, j)'
    BY <1>4 DEF Safe, Apart
  <1>13. WireHeld'
    <2>1. SUFFICES ASSUME NEW s \in wire', NEW k \in s.keys
                   PROVE  ledger'[k] # "none" /\ landed'[k] = 0
      BY DEF WireHeld
    <2>2. s \in wire /\ s # r
      BY <1>6
    <2>3. k \notin r.keys
      BY <2>2 DEF Safe, WireApart
    <2>4. k \in Keys
      BY <2>2, RequestKeys
    <2>. QED
      BY <1>6, <1>7, <2>2, <2>3, <2>4 DEF Safe, WireHeld
  <1>14. WireApart'
    BY <1>6 DEF Safe, WireApart
  <1>15. LandedHeld'
    BY <1>6, <1>7, <1>8, SMT DEF Safe, LandedHeld
  <1>. QED
    BY <1>10, <1>11, <1>12, <1>13, <1>14, <1>15 DEF Safe

LEMMA RejectSafe ==
    ASSUME Types, Safe, NEW r \in wire, Reject(r)
    PROVE  Safe'
  <1>. DEFINE R == {"none", "blamed", "refused", "throttled"}
  <1>1. R \in SUBSET Replies
    BY DEF Replies
  <1>2. Answer(r, R)
    BY DEF Reject
  <1>3. \A j \in Instances :
          /\ run'[j].phase = run[j].phase /\ run'[j].chunk = run[j].chunk
          /\ run'[j].drafts = run[j].drafts
          /\ \/ run'[j].reply = run[j].reply
             \/ run'[j].reply \in R /\ Batch(j) = r.keys
    BY <1>1, <1>2, AnswerRuns
  <1>. HIDE DEF R
  <1>4. \A j \in Instances : Batch(j)' = Batch(j) /\ Sends(j)' = Sends(j)
    BY <1>3 DEF Batch, Sends
  <1>5. \A j \in Instances : Unsent(j)' => Unsent(j) \/ Batch(j) = r.keys
    BY <1>3, SMT DEF Unsent
  <1>6. wire' = wire \ {r} /\ UNCHANGED <<ledger, landed>>
    BY DEF Reject, Answer, journalVars, historyVars
  <1>7. \A k \in r.keys : landed[k] = 0 /\ ~InFlight(k)'
    BY <1>6 DEF Safe, WireHeld, WireApart, InFlight
  <1>8. \A j \in Instances : Held(j)'
    BY <1>4, <1>6 DEF Safe, Held
  <1>9. \A j \in Instances : Fresh(j)'
    BY <1>4, <1>5, <1>6, <1>7 DEF Safe, Fresh, InFlight
  <1>10. \A g, j \in Instances : Apart(g, j)'
    BY <1>4 DEF Safe, Apart
  <1>11. WireHeld' /\ WireApart' /\ LandedHeld'
    BY <1>6 DEF Safe, WireHeld, WireApart, LandedHeld
  <1>. QED
    BY <1>8, <1>9, <1>10, <1>11 DEF Safe

-----------------------------------------------------------------------------
(* The invariant.                                                          *)

\* TypeOK but for the runs.
RestOK ==
    /\ key \in [Sources -> Maybe]
    /\ mark \in [Instances -> {"", "unpushed", "review"}]
    /\ others \subseteq Keys
    /\ labels \in [Labelled -> Maybe]
    /\ alive \subseteq Keys
    /\ wire \subseteq Requests
    /\ ledger \in [Keys -> {"none", "uncertain", "confirmed"}]
    /\ refs \in [Sources -> Maybe]
    /\ runs \in 0..MaxRuns
    /\ edits \in 0..MaxEdits
    /\ foreign \in 0..MaxForeign
    /\ landed \in [Keys -> Nat]
    /\ made \in [Sources -> Nat]
    /\ known \subseteq Keys

LEMMA TypesFrom ==
    ASSUME RestOK', run' \in [Instances -> GoodRuns]
    PROVE  Types'
  <1>1. run' \in [Instances -> Runs]
    BY DEF GoodRuns
  <1>. QED
    BY <1>1 DEF Types, TypeOK, RestOK

LEMMA QuietInv ==
    ASSUME UploadInv, QuietRuns, RestOK', UNCHANGED <<wire, landed>>,
           \A k \in Keys : ledger[k] # "none" => ledger'[k] # "none"
    PROVE  UploadInv'
  BY QuietSafe, TypesFrom DEF UploadInv, QuietRuns

\* A step of the run alone.
LEMMA RunOnly ==
    ASSUME UploadInv, QuietRuns,
           UNCHANGED <<layerVars, serverVars, journalVars, countVars, historyVars>>
    PROVE  UploadInv'
  <1>1. RestOK
    BY DEF UploadInv, Types, TypeOK, RestOK
  <1>2. RestOK' /\ UNCHANGED <<wire, landed, ledger>>
    BY <1>1 DEF RestOK, layerVars, serverVars, journalVars, countVars, historyVars
  <1>. QED
    BY <1>2, QuietInv

LEMMA ReadingStep ==
    ASSUME UploadInv, NEW i \in Instances, Reading(i)
    PROVE  UploadInv'
  <1>1. Types /\ RestOK
    BY DEF UploadInv, Types, TypeOK, RestOK
  <1>2. ASSUME NEW k \in Keys, LoadPage(i, k) PROVE UploadInv'
    <2>1. QuietRuns
      BY <1>1, <1>2, PageRuns
    <2>. QED
      BY <1>2, <2>1, RunOnly DEF LoadPage
  <1>3. CASE LoadFails(i)
    <2>1. QuietRuns
      BY <1>1, <1>3, EndRuns
    <2>. QED
      BY <1>3, <2>1, RunOnly DEF LoadFails
  <1>4. ASSUME NEW f \in Sources, FeatureGone(i, f) PROVE UploadInv'
    <2>1. QuietRuns
      BY <1>1, <1>4, GoneRuns
    <2>. QED
      BY <1>4, <2>1, RunOnly DEF FeatureGone
  <1>5. ASSUME NEW f \in Sources, NEW k \in Keys,
               FeatureSkipped(i, f, k) \/ FeatureHeld(i, f, k) \/ FeatureTwin(i, f, k)
        PROVE  UploadInv'
    <2>1. "skipped" \in Fates /\ "held" \in Fates /\ "present" \in Fates
      BY DEF Fates
    <2>2. QuietRuns
      BY <1>1, <1>5, <2>1, ReadRuns DEF FeatureSkipped, FeatureHeld, FeatureTwin
    <2>. QED
      BY <1>5, <2>2, RunOnly DEF FeatureSkipped, FeatureHeld, FeatureTwin
  <1>6. ASSUME NEW f \in Sources, NEW k \in Keys, FeatureTaken(i, f, k) PROVE UploadInv'
    <2>1. QuietRuns
      BY <1>1, <1>6, TakenRuns
    <2>. QED
      BY <1>6, <2>1, RunOnly DEF FeatureTaken
  <1>7. ASSUME NEW f \in Sources, NEW k \in Keys, FeaturePresent(i, f, k) PROVE UploadInv'
    <2>1. "present" \in Fates
      BY DEF Fates
    <2>2. QuietRuns
      BY <1>1, <1>7, <2>1, ReadRuns DEF FeaturePresent
    <2>3. /\ ledger' = [ledger EXCEPT ![k] = "confirmed"]
          /\ refs' = [refs EXCEPT ![f] = k] /\ known' = known \cup {k}
          /\ UNCHANGED <<layerVars, serverVars, countVars, landed, made>>
      BY <1>7 DEF FeaturePresent, Observe
    <2>4. ledger' \in [Keys -> {"none", "uncertain", "confirmed"}]
      BY <1>1, <2>3 DEF RestOK
    <2>5. refs' \in [Sources -> Maybe]
      BY <1>1, <2>3 DEF RestOK, Maybe
    <2>6. known' \subseteq Keys
      BY <1>1, <2>3 DEF RestOK
    <2>7. RestOK'
      BY <1>1, <2>3, <2>4, <2>5, <2>6 DEF RestOK, layerVars, serverVars, countVars
    <2>8. \A h \in Keys : ledger[h] # "none" => ledger'[h] # "none"
      BY <1>1, <2>3 DEF RestOK
    <2>9. UNCHANGED <<wire, landed>>
      BY <2>3 DEF serverVars
    <2>. QED
      BY <2>2, <2>7, <2>8, <2>9, QuietInv
  <1>. QED
    BY <1>2, <1>3, <1>4, <1>5, <1>6, <1>7 DEF Reading

\* Giving up the rows of a batch, or not, keeps the journal's types.
LEMMA FinishTypes ==
    ASSUME RestOK, NEW i \in Instances,
           FinishMissing(i) \/ FinishConfirmed(i) \/ FinishUncertain
    PROVE  /\ ledger' \in [Keys -> {"none", "uncertain", "confirmed"}]
           /\ refs' \in [Sources -> Maybe]
  <1>. DEFINE L == {"none", "uncertain", "confirmed"}
  <1>1. ledger \in [Keys -> L] /\ refs \in [Sources -> Maybe] /\ NoKey \in Maybe
    BY DEF RestOK, Maybe
  <1>2. CASE FinishNotCreated(i)
    <2>1. ledger' = [k \in Keys |-> IF k \in Batch(i) THEN "none" ELSE ledger[k]]
      BY <1>2 DEF FinishNotCreated
    <2>2. refs' = [f \in Sources |-> IF refs[f] \in Batch(i) THEN NoKey ELSE refs[f]]
      BY <1>2 DEF FinishNotCreated
    <2>. QED
      BY <1>1, <2>1, <2>2
  <1>3. CASE FinishConfirmed(i)
    <2>1. ledger' = [k \in Keys |-> IF k \in Batch(i) /\ ledger[k] # "none" THEN "confirmed"
                                    ELSE ledger[k]]
      BY <1>3 DEF FinishConfirmed
    <2>2. refs' = refs
      BY <1>3 DEF FinishConfirmed
    <2>. QED
      BY <1>1, <2>1, <2>2
  <1>4. CASE FinishUncertain
    BY <1>1, <1>4 DEF FinishUncertain, journalVars
  <1>. QED
    BY <1>2, <1>3, <1>4 DEF FinishMissing

LEMMA CountQuiet ==
    ASSUME Types, NEW i \in Instances, NEW fates \in [Sources -> Fates], Count(i, fates),
           run[i].phase # "idle"
    PROVE  /\ QuietRuns /\ run'[i].phase = "reading"
           /\ \A j \in Instances : j # i => run'[j] = run[j]
  <1>1. run' \in [Instances -> GoodRuns] /\ run'[i].phase = "reading"
    BY CountIsGood
  <1>2. \A j \in Instances : j # i => run'[j] = run[j]
    BY BecomesFacts DEF Types, TypeOK, Count
  <1>. QED
    BY <1>1, <1>2 DEF QuietRuns, Quiet, Sends

LEMMA AllTypes ==
    ASSUME NEW fate \in Fates
    PROVE  All(fate) \in [Sources -> Fates]
  BY DEF All

\* A batch which is turned down is answered for, and its rows may be given up.
LEMMA ReleaseInv ==
    ASSUME UploadInv, NEW i \in Instances, NEW fates \in [Sources -> Fates], Unsent(i),
           FinishMissing(i), Count(i, fates),
           UNCHANGED <<layerVars, serverVars, countVars, historyVars>>
    PROVE  UploadInv'
  <1>1. Types /\ Safe /\ RestOK
    BY DEF UploadInv, Types, TypeOK, RestOK
  <1>2. run[i].phase # "idle"
    BY DEF Unsent
  <1>3. /\ QuietRuns /\ run'[i].phase = "reading"
        /\ \A j \in Instances : j # i => run'[j] = run[j]
    BY <1>1, <1>2, CountQuiet
  <1>4. RestOK'
    BY <1>1, FinishTypes DEF RestOK, layerVars, serverVars, countVars, historyVars
  <1>5. UNCHANGED <<wire, landed>>
    BY DEF serverVars, historyVars
  <1>6. Safe'
    BY <1>1, <1>3, <1>5, ReleaseSafe DEF QuietRuns
  <1>. QED
    BY <1>3, <1>4, <1>6, TypesFrom DEF UploadInv, QuietRuns

LEMMA SendingStep ==
    ASSUME UploadInv, NEW i \in Instances, Sending(i)
    PROVE  UploadInv'
  <1>1. Types /\ Safe /\ RestOK
    BY DEF UploadInv, Types, TypeOK, RestOK
  <1>2. \A f \in Fates : All(f) \in [Sources -> Fates]
    BY AllTypes
  <1>3. CASE Raises(i)
    <2>1. QuietRuns
      BY <1>1, <1>3, CloseRuns
    <2>. QED
      BY <1>3, <2>1, RunOnly DEF Raises
  <1>4. CASE DropBatch(i)
    <2>1. All("notSent") \in [Sources -> Fates]
      BY <1>2 DEF Fates
    <2>2. QuietRuns
      BY <1>1, <1>4, <2>1, CountQuiet DEF DropBatch, Due
    <2>. QED
      BY <1>4, <2>2, RunOnly DEF DropBatch
  <1>5. CASE Reserve(i)
    <2>1. run' \in [Instances -> GoodRuns]
      BY <1>1, <1>5, ReserveRuns
    <2>2. Safe'
      BY <1>1, <1>5, ReserveSafe
    <2>3. ledger' = [k \in Keys |-> IF k \in Batch(i) THEN "uncertain" ELSE ledger[k]]
      BY <1>5 DEF Reserve
    <2>4. refs' = [f \in Sources |-> IF f \in run[i].chunk THEN run[i].drafts[f] ELSE refs[f]]
      BY <1>5 DEF Reserve
    <2>5. \A f \in run[i].chunk : run[i].drafts[f] \in Keys
      BY <1>1, BatchKeys DEF Batch
    <2>6. ledger' \in [Keys -> {"none", "uncertain", "confirmed"}]
      BY <1>1, <2>3 DEF RestOK
    <2>7. refs' \in [Sources -> Maybe]
      BY <1>1, <2>4, <2>5 DEF RestOK, Maybe
    <2>8. RestOK'
      BY <1>1, <1>5, <2>6, <2>7
         DEF Reserve, RestOK, layerVars, serverVars, countVars, historyVars
    <2>. QED
      BY <2>1, <2>2, <2>8, TypesFrom DEF UploadInv
  <1>6. CASE Post(i)
    <2>1. run' \in [Instances -> GoodRuns]
      BY <1>1, <1>6, PostRuns
    <2>2. Safe'
      BY <1>1, <1>6, PostSafe
    <2>. DEFINE q == [by |-> i, no |-> run[i].no, from |-> run[i].chunk, keys |-> Batch(i)]
    <2>3. q \in Requests
      <3>1. run[i] \in Runs /\ run[i] \in GoodRuns /\ run[i].phase = "reserved"
        BY <1>1, <1>6 DEF Types, TypeOK, Post
      <3>2. run[i].no \in 0..MaxRuns /\ run[i].chunk \in SUBSET Sources
        BY <3>1, Zenon DEF Runs
      <3>3. run[i].no # 0
        BY <3>1, SMT DEF GoodRuns
      <3>4. run[i].no \in 1..MaxRuns
        <4>1. MaxRuns \in Nat
          BY UploadAssumption DEF UploadAssumption
        <4>. QED
          BY <3>2, <3>3, <4>1, SMT
      <3>5. Batch(i) \in SUBSET Keys
        BY <1>1, BatchKeys
      <3>. QED
        BY <3>2, <3>4, <3>5, Zenon DEF Requests
    <2>4. wire' = wire \cup {q}
      BY <1>6 DEF Post
    <2>. HIDE DEF q
    <2>5. wire' \subseteq Requests
      BY <1>1, <2>3, <2>4 DEF RestOK
    <2>6. RestOK'
      BY <1>1, <1>6, <2>5 DEF Post, RestOK, layerVars, journalVars, countVars, historyVars
    <2>. QED
      BY <2>1, <2>2, <2>6, TypesFrom DEF UploadInv
  <1>7. CASE NeverSent(i)
    <2>1. All("notSent") \in [Sources -> Fates]
      BY <1>2 DEF Fates
    <2>. QED
      BY <1>7, <2>1, ReleaseInv DEF NeverSent, Unsent
  <1>8. CASE ReceiveCreated(i)
    <2>1. All("published") \in [Sources -> Fates]
      BY <1>2 DEF Fates
    <2>2. QuietRuns
      BY <1>1, <1>8, <2>1, CountQuiet DEF ReceiveCreated
    <2>3. known' \subseteq Keys
      BY <1>1, <1>8, BatchKeys DEF ReceiveCreated, RestOK
    <2>4. FinishConfirmed(i) /\ UNCHANGED <<layerVars, serverVars, countVars, landed, made>>
      BY <1>8 DEF ReceiveCreated
    <2>5. RestOK'
      BY <1>1, <2>3, <2>4, FinishTypes DEF RestOK, layerVars, serverVars, countVars
    <2>6. \A k \in Keys : ledger[k] # "none" => ledger'[k] # "none"
      BY <1>1, <2>4 DEF FinishConfirmed
    <2>7. UNCHANGED <<wire, landed>>
      BY <2>4 DEF serverVars
    <2>. QED
      BY <2>2, <2>5, <2>6, <2>7, QuietInv
  <1>9. CASE ReceiveRefusal(i)
    <2>1. Unsent(i) /\ FinishMissing(i)
          /\ UNCHANGED <<layerVars, serverVars, countVars, historyVars>>
      BY <1>9 DEF ReceiveRefusal, Unsent
    <2>2. PICK fates \in [Sources -> Fates] : Count(i, fates)
      <3>1. All("notCreated") \in [Sources -> Fates]
        BY <1>2 DEF Fates
      <3>2. \A f : [All("notCreated") EXCEPT ![f] = "failed"] \in [Sources -> Fates]
        BY <3>1 DEF Fates
      <3>. QED
        BY <1>9, <3>1, <3>2 DEF ReceiveRefusal
    <2>. QED
      BY <2>1, <2>2, ReleaseInv
  <1>10. CASE ReceiveThrottle(i)
    <2>1. Unsent(i) /\ run[i].phase = "posted"
          /\ UNCHANGED <<layerVars, serverVars, countVars, historyVars>>
      BY <1>10 DEF ReceiveThrottle, Unsent
    <2>2. CASE /\ run[i].tries < MaxTries
               /\ Becomes(i, [run[i] EXCEPT !.phase = "reserved"])
               /\ UNCHANGED journalVars
      <3>1. run' \in [Instances -> GoodRuns]
        BY <1>1, <2>1, <2>2, AgainRuns
      <3>2. UNCHANGED <<wire, landed, ledger>>
        BY <2>1, <2>2 DEF serverVars, historyVars, journalVars
      <3>3. Safe'
        BY <1>1, <2>1, <2>2, <3>2, AgainSafe
      <3>4. RestOK'
        BY <1>1, <2>1, <2>2 DEF RestOK, layerVars, serverVars, journalVars, countVars, historyVars
      <3>. QED
        BY <3>1, <3>3, <3>4, TypesFrom DEF UploadInv
    <2>3. CASE FinishMissing(i) /\ Count(i, All(IF Bulk THEN "notCreated" ELSE "failed"))
      <3>1. All(IF Bulk THEN "notCreated" ELSE "failed") \in [Sources -> Fates]
        BY <1>2 DEF Fates
      <3>. QED
        BY <2>1, <2>3, <3>1, ReleaseInv
    <2>. QED
      BY <1>10, <2>2, <2>3 DEF ReceiveThrottle
  <1>11. CASE ReceiveNothing(i)
    <2>. DEFINE fate == CASE Bulk -> "unverified"
                          [] ~Bulk /\ run[i].stopped -> "notSent"
                          [] ~Bulk /\ ~run[i].stopped -> "failed"
    <2>1. fate \in Fates
      BY UploadAssumption DEF UploadAssumption, Fates
    <2>2. Count(i, All(fate)) /\ run[i].phase # "idle"
      BY <1>11 DEF ReceiveNothing
    <2>. HIDE DEF fate
    <2>3. QuietRuns
      BY <1>1, <1>2, <2>1, <2>2, CountQuiet
    <2>. QED
      BY <1>11, <2>3, RunOnly DEF ReceiveNothing, FinishUncertain
  <1>. QED
    BY <1>3, <1>4, <1>5, <1>6, <1>7, <1>8, <1>9, <1>10, <1>11 DEF Sending

LEMMA WorkerStep ==
    ASSUME UploadInv, NEW i \in Instances, Worker(i)
    PROVE  UploadInv'
  <1>1. Types /\ RestOK
    BY DEF UploadInv, Types, TypeOK, RestOK
  <1>2. CASE EndLayer(i)
    <2>1. QuietRuns
      BY <1>1, <1>2, CloseRuns
    <2>. QED
      BY <1>2, <2>1, RunOnly DEF EndLayer
  <1>3. CASE Finish(i)
    <2>1. QuietRuns
      BY <1>1, <1>3, EndRuns
    <2>. DEFINE m == IF run[i].active THEN MarkAfter(i) ELSE mark[i]
    <2>2. m \in {"", "unpushed", "review"}
      BY <1>1 DEF RestOK, MarkAfter
    <2>3. mark' = [mark EXCEPT ![i] = m]
      BY <1>3 DEF Finish
    <2>. HIDE DEF m
    <2>4. mark' \in [Instances -> {"", "unpushed", "review"}]
      BY <1>1, <2>2, <2>3 DEF RestOK
    <2>5. UNCHANGED <<key, serverVars, journalVars, countVars, historyVars>>
      BY <1>3 DEF Finish
    <2>6. RestOK' /\ UNCHANGED <<wire, landed, ledger>>
      BY <1>1, <2>4, <2>5 DEF RestOK, serverVars, journalVars, countVars, historyVars
    <2>. QED
      BY <2>1, <2>6, QuietInv
  <1>. QED
    BY <1>2, <1>3, ReadingStep, SendingStep DEF Worker

LEMMA PersonStep ==
    ASSUME UploadInv, NEW i \in Instances, Person(i)
    PROVE  UploadInv'
  <1>1. Types /\ RestOK
    BY DEF UploadInv, Types, TypeOK, RestOK
  <1>2. ASSUME NEW f \in Sources, Edit(i, f) PROVE UploadInv'
    <2>1. QuietRuns
      BY <1>1, <1>2, EditRuns
    <2>2. PICK k \in Maybe : key' = [key EXCEPT ![f] = k]
      BY <1>2 DEF Edit
    <2>3. key' \in [Sources -> Maybe]
      BY <1>1, <2>2 DEF RestOK
    <2>4. mark' \in [Instances -> {"", "unpushed", "review"}]
      BY <1>1, <1>2 DEF RestOK, Edit
    <2>5. edits' \in 0..MaxEdits
      <3>1. edits \in 0..MaxEdits /\ edits < MaxEdits /\ edits' = edits + 1
        BY <1>1, <1>2 DEF RestOK, Edit
      <3>2. MaxEdits \in Nat
        BY UploadAssumption DEF UploadAssumption
      <3>. QED
        BY <3>1, <3>2, SMT
    <2>6. UNCHANGED <<serverVars, journalVars, runs, foreign, historyVars>>
      BY <1>2 DEF Edit
    <2>7. RestOK' /\ UNCHANGED <<wire, landed, ledger>>
      BY <1>1, <2>3, <2>4, <2>5, <2>6 DEF RestOK, serverVars, journalVars, historyVars
    <2>. QED
      BY <2>1, <2>7, QuietInv
  <1>3. ASSUME NEW auto \in BOOLEAN, Start(i, auto) PROVE UploadInv'
    <2>1. QuietRuns
      BY <1>1, <1>3, StartRuns
    <2>2. runs' \in 0..MaxRuns
      <3>1. runs \in 0..MaxRuns /\ runs < MaxRuns /\ runs' = runs + 1
        BY <1>1, <1>3 DEF RestOK, Start
      <3>2. MaxRuns \in Nat
        BY UploadAssumption DEF UploadAssumption
      <3>. QED
        BY <3>1, <3>2, SMT
    <2>3. UNCHANGED <<layerVars, serverVars, journalVars, edits, foreign, historyVars>>
      BY <1>3 DEF Start
    <2>4. RestOK' /\ UNCHANGED <<wire, landed, ledger>>
      BY <1>1, <2>2, <2>3 DEF RestOK, layerVars, serverVars, journalVars, historyVars
    <2>. QED
      BY <2>1, <2>4, QuietInv
  <1>4. CASE Cancel(i) \/ ChangeConnection(i)
    <2>1. QuietRuns
      BY <1>1, <1>4, StopRuns
    <2>. QED
      BY <1>4, <2>1, RunOnly DEF Cancel, ChangeConnection
  <1>5. CASE Crash(i)
    <2>1. QuietRuns
      BY <1>1, <1>5, EndRuns
    <2>. QED
      BY <1>5, <2>1, RunOnly DEF Crash
  <1>. QED
    BY <1>2, <1>3, <1>4, <1>5 DEF Person

LEMMA WorldStep ==
    ASSUME UploadInv, World
    PROVE  UploadInv'
  <1>1. Types /\ Safe /\ RestOK
    BY DEF UploadInv, Types, TypeOK, RestOK
  <1>2. ASSUME NEW r \in wire, Commit(r) PROVE UploadInv'
    <2>1. run' \in [Instances -> GoodRuns]
      <3>1. {"created"} \in SUBSET Replies
        BY DEF Replies
      <3>. QED
        BY <1>1, <1>2, <3>1, AnswerRuns DEF Commit
    <2>2. Safe'
      BY <1>1, <1>2, CommitSafe
    <2>3. landed' \in [Keys -> Nat]
      <3>1. landed \in [Keys -> Nat]
        BY <1>1 DEF RestOK
      <3>2. landed' = [k \in Keys |-> IF k \in r.keys THEN landed[k] + 1 ELSE landed[k]]
        BY <1>2 DEF Commit
      <3>. QED
        BY <3>1, <3>2, SMT
    <2>4. made' \in [Sources -> Nat]
      <3>1. made \in [Sources -> Nat]
        BY <1>1 DEF RestOK
      <3>2. made' = [f \in Sources |-> IF f \in r.from THEN made[f] + 1 ELSE made[f]]
        BY <1>2 DEF Commit
      <3>. QED
        BY <3>1, <3>2, SMT
    <2>5. alive' \subseteq Keys /\ wire' \subseteq Requests
      BY <1>1, <1>2, RequestKeys DEF RestOK, Commit, Answer
    <2>6. UNCHANGED <<layerVars, others, labels, journalVars, countVars, known>>
      BY <1>2 DEF Commit
    <2>7. RestOK'
      BY <1>1, <2>3, <2>4, <2>5, <2>6 DEF RestOK, layerVars, journalVars, countVars
    <2>. QED
      BY <2>1, <2>2, <2>7, TypesFrom DEF UploadInv
  <1>3. ASSUME NEW r \in wire, Reject(r) PROVE UploadInv'
    <2>1. run' \in [Instances -> GoodRuns]
      <3>1. {"none", "blamed", "refused", "throttled"} \in SUBSET Replies
        BY DEF Replies
      <3>. QED
        BY <1>1, <1>3, <3>1, AnswerRuns DEF Reject
    <2>2. Safe'
      BY <1>1, <1>3, RejectSafe
    <2>3. wire' \subseteq Requests
      BY <1>1, <1>3 DEF RestOK, Reject, Answer
    <2>4. UNCHANGED <<layerVars, others, labels, alive, journalVars, countVars, historyVars>>
      BY <1>3 DEF Reject
    <2>5. RestOK'
      BY <1>1, <2>3, <2>4 DEF RestOK, layerVars, journalVars, countVars, historyVars
    <2>. QED
      BY <2>1, <2>2, <2>5, TypesFrom DEF UploadInv
  <1>4. ASSUME Foreign PROVE foreign' \in 0..MaxForeign
    <2>1. foreign \in 0..MaxForeign /\ foreign < MaxForeign /\ foreign' = foreign + 1
      BY <1>1, <1>4 DEF RestOK, Foreign
    <2>2. MaxForeign \in Nat
      BY UploadAssumption DEF UploadAssumption
    <2>. QED
      BY <2>1, <2>2, SMT
  <1>5. ASSUME NEW k \in Keys, OthersCreate(k) PROVE UploadInv'
    <2>1. QuietRuns
      BY <1>1, <1>5 DEF OthersCreate, QuietRuns, Quiet, Types
    <2>2. RestOK' /\ UNCHANGED <<wire, landed, ledger>>
      BY <1>1, <1>4, <1>5
         DEF OthersCreate, Foreign, RestOK, layerVars, journalVars, historyVars
    <2>. QED
      BY <2>1, <2>2, QuietInv
  <1>6. ASSUME NEW k \in Keys, OthersDelete(k) PROVE UploadInv'
    <2>1. QuietRuns
      BY <1>1, <1>6, DeleteRuns
    <2>2. labels' \in [Labelled -> Maybe]
      BY <1>1, <1>6 DEF OthersDelete, RestOK, Maybe
    <2>3. RestOK' /\ UNCHANGED <<wire, landed, ledger>>
      BY <1>1, <1>4, <1>6, <2>2
         DEF OthersDelete, Foreign, RestOK, layerVars, journalVars, historyVars
    <2>. QED
      BY <2>1, <2>3, QuietInv
  <1>7. ASSUME NEW f \in Labelled, NEW k \in Keys, OthersChange(f, k) PROVE UploadInv'
    <2>1. QuietRuns
      BY <1>1, <1>7 DEF OthersChange, QuietRuns, Quiet, Types
    <2>2. labels' \in [Labelled -> Maybe]
      BY <1>1, <1>7 DEF OthersChange, RestOK, Maybe
    <2>3. RestOK' /\ UNCHANGED <<wire, landed, ledger>>
      BY <1>1, <1>4, <1>7, <2>2
         DEF OthersChange, Foreign, RestOK, layerVars, journalVars, historyVars
    <2>. QED
      BY <2>1, <2>3, QuietInv
  <1>. QED
    BY <1>2, <1>3, <1>5, <1>6, <1>7 DEF World

LEMMA UploadInit ==
    ASSUME Init
    PROVE  UploadInv
  <1>1. NoRun \in GoodRuns /\ NoRun.phase = "idle"
    BY NoRunIsGood, Zenon DEF NoRun
  <1>2. run \in [Instances -> GoodRuns] /\ \A i \in Instances : run[i].phase = "idle"
    BY <1>1 DEF Init
  <1>3. \A i \in Instances : ~Sends(i) /\ ~Unsent(i)
    BY <1>2 DEF Sends, Unsent
  <1>4. /\ key \in [Sources -> Maybe] /\ labels \in [Labelled -> Maybe]
        /\ refs \in [Sources -> Maybe]
    BY UploadAssumption DEF Init, UploadAssumption, Maybe
  <1>5. /\ ledger \in [Keys -> {"none", "uncertain", "confirmed"}]
        /\ mark \in [Instances -> {"", "unpushed", "review"}]
        /\ landed \in [Keys -> Nat] /\ made \in [Sources -> Nat]
    BY DEF Init
  <1>6. runs \in 0..MaxRuns /\ edits \in 0..MaxEdits /\ foreign \in 0..MaxForeign
    BY UploadAssumption, SMT DEF Init, UploadAssumption
  <1>7. run \in [Instances -> Runs]
    BY <1>2 DEF GoodRuns
  <1>8. Types
    BY <1>2, <1>4, <1>5, <1>6, <1>7 DEF Types, TypeOK, Init
  <1>9. WireHeld /\ WireApart /\ LandedHeld
    BY DEF Init, WireHeld, WireApart, LandedHeld
  <1>. QED
    BY <1>3, <1>8, <1>9 DEF UploadInv, Safe, Held, Fresh, Apart

LEMMA UploadStep ==
    ASSUME UploadInv, [Next]_vars
    PROVE  UploadInv'
  <1>1. CASE Next
    BY <1>1, WorkerStep, PersonStep, WorldStep DEF Next
  <1>2. CASE UNCHANGED vars
    <2>1. UNCHANGED <<layerVars, serverVars, journalVars, countVars, historyVars>> /\ run' = run
      BY <1>2 DEF vars
    <2>2. QuietRuns
      BY <2>1 DEF QuietRuns, Quiet, UploadInv, Types
    <2>. QED
      BY <2>1, <2>2, RunOnly
  <1>. QED
    BY <1>1, <1>2

\* The invariant is kept by every step: of the worker, of the person, of the world.
THEOREM UploadIsSound == Spec => []UploadInv
  <1>1. UploadInv /\ [Next]_vars => UploadInv'
    BY UploadStep
  <1>. QED
    BY <1>1, UploadInit, PTL DEF Spec

\* Every variable keeps its type, whatever the number of instances and features.
THEOREM UploadTypes == Spec => []TypeOK
  BY UploadIsSound, PTL DEF UploadInv, Types

\* No key is created twice by uploads: the retries, the lost answers, the crashes and
\* the instances sharing one journal included.
THEOREM UploadedOnce == Spec => []AtMostOnce
  <1>1. UploadInv => AtMostOnce
    <2>1. SUFFICES ASSUME UploadInv, NEW k \in Keys PROVE landed[k] <= 1
      BY DEF AtMostOnce
    <2>2. landed[k] \in Nat
      BY <2>1 DEF UploadInv, Types, TypeOK
    <2>3. landed[k] = 0 \/ landed[k] = 1
      BY <2>1 DEF UploadInv, Safe, LandedHeld
    <2>. QED
      BY <2>2, <2>3, SMT
  <1>. QED
    BY <1>1, UploadIsSound, PTL

-----------------------------------------------------------------------------
(* Refinement: each step enters keys in the journal, sends, lands, loses or *)
(* releases them, or is none of this.                                      *)

HeldKeys == {k \in Keys : ledger[k] # "none"}
FlyingKeys == UNION {r.keys : r \in wire}

LEMMA OnceState ==
    ASSUME UploadInv
    PROVE  /\ \A i \in Instances : Batch(i) \subseteq Keys
           /\ FlyingKeys \subseteq Keys
           /\ \A k : k \in FlyingKeys <=> InFlight(k)
  <1>1. Types
    BY DEF UploadInv
  <1>2. \A i \in Instances : Batch(i) \subseteq Keys
    BY <1>1, BatchKeys
  <1>3. \A r \in wire : r.keys \subseteq Keys
    BY <1>1, RequestKeys
  <1>4. \A k : k \in FlyingKeys <=> InFlight(k)
    BY DEF FlyingKeys, InFlight
  <1>5. FlyingKeys \subseteq Keys
    BY <1>3, <1>4 DEF InFlight
  <1>. QED
    BY <1>2, <1>4, <1>5

\* A step which neither touches the wire nor counts anything as landed.
LEMMA JournalOnly ==
    ASSUME UNCHANGED <<wire, landed>>,
           \/ HeldKeys' = HeldKeys
           \/ \E S \in SUBSET Keys : S \cap HeldKeys = {} /\ HeldKeys' = HeldKeys \cup S
           \/ \E S \in SUBSET Keys : /\ S \subseteq HeldKeys \ (FlyingKeys \cup Once!Landed)
                                     /\ HeldKeys' = HeldKeys \ S
    PROVE  Once!OnceNext \/ UNCHANGED Once!onceVars
  <1>1. FlyingKeys' = FlyingKeys
    BY DEF FlyingKeys
  <1>2. CASE HeldKeys' = HeldKeys
    BY <1>1, <1>2 DEF Once!onceVars, HeldKeys, FlyingKeys
  <1>3. ASSUME NEW S \in SUBSET Keys, S \cap HeldKeys = {}, HeldKeys' = HeldKeys \cup S
        PROVE  Once!OnceNext
    <2>1. Once!Enter(S)
      BY <1>1, <1>3 DEF Once!Enter, HeldKeys, FlyingKeys
    <2>. QED
      BY <2>1 DEF Once!OnceNext
  <1>4. ASSUME NEW S \in SUBSET Keys, S \subseteq HeldKeys \ (FlyingKeys \cup Once!Landed),
               HeldKeys' = HeldKeys \ S
        PROVE  Once!OnceNext
    <2>1. Once!Release(S)
      BY <1>1, <1>4 DEF Once!Release, HeldKeys, FlyingKeys
    <2>. QED
      BY <2>1 DEF Once!OnceNext
  <1>. QED
    BY <1>2, <1>3, <1>4

LEMMA ReleaseOnce ==
    ASSUME UploadInv, NEW i \in Instances, Unsent(i), FinishMissing(i),
           UNCHANGED <<wire, landed>>
    PROVE  Once!OnceNext \/ UNCHANGED Once!onceVars
  <1>. DEFINE S == Batch(i)
  <1>1. S \in SUBSET Keys
    BY OnceState
  <1>2. Sends(i)
    BY DEF Unsent, Sends
  <1>3. \A k \in S : ledger[k] # "none" /\ landed[k] = 0 /\ ~InFlight(k)
    BY <1>2 DEF UploadInv, Safe, Held, Fresh
  <1>4. S \subseteq HeldKeys \ (FlyingKeys \cup Once!Landed)
    <2>1. S \subseteq HeldKeys
      BY <1>1, <1>3 DEF HeldKeys
    <2>2. \A k \in S : k \notin FlyingKeys
      BY <1>3, OnceState
    <2>3. \A k \in S : k \notin Once!Landed
      BY <1>3, SMT DEF Once!Landed
    <2>. QED
      BY <2>1, <2>2, <2>3
  <1>5. CASE Bulk
    <2>1. ledger' = [k \in Keys |-> IF k \in Batch(i) THEN "none" ELSE ledger[k]]
      BY <1>5 DEF FinishMissing, FinishNotCreated
    <2>2. HeldKeys' = HeldKeys \ S
      BY <2>1 DEF HeldKeys
    <2>. QED
      BY <1>1, <1>4, <2>2, JournalOnly
  <1>6. CASE ~Bulk
    <2>1. HeldKeys' = HeldKeys
      BY <1>6 DEF FinishMissing, FinishUncertain, journalVars, HeldKeys
    <2>. QED
      BY <2>1, JournalOnly
  <1>. QED
    BY <1>5, <1>6

LEMMA SendingOnce ==
    ASSUME UploadInv, NEW i \in Instances, Sending(i)
    PROVE  Once!OnceNext \/ UNCHANGED Once!onceVars
  <1>1. CASE Raises(i) \/ DropBatch(i) \/ ReceiveNothing(i)
    <2>1. UNCHANGED <<wire, landed, ledger>>
      BY <1>1 DEF Raises, DropBatch, ReceiveNothing, FinishUncertain,
                  serverVars, journalVars, historyVars
    <2>. QED
      BY <2>1, JournalOnly DEF HeldKeys
  <1>2. CASE Reserve(i)
    <2>1. UNCHANGED <<wire, landed>> /\ Batch(i) \in SUBSET Keys
      BY <1>2, OnceState DEF Reserve, serverVars, historyVars
    <2>2. ledger' = [k \in Keys |-> IF k \in Batch(i) THEN "uncertain" ELSE ledger[k]]
      BY <1>2 DEF Reserve
    <2>3. \A k \in Batch(i) : ledger[k] = "none"
      BY <1>2 DEF Reserve, Batch
    <2>4. Batch(i) \cap HeldKeys = {} /\ HeldKeys' = HeldKeys \cup Batch(i)
      BY <2>1, <2>2, <2>3 DEF HeldKeys
    <2>. QED
      BY <2>1, <2>4, JournalOnly
  <1>3. CASE Post(i)
    <2>. DEFINE q == [by |-> i, no |-> run[i].no, from |-> run[i].chunk, keys |-> Batch(i)]
    <2>0. PICK S \in SUBSET Keys : S = Batch(i)
      BY OnceState
    <2>1. wire' = wire \cup {q} /\ q.keys = S /\ UNCHANGED <<ledger, landed>>
      BY <1>3, <2>0 DEF Post, journalVars, historyVars
    <2>2. Sends(i) /\ Unsent(i)
      BY <1>3 DEF Post, Sends, Unsent
    <2>3. \A k \in S : ledger[k] # "none" /\ landed[k] = 0 /\ ~InFlight(k)
      BY <2>0, <2>2 DEF UploadInv, Safe, Held, Fresh
    <2>4. S \subseteq HeldKeys \ (FlyingKeys \cup Once!Landed)
      <3>1. S \subseteq HeldKeys
        BY <2>3 DEF HeldKeys
      <3>2. \A k \in S : k \notin FlyingKeys
        BY <2>3, OnceState
      <3>3. \A k \in S : k \notin Once!Landed
        BY <2>3, SMT DEF Once!Landed
      <3>. QED
        BY <3>1, <3>2, <3>3
    <2>. HIDE DEF q
    <2>5. FlyingKeys' = FlyingKeys \cup S
      BY <2>1 DEF FlyingKeys
    <2>6. Once!Depart(S)
      BY <2>1, <2>4, <2>5 DEF Once!Depart, HeldKeys, FlyingKeys
    <2>. QED
      BY <2>6 DEF Once!OnceNext
  <1>4. CASE ReceiveCreated(i)
    <2>1. ledger' = [k \in Keys |-> IF k \in Batch(i) /\ ledger[k] # "none" THEN "confirmed"
                                    ELSE ledger[k]]
      BY <1>4 DEF ReceiveCreated, FinishConfirmed
    <2>2. HeldKeys' = HeldKeys
      BY <2>1 DEF HeldKeys
    <2>3. UNCHANGED <<wire, landed>>
      BY <1>4 DEF ReceiveCreated, serverVars
    <2>. QED
      BY <2>2, <2>3, JournalOnly
  <1>5. CASE NeverSent(i) \/ ReceiveRefusal(i)
    <2>1. Unsent(i) /\ FinishMissing(i) /\ UNCHANGED <<wire, landed>>
      BY <1>5 DEF NeverSent, ReceiveRefusal, Unsent, serverVars, historyVars
    <2>. QED
      BY <2>1, ReleaseOnce
  <1>6. CASE ReceiveThrottle(i)
    <2>1. Unsent(i) /\ UNCHANGED <<wire, landed>>
      BY <1>6 DEF ReceiveThrottle, Unsent, serverVars, historyVars
    <2>2. CASE UNCHANGED journalVars
      <3>1. HeldKeys' = HeldKeys
        BY <2>2 DEF journalVars, HeldKeys
      <3>. QED
        BY <2>1, <3>1, JournalOnly
    <2>3. CASE FinishMissing(i)
      BY <2>1, <2>3, ReleaseOnce
    <2>. QED
      BY <1>6, <2>2, <2>3 DEF ReceiveThrottle
  <1>. QED
    BY <1>1, <1>2, <1>3, <1>4, <1>5, <1>6 DEF Sending

LEMMA ReadingOnce ==
    ASSUME UploadInv, NEW i \in Instances, Reading(i)
    PROVE  Once!OnceNext \/ UNCHANGED Once!onceVars
  <1>1. ASSUME NEW f \in Sources, NEW k \in Keys, FeaturePresent(i, f, k)
        PROVE  Once!OnceNext \/ UNCHANGED Once!onceVars
    <2>1. UNCHANGED <<wire, landed>>
      BY <1>1 DEF FeaturePresent, serverVars
    <2>2. ledger' = [ledger EXCEPT ![k] = "confirmed"]
      BY <1>1 DEF FeaturePresent, Observe
    <2>3. DOMAIN ledger = Keys
      BY DEF UploadInv, Types, TypeOK
    <2>4. CASE k \in HeldKeys
      <3>1. HeldKeys' = HeldKeys
        BY <2>2, <2>3, <2>4 DEF HeldKeys, UploadInv, Types, TypeOK
      <3>. QED
        BY <2>1, <3>1, JournalOnly
    <2>5. CASE k \notin HeldKeys
      <3>1. {k} \cap HeldKeys = {} /\ HeldKeys' = HeldKeys \cup {k}
        BY <2>2, <2>3, <2>5 DEF HeldKeys, UploadInv, Types, TypeOK
      <3>. QED
        BY <2>1, <3>1, JournalOnly
    <2>. QED
      BY <2>4, <2>5
  <1>2. CASE UNCHANGED <<wire, landed, ledger>>
    BY <1>2, JournalOnly DEF HeldKeys
  <1>. QED
    BY <1>1, <1>2
       DEF Reading, LoadPage, LoadFails, FeatureGone, FeatureSkipped, FeatureHeld,
           FeatureTwin, FeatureTaken, serverVars, journalVars, historyVars

LEMMA WorldOnce ==
    ASSUME UploadInv, World
    PROVE  Once!OnceNext \/ UNCHANGED Once!onceVars
  <1>1. ASSUME NEW r \in wire PROVE r.keys \in SUBSET Keys /\ r.keys \subseteq FlyingKeys
    BY RequestKeys DEF UploadInv, FlyingKeys
  <1>2. ASSUME NEW r \in wire, wire' = wire \ {r} PROVE FlyingKeys' = FlyingKeys \ r.keys
    <2>1. \A s \in wire : s # r => s.keys \cap r.keys = {}
      BY DEF UploadInv, Safe, WireApart
    <2>. QED
      BY <1>2, <2>1 DEF FlyingKeys
  <1>3. ASSUME NEW r \in wire, Commit(r) PROVE Once!OnceNext
    <2>1. wire' = wire \ {r} /\ ledger' = ledger
      BY <1>3 DEF Commit, Answer, journalVars
    <2>2. landed' = [k \in Keys |-> IF k \in r.keys THEN landed[k] + 1 ELSE landed[k]]
      BY <1>3 DEF Commit
    <2>3. FlyingKeys' = FlyingKeys \ r.keys
      BY <1>2, <2>1
    <2>4. Once!Land(r.keys)
      BY <1>1, <2>1, <2>2, <2>3 DEF Once!Land, HeldKeys, FlyingKeys
    <2>. QED
      BY <1>1, <2>4 DEF Once!OnceNext
  <1>4. ASSUME NEW r \in wire, Reject(r) PROVE Once!OnceNext
    <2>1. wire' = wire \ {r} /\ UNCHANGED <<ledger, landed>>
      BY <1>4 DEF Reject, Answer, journalVars, historyVars
    <2>2. FlyingKeys' = FlyingKeys \ r.keys
      BY <1>2, <2>1
    <2>3. Once!Vanish(r.keys)
      BY <1>1, <2>1, <2>2 DEF Once!Vanish, HeldKeys, FlyingKeys
    <2>. QED
      BY <1>1, <2>3 DEF Once!OnceNext
  <1>5. CASE Foreign
    <2>1. UNCHANGED <<wire, landed, ledger>>
      BY <1>5 DEF Foreign, journalVars, historyVars
    <2>. QED
      BY <2>1, JournalOnly DEF HeldKeys
  <1>. QED
    BY <1>3, <1>4, <1>5 DEF World, OthersCreate, OthersDelete, OthersChange

\* The journal and the requests under way, for any number of instances, features and
\* batches, are those of an upload which is done at most once.
THEOREM UploadImplementsOnce == Spec => KeepsOnce
  <1>1. Init => Once!OnceInit
    <2>1. SUFFICES ASSUME Init PROVE Once!OnceInit
      OBVIOUS
    <2>2. HeldKeys = {} /\ FlyingKeys = {} /\ landed = [k \in Keys |-> 0]
      BY <2>1 DEF Init, HeldKeys, FlyingKeys
    <2>. QED
      BY <2>2 DEF Once!OnceInit, HeldKeys, FlyingKeys
  <1>2. UploadInv /\ [Next]_vars => [Once!OnceNext]_(Once!onceVars)
    <2>1. SUFFICES ASSUME UploadInv, [Next]_vars
                   PROVE  Once!OnceNext \/ UNCHANGED Once!onceVars
      OBVIOUS
    <2>2. ASSUME NEW i \in Instances, Worker(i) PROVE Once!OnceNext \/ UNCHANGED Once!onceVars
      <3>1. CASE EndLayer(i) \/ Finish(i)
        <4>1. UNCHANGED <<wire, landed, ledger>>
          BY <3>1 DEF EndLayer, Finish, serverVars, journalVars, historyVars
        <4>. QED
          BY <4>1, JournalOnly DEF HeldKeys
      <3>. QED
        BY <2>1, <2>2, <3>1, ReadingOnce, SendingOnce DEF Worker
    <2>3. ASSUME NEW i \in Instances, Person(i) PROVE Once!OnceNext \/ UNCHANGED Once!onceVars
      <3>1. UNCHANGED <<wire, landed, ledger>>
        BY <2>3 DEF Person, Edit, Start, Cancel, ChangeConnection, Crash,
                    serverVars, journalVars, historyVars
      <3>. QED
        BY <3>1, JournalOnly DEF HeldKeys
    <2>4. CASE UNCHANGED vars
      <3>1. UNCHANGED <<wire, landed, ledger>>
        BY <2>4 DEF vars, serverVars, journalVars, historyVars
      <3>. QED
        BY <3>1, JournalOnly DEF HeldKeys
    <2>. QED
      BY <2>1, <2>2, <2>3, <2>4, WorldOnce DEF Next
  <1>. QED
    BY <1>1, <1>2, UploadIsSound, PTL DEF Spec, KeepsOnce, Once!OnceSpec
-----------------------------------------------------------------------------
(* What a run makes of the features it reads.                              *)

\* The counters of features which were selected to be sent.
Sent == {"published", "notSent", "notCreated", "failed", "unverified"}

Before == {"idle", "raised", "loading"}

\* A run selects what it has read, no copy of a label, nothing seen on the server and
\* nothing twice; what it selected, and nothing else, is counted as sent or not.
Selects(r) ==
    /\ r.chosen \cap r.unread = {} /\ r.chosen \cap Labelled = {}
    /\ \A f, g \in r.chosen : r.drafts[f] = r.drafts[g] => f = g
    /\ \A f \in r.chosen : r.drafts[f] \notin r.seen
    /\ \A f \in Sources : r.ids[f] # NoKey => r.ids[f] \in r.seen
    /\ r.phase \in Before => r.chosen = {} /\ \A f \in Sources : r.fate[f] = "none"

Counts(r) ==
    /\ \A f \in r.chunk \cup r.unread : r.fate[f] = "none"
    /\ \A f \in Sources : r.fate[f] \in Sent => f \in r.chosen
    /\ \A f \in r.chosen : r.fate[f] \in Sent \cup {"none"}
    /\ \A f \in Sources : r.fate[f] = "notSent" => r.stopped

Orderly(r) == Selects(r) /\ Counts(r)

(* The kinds of steps from run r to run s. *)

SameNo(r, s) == s.no = r.no /\ s.copy = r.copy /\ (r.stopped => s.stopped)
SameListing(r, s) == s.seen = r.seen /\ s.ids = r.ids
SameReading(r, s) ==
    /\ s.unread = r.unread /\ s.drafts = r.drafts
    /\ s.chosen = r.chosen /\ s.chunk = r.chunk /\ s.fate = r.fate
SameWay(r, s) ==
    /\ s.phase = r.phase /\ s.reply = r.reply /\ s.stopped = r.stopped
    /\ s.edited = r.edited /\ s.error = r.error

\* Nothing has changed but the way the run goes.
Alike(r, s) ==
    /\ SameNo(r, s) /\ SameListing(r, s) /\ SameReading(r, s)
    /\ (r.error => s.error) /\ (r.edited /\ r.phase # "idle" => s.edited)

\* What was selected has been answered for, and all has been read unless the run was stopped.
AllDone(r) == (r.unread = {} \/ r.stopped) /\ \A f \in r.chosen : r.fate[f] # "none"

\* The run goes on without reading or counting a feature.
Moved(r, s) ==
    /\ Alike(r, s)
    /\ \/ s.phase = r.phase
       \/ r.phase \notin Before \cup {"closing"} /\ s.phase \notin Before \cup {"reading"}
    /\ s.phase = "closing" => r.phase = "closing" \/ s.error \/ AllDone(r)

Begun(s) ==
    /\ s.phase \in {"raised", "loading"} /\ s.no = runs' /\ runs < runs'
    /\ s.seen = NoRun.seen /\ s.ids = NoRun.ids /\ s.chosen = {} /\ s.chunk = {}
    /\ s.fate = NoRun.fate /\ s.copy = key /\ s.unread = {f \in Sources : key[f] # NoKey}
    /\ ~s.edited

Listed(r, s) ==
    /\ r.phase = "loading" /\ s.phase \in {"loading", "reading"} /\ s.chunk = r.chunk
    /\ SameNo(r, s) /\ SameReading(r, s) /\ s.edited = r.edited
    /\ r.seen \subseteq s.seen
    /\ \A f \in Sources : s.ids[f] # NoKey => s.ids[f] = r.ids[f] \/ s.ids[f] \in s.seen

\* Feature f is drafted with key k, and counted.
Drafted(r, s, f, k, fate) ==
    /\ r.phase = "reading" /\ SameWay(r, s) /\ SameNo(r, s) /\ SameListing(r, s)
    /\ f \in r.unread /\ s.unread = r.unread \ {f} /\ k \in {r.copy[f], key[f]}
    /\ s.drafts = [r.drafts EXCEPT ![f] = k] /\ s.fate = [r.fate EXCEPT ![f] = fate]
    /\ s.chosen = r.chosen /\ s.chunk = r.chunk

\* Feature f is selected to be sent with key k.
Took(r, s, f, k) ==
    /\ r.phase = "reading" /\ SameWay(r, s) /\ SameNo(r, s) /\ SameListing(r, s)
    /\ f \in r.unread /\ s.unread = r.unread \ {f} /\ k \in {r.copy[f], key[f]}
    /\ f \notin Labelled /\ k \notin r.seen /\ \A g \in r.chosen : r.drafts[g] # k
    /\ s.drafts = [r.drafts EXCEPT ![f] = k] /\ s.fate = r.fate
    /\ s.chosen = r.chosen \cup {f} /\ s.chunk \in {r.chunk, r.chunk \cup {f}}

Passed(r, s, f) ==
    /\ r.phase = "reading" /\ SameWay(r, s) /\ SameNo(r, s) /\ SameListing(r, s)
    /\ s.unread = r.unread \ {f} /\ key[f] = NoKey
    /\ s.drafts = r.drafts /\ s.fate = r.fate
    /\ s.chosen = r.chosen /\ s.chunk = r.chunk

\* The batch is counted.
Counted(r, s, fates) ==
    /\ r.phase \in {"reading", "reserved", "posted"} /\ s.phase = "reading"
    /\ SameNo(r, s) /\ SameListing(r, s)
    /\ s.stopped = r.stopped /\ s.edited = r.edited /\ s.error = r.error
    /\ s.unread = r.unread /\ s.drafts = r.drafts /\ s.chosen = r.chosen
    /\ s.chunk = {f \in r.chosen : r.fate[f] = "none"} \ r.chunk
    /\ s.fate = [f \in Sources |-> IF f \in r.chunk THEN fates[f] ELSE r.fate[f]]
    /\ \A f \in r.chunk : fates[f] \in Sent /\ (fates[f] = "notSent" => r.stopped)

RunGoes(r, s) ==
    \/ Moved(r, s) \/ s = NoRun \/ Begun(s) \/ Listed(r, s)
    \/ \E f \in Sources : Passed(r, s, f)
    \/ \E f \in Sources, k \in Keys : Took(r, s, f, k)
    \/ \E f \in Sources, k \in Keys, fate \in {"skipped", "held", "present"} :
          Drafted(r, s, f, k, fate)
    \/ \E fates \in [Sources -> Fates] : Counted(r, s, fates)

\* The types of a run's parts.
LEMMA RunTypes ==
    ASSUME NEW r \in GoodRuns
    PROVE  /\ r.drafts \in [Sources -> Maybe] /\ r.fate \in [Sources -> Fates]
           /\ r.ids \in [Sources -> Maybe] /\ r.copy \in [Sources -> Maybe]
           /\ r.chosen \subseteq Sources /\ r.unread \subseteq Sources
           /\ r.chunk \subseteq r.chosen /\ r.seen \subseteq Keys
           /\ r.no \in 0..MaxRuns /\ r.stopped \in BOOLEAN /\ r.phase \in Phases
           /\ r.reply \in Replies /\ r.edited \in BOOLEAN /\ r.error \in BOOLEAN
           /\ \A f \in r.chosen : r.drafts[f] \in Keys
<1>1. r \in Runs
  BY DEF GoodRuns
<1>2. r.chunk \subseteq r.chosen /\ \A f \in r.chosen : r.drafts[f] \in Keys
  BY SMT DEF GoodRuns
<1>3. /\ r.drafts \in [Sources -> Maybe] /\ r.fate \in [Sources -> Fates]
      /\ r.ids \in [Sources -> Maybe] /\ r.copy \in [Sources -> Maybe]
      /\ r.chosen \subseteq Sources /\ r.unread \subseteq Sources
      /\ r.seen \subseteq Keys
      /\ r.no \in 0..MaxRuns /\ r.stopped \in BOOLEAN /\ r.phase \in Phases
      /\ r.reply \in Replies /\ r.edited \in BOOLEAN /\ r.error \in BOOLEAN
  BY <1>1, SMT DEF Runs
<1> QED
  BY <1>2, <1>3

\* No run: nothing is selected, read, seen or reported.
LEMMA NoRunFacts ==
    /\ NoRun.phase = "idle" /\ NoRun.no = 0 /\ NoRun.chosen = {} /\ NoRun.chunk = {}
    /\ NoRun.unread = {} /\ NoRun.seen = {} /\ NoRun.reply = "none"
    /\ NoRun.stopped = FALSE /\ NoRun.edited = FALSE /\ NoRun.error = FALSE
    /\ \A f \in Sources : NoRun.ids[f] = NoKey /\ NoRun.fate[f] = "none"
BY SMT DEF NoRun

\* The kinds of steps keep a run in order.
LEMMA OrderlyStep ==
    ASSUME NEW r \in GoodRuns, NEW s, Orderly(r), RunGoes(r, s)
    PROVE  Orderly(s)
<1>0. /\ r.drafts \in [Sources -> Maybe] /\ r.fate \in [Sources -> Fates]
      /\ r.chosen \subseteq Sources /\ r.unread \subseteq Sources
      /\ r.chunk \subseteq r.chosen /\ r.seen \subseteq Keys
  BY RunTypes
<1> USE DEF Orderly, Selects, Counts, SameNo, SameListing, SameReading, SameWay
<1>1. CASE Moved(r, s)
  <2>1. Alike(r, s) /\ (s.phase \in Before => r.phase \in Before)
    BY <1>1 DEF Moved, Before, Alike
  <2>. QED
    BY <1>0, <2>1 DEF Alike
<1>2. CASE s = NoRun
  BY <1>2, NoRunFacts DEF Before, Sent
<1>3. CASE Begun(s)
  BY <1>3, NoRunFacts DEF Begun, Before, Sent
<1>4. CASE Listed(r, s)
  BY <1>0, <1>4 DEF Listed, Before, Sent
<1>5. ASSUME NEW f \in Sources, NEW k \in Keys, Took(r, s, f, k)
      PROVE  Orderly(s)
  <2>1. \A g \in Sources : s.drafts[g] = IF g = f THEN k ELSE r.drafts[g]
    BY <1>0, <1>5 DEF Took
  <2>2. /\ r.phase = "reading" /\ s.phase = "reading" /\ s.fate = r.fate
        /\ f \in r.unread /\ s.unread = r.unread \ {f} /\ f \notin Labelled
        /\ s.seen = r.seen /\ s.ids = r.ids /\ s.stopped = r.stopped
        /\ k \notin r.seen /\ \A g \in r.chosen : r.drafts[g] # k
        /\ s.chosen = r.chosen \cup {f} /\ s.chunk \subseteq r.chunk \cup {f}
    BY <1>5 DEF Took
  <2>3. r.fate[f] = "none" /\ f \notin r.chosen
    BY <2>2
  <2>4. Selects(s)
    BY <1>0, <2>1, <2>2, <2>3 DEF Before
  <2>5. Counts(s)
    BY <1>0, <2>2, <2>3 DEF Sent
  <2> QED
    BY <2>4, <2>5
<1>6. ASSUME NEW f \in Sources, Passed(r, s, f)
      PROVE  Orderly(s)
  BY <1>0, <1>6 DEF Passed, Before
<1>7. ASSUME NEW f \in Sources, NEW k \in Keys, NEW fate \in {"skipped", "held", "present"},
             Drafted(r, s, f, k, fate)
      PROVE  Orderly(s)
  <2>1. \A g \in Sources : s.drafts[g] = IF g = f THEN k ELSE r.drafts[g]
    BY <1>0, <1>7 DEF Drafted
  <2>2. \A g \in Sources : s.fate[g] = IF g = f THEN fate ELSE r.fate[g]
    BY <1>0, <1>7 DEF Drafted
  <2>3. /\ r.phase = "reading" /\ s.phase = "reading"
        /\ f \in r.unread /\ s.unread = r.unread \ {f}
        /\ s.seen = r.seen /\ s.ids = r.ids /\ s.stopped = r.stopped
        /\ s.chosen = r.chosen /\ s.chunk = r.chunk
    BY <1>7 DEF Drafted
  <2>4. f \notin r.chosen
    BY <2>3
  <2>5. Selects(s)
    BY <1>0, <2>1, <2>3, <2>4 DEF Before
  <2>6. Counts(s)
    BY <1>0, <2>2, <2>3, <2>4 DEF Sent
  <2> QED
    BY <2>5, <2>6
<1>8. ASSUME NEW fates \in [Sources -> Fates], Counted(r, s, fates)
      PROVE  Orderly(s)
  <2>1. \A g \in Sources : s.fate[g] = IF g \in r.chunk THEN fates[g] ELSE r.fate[g]
    BY <1>8 DEF Counted
  <2>2. /\ s.phase = "reading" /\ s.seen = r.seen /\ s.ids = r.ids
        /\ s.stopped = r.stopped
        /\ s.unread = r.unread /\ s.drafts = r.drafts /\ s.chosen = r.chosen
        /\ s.chunk = {f \in r.chosen : r.fate[f] = "none"} \ r.chunk
        /\ \A f \in r.chunk : fates[f] \in Sent /\ (fates[f] = "notSent" => r.stopped)
    BY <1>8 DEF Counted
  <2>3. Selects(s)
    BY <1>0, <2>2 DEF Before
  <2>4. \A g \in s.chunk \cup s.unread : s.fate[g] = "none"
    BY <1>0, <2>1, <2>2
  <2>5. \A g \in Sources : s.fate[g] \in Sent => g \in s.chosen
    BY <1>0, <2>1, <2>2
  <2>6. \A g \in s.chosen : s.fate[g] \in Sent \cup {"none"}
    BY <1>0, <2>1, <2>2
  <2>7. \A g \in Sources : s.fate[g] = "notSent" => s.stopped
    BY <1>0, <2>1, <2>2
  <2> QED
    BY <2>3, <2>4, <2>5, <2>6, <2>7
<1> QED
  BY <1>1, <1>2, <1>3, <1>4, <1>5, <1>6, <1>7, <1>8 DEF RunGoes

\* What is selected stays, until the run is over.
Keeps(r, s) ==
    /\ s.no = r.no /\ r.chosen \subseteq s.chosen
    /\ \A f \in r.chosen : s.drafts[f] = r.drafts[f]

\* A step lets a run go on with what it has, ends it, or begins one.
LEMMA KeepsStep ==
    ASSUME NEW r \in GoodRuns, NEW s, Orderly(r), RunGoes(r, s)
    PROVE  Keeps(r, s) \/ s = NoRun \/ Begun(s)
<1>0. r.drafts \in [Sources -> Maybe] /\ r.chosen \subseteq Sources
  BY RunTypes
<1> USE DEF Orderly, Selects, SameNo, SameReading, Keeps
<1>1. CASE Moved(r, s) \/ Listed(r, s)
  BY <1>1 DEF Moved, Listed, Alike
<1>2. ASSUME NEW f \in Sources, NEW k \in Keys, Took(r, s, f, k) PROVE Keeps(r, s)
  BY <1>0, <1>2 DEF Took
<1>3. ASSUME NEW f \in Sources, Passed(r, s, f) PROVE Keeps(r, s)
  BY <1>3 DEF Passed
<1>4. ASSUME NEW f \in Sources, NEW k \in Keys, NEW fate, Drafted(r, s, f, k, fate)
      PROVE  Keeps(r, s)
  BY <1>0, <1>4 DEF Drafted
<1>5. ASSUME NEW fates, Counted(r, s, fates) PROVE Keeps(r, s)
  BY <1>5 DEF Counted
<1> QED
  BY <1>1, <1>2, <1>3, <1>4, <1>5 DEF RunGoes

-----------------------------------------------------------------------------
(* Each step moves each run in one of these ways.                          *)

\* An edit is noted by the runs under way, which change in nothing else.
LEMMA EditGoes ==
    ASSUME Types, NEW i \in Instances, NEW f \in Sources, Edit(i, f)
    PROVE  Moved(run[i], run'[i]) /\ \A j \in Instances : j # i => run'[j] = run[j]
  <1>. DEFINE b == run[i].phase # "idle"
              s == [run[i] EXCEPT !.edited = b]
  <1>1. run[i] \in Runs /\ run \in [Instances -> Runs]
    BY DEF Types, TypeOK
  <1>2. Alike(run[i], s) /\ s.phase = run[i].phase
    BY <1>1, SMT DEF Runs, Alike, SameNo, SameListing, SameReading
  <1>3. Becomes(i, s)
    BY DEF Edit
  <1>. HIDE DEF s
  <1>. QED
    BY <1>1, <1>2, <1>3, BecomesFacts DEF Moved, Alike

\* A cancelled run goes on as stopped.
LEMMA StopGoes ==
    ASSUME Types, NEW i \in Instances, Cancel(i) \/ ChangeConnection(i)
    PROVE  Moved(run[i], run'[i]) /\ \A j \in Instances : j # i => run'[j] = run[j]
  <1>. DEFINE s == [run[i] EXCEPT !.stopped = TRUE]
              t == [run[i] EXCEPT !.active = FALSE]
  <1>1. run[i] \in Runs /\ run \in [Instances -> Runs]
    BY DEF Types, TypeOK
  <1>2. Alike(run[i], s) /\ s.phase = run[i].phase
    BY <1>1, SMT DEF Runs, Alike, SameNo, SameListing, SameReading
  <1>3. Alike(run[i], t) /\ t.phase = run[i].phase
    BY <1>1, SMT DEF Runs, Alike, SameNo, SameListing, SameReading
  <1>4. Becomes(i, s) \/ Becomes(i, t)
    BY DEF Cancel, ChangeConnection
  <1>. HIDE DEF s, t
  <1>. QED
    BY <1>1, <1>2, <1>3, <1>4, BecomesFacts DEF Moved, Alike

\* A failed load, the end of a run and a crash leave no run.
LEMMA EndGoes ==
    ASSUME Types, NEW i \in Instances, LoadFails(i) \/ Finish(i) \/ Crash(i)
    PROVE  run'[i] = NoRun /\ \A j \in Instances : j # i => run'[j] = run[j]
  <1>1. Becomes(i, NoRun)
    BY DEF LoadFails, Finish, Crash
  <1>. QED
    BY <1>1, BecomesFacts DEF Types, TypeOK

\* A run begins with a number of its own and a copy of the layer.
LEMMA StartGoes ==
    ASSUME Types, NEW i \in Instances, NEW auto \in BOOLEAN, Start(i, auto)
    PROVE  Begun(run'[i]) /\ \A j \in Instances : j # i => run'[j] = run[j]
  <1>. DEFINE n == runs + 1
              U == {f \in Sources : key[f] # NoKey}
              p == IF HasAction THEN "loading" ELSE "raised"
              s == [NoRun EXCEPT !.phase = p, !.no = n, !.auto = auto,
                                 !.copy = key, !.pages = Keys, !.unread = U]
  <1>1. n = runs' /\ runs < n
    <2>1. runs \in 0..MaxRuns /\ runs < MaxRuns /\ n = runs'
      BY DEF Types, TypeOK, Start
    <2>2. MaxRuns \in Nat
      BY UploadAssumption DEF UploadAssumption
    <2>. QED
      BY <2>1, <2>2, SMT
  <1>2. NoRun \in Runs
    BY NoRunIsGood DEF GoodRuns
  <1>3. p \in {"raised", "loading"}
    OBVIOUS
  <1>4. Becomes(i, s)
    BY DEF Start
  <1>5. /\ s.phase = p /\ s.no = n /\ s.copy = key /\ s.unread = U
        /\ s.seen = NoRun.seen /\ s.ids = NoRun.ids /\ s.chosen = NoRun.chosen
        /\ s.chunk = NoRun.chunk /\ s.fate = NoRun.fate /\ s.edited = NoRun.edited
    <2>. HIDE DEF n, U, p
    <2>1. \A r \in Runs : LET q == [r EXCEPT !.phase = p, !.no = n, !.auto = auto,
                                 !.copy = key, !.pages = Keys, !.unread = U]
                          IN  /\ q.phase = p /\ q.no = n /\ q.copy = key /\ q.unread = U
                              /\ q.seen = r.seen /\ q.ids = r.ids /\ q.chosen = r.chosen
                              /\ q.chunk = r.chunk /\ q.fate = r.fate /\ q.edited = r.edited
      BY SMT DEF Runs
    <2>. QED
      BY <1>2, <2>1
  <1>6. run \in [Instances -> Runs]
    BY DEF Types, TypeOK
  <1>. HIDE DEF s, p, n
  <1>7. Begun(s)
    BY <1>1, <1>3, <1>5, NoRunFacts DEF Begun
  <1>. QED
    BY <1>4, <1>6, <1>7, BecomesFacts

\* A page adds to what the run has seen of the server.
LEMMA PageGoes ==
    ASSUME Types, NEW i \in Instances, NEW k \in Keys, LoadPage(i, k)
    PROVE  Listed(run[i], run'[i]) /\ \A j \in Instances : j # i => run'[j] = run[j]
  <1>. DEFINE r == run[i]
  <1>1. r \in Runs /\ r.phase = "loading" /\ run \in [Instances -> Runs]
    BY DEF Types, TypeOK, LoadPage
  <1>2. PICK slipped \in BOOLEAN :
          LET read == k \in OnServer /\ ~slipped
          IN  Becomes(i, [run[i] EXCEPT
                   !.pages = @ \ {k},
                   !.seen = IF read THEN @ \cup {k} ELSE @,
                   !.ids = [f \in Sources |->
                              IF f \in Labelled /\ read /\ labels[f] = k THEN k ELSE @[f]],
                   !.phase = IF run[i].pages = {k} THEN "reading" ELSE @,
                   !.shifted = @ /\ run[i].pages # {k}])
    BY DEF LoadPage
  <1>. DEFINE read == k \in OnServer /\ ~slipped
              P == r.pages \ {k}
              S == IF read THEN r.seen \cup {k} ELSE r.seen
              I == [f \in Sources |->
                     IF f \in Labelled /\ read /\ labels[f] = k THEN k ELSE r.ids[f]]
              p == IF r.pages = {k} THEN "reading" ELSE r.phase
              b == r.shifted /\ r.pages # {k}
              s == [r EXCEPT !.pages = P, !.seen = S, !.ids = I, !.phase = p, !.shifted = b]
  <1>3. Becomes(i, s)
    BY <1>2
  <1>4. r.seen \subseteq S /\ p \in {"loading", "reading"}
    BY <1>1
  <1>5. \A f \in Sources : I[f] # NoKey => I[f] = r.ids[f] \/ I[f] \in S
    OBVIOUS
  <1>. HIDE DEF P, S, I, p, b, r
  <1>6. /\ s.phase = p /\ s.seen = S /\ s.ids = I /\ s.chunk = r.chunk /\ s.edited = r.edited
        /\ SameNo(r, s) /\ SameReading(r, s)
    BY <1>1, SMT DEF Runs, SameNo, SameReading
  <1>. HIDE DEF s
  <1>7. Listed(r, s)
    BY <1>1, <1>4, <1>5, <1>6 DEF Listed
  <1>. QED
    BY <1>1, <1>3, <1>7, BecomesFacts DEF r

\* A feature that is skipped, present, held or a twin gets its fate when it is read.
LEMMA ReadGoes ==
    ASSUME Types, NEW i \in Instances, NEW f \in Sources, NEW k \in Keys,
           NEW fate \in Fates, Reads(i, f, k), Read(i, f, k, fate)
    PROVE  Drafted(run[i], run'[i], f, k, fate)
           /\ \A j \in Instances : j # i => run'[j] = run[j]
  <1>. DEFINE r == run[i]
              U == r.unread \ {f}
              D == [r.drafts EXCEPT ![f] = k]
              F == [r.fate EXCEPT ![f] = fate]
              s == [r EXCEPT !.unread = U, !.drafts = D, !.fate = F]
  <1>1. r \in Runs /\ r.phase = "reading" /\ f \in r.unread /\ k \in {r.copy[f], key[f]}
        /\ run \in [Instances -> Runs]
    BY DEF Types, TypeOK, Reads
  <1>2. Becomes(i, s)
    BY DEF Read
  <1>. HIDE DEF U, D, F, r
  <1>3. /\ s.unread = U /\ s.drafts = D /\ s.fate = F
        /\ s.chosen = r.chosen /\ s.chunk = r.chunk
        /\ SameWay(r, s) /\ SameNo(r, s) /\ SameListing(r, s)
    BY <1>1, SMT DEF Runs, SameWay, SameNo, SameListing
  <1>. HIDE DEF s
  <1>4. Drafted(r, s, f, k, fate)
    BY <1>1, <1>3 DEF Drafted, U, D, F
  <1>. QED
    BY <1>1, <1>2, <1>4, BecomesFacts DEF r

\* A feature that is taken is selected, under a key of its own.
LEMMA TakenGoes ==
    ASSUME Types, NEW i \in Instances, NEW f \in Sources, NEW k \in Keys,
           FeatureTaken(i, f, k)
    PROVE  Took(run[i], run'[i], f, k) /\ \A j \in Instances : j # i => run'[j] = run[j]
  <1>1. PICK fits \in BOOLEAN :
          Becomes(i, [run[i] EXCEPT !.unread = @ \ {f},
                                    !.drafts = [@ EXCEPT ![f] = k],
                                    !.chosen = @ \cup {f},
                                    !.chunk = IF fits THEN @ \cup {f} ELSE @])
    BY DEF FeatureTaken
  <1>. DEFINE r == run[i]
              U == r.unread \ {f}
              D == [r.drafts EXCEPT ![f] = k]
              H == r.chosen \cup {f}
              C == IF fits THEN r.chunk \cup {f} ELSE r.chunk
              s == [r EXCEPT !.unread = U, !.drafts = D, !.chosen = H, !.chunk = C]
  <1>2. r \in Runs /\ r.phase = "reading" /\ f \in r.unread /\ k \in {r.copy[f], key[f]}
        /\ run \in [Instances -> Runs]
    BY DEF Types, TypeOK, FeatureTaken, Reads
  <1>3. Becomes(i, s)
    BY <1>1
  <1>4. C \in {r.chunk, r.chunk \cup {f}}
    OBVIOUS
  <1>5. f \notin Labelled /\ ~Identified(i, f)
    BY DEF FeatureTaken, Doubtful
  <1>6. k \notin r.seen
    BY <1>5 DEF FeatureTaken, AlreadyThere
  <1>7. \A g \in r.chosen : r.drafts[g] # k
    BY DEF FeatureTaken, SelectedKeys, Spots
  <1>. HIDE DEF U, D, H, C, r
  <1>8. /\ s.unread = U /\ s.drafts = D /\ s.chosen = H /\ s.chunk = C /\ s.fate = r.fate
        /\ SameWay(r, s) /\ SameNo(r, s) /\ SameListing(r, s)
    BY <1>2, SMT DEF Runs, SameWay, SameNo, SameListing
  <1>. HIDE DEF s
  <1>9. Took(r, s, f, k)
    BY <1>2, <1>4, <1>5, <1>6, <1>7, <1>8 DEF Took, U, D, H
  <1>. QED
    BY <1>2, <1>3, <1>9, BecomesFacts DEF r

\* A feature that left the layer is passed over.
LEMMA GoneGoes ==
    ASSUME Types, NEW i \in Instances, NEW f \in Sources, FeatureGone(i, f)
    PROVE  Passed(run[i], run'[i], f) /\ \A j \in Instances : j # i => run'[j] = run[j]
  <1>. DEFINE U == run[i].unread \ {f}
              s == [run[i] EXCEPT !.unread = U]
  <1>1. run[i] \in Runs /\ run[i].phase = "reading" /\ key[f] = NoKey
        /\ run \in [Instances -> Runs]
    BY DEF Types, TypeOK, FeatureGone
  <1>2. Becomes(i, s)
    BY DEF FeatureGone
  <1>. HIDE DEF U
  <1>3. /\ s.unread = U /\ s.drafts = run[i].drafts /\ s.fate = run[i].fate
        /\ s.chosen = run[i].chosen /\ s.chunk = run[i].chunk
        /\ SameWay(run[i], s) /\ SameNo(run[i], s) /\ SameListing(run[i], s)
    BY <1>1, SMT DEF Runs, SameWay, SameNo, SameListing
  <1>. HIDE DEF s
  <1>. QED
    BY <1>1, <1>2, <1>3, BecomesFacts DEF Passed, U

\* A run that raises, or has read everything, closes.
LEMMA CloseGoes ==
    ASSUME Types, NEW i \in Instances, Raises(i) \/ EndLayer(i)
    PROVE  /\ Moved(run[i], run'[i]) /\ run'[i].phase = "closing"
           /\ run'[i].stopped = run[i].stopped /\ run'[i].edited = run[i].edited
           /\ Raises(i) => run'[i].error
           /\ \A j \in Instances : j # i => run'[j] = run[j]
  <1>. DEFINE s == [run[i] EXCEPT !.phase = "closing", !.error = TRUE]
              t == [run[i] EXCEPT !.phase = "closing"]
  <1>1. run[i] \in Runs /\ run[i].phase \in {"reading", "reserved"}
        /\ run \in [Instances -> Runs]
    BY DEF Types, TypeOK, Raises, EndLayer
  <1>1a. EndLayer(i) => AllDone(run[i])
    BY DEF EndLayer, AllDone, Pending
  <1>2. /\ Alike(run[i], s) /\ s.phase = "closing" /\ s.error = TRUE
        /\ s.stopped = run[i].stopped /\ s.edited = run[i].edited
    BY <1>1, SMT DEF Runs, Alike, SameNo, SameListing, SameReading
  <1>3. /\ Alike(run[i], t) /\ t.phase = "closing"
        /\ t.stopped = run[i].stopped /\ t.edited = run[i].edited
    BY <1>1, SMT DEF Runs, Alike, SameNo, SameListing, SameReading
  <1>4. Raises(i) => Becomes(i, s)
    BY DEF Raises, Fail
  <1>5. EndLayer(i) => Becomes(i, t)
    BY DEF EndLayer
  <1>. HIDE DEF s, t
  <1>6. CASE Raises(i)
    <2>1. run'[i] = s /\ \A j \in Instances : j # i => run'[j] = run[j]
      BY <1>1, <1>4, <1>6, BecomesFacts
    <2>. QED
      BY <1>1, <1>2, <2>1 DEF Moved, Alike, Before
  <1>7. CASE ~Raises(i)
    <2>1. run'[i] = t /\ \A j \in Instances : j # i => run'[j] = run[j]
      BY <1>1, <1>5, <1>7, BecomesFacts
    <2>. QED
      BY <1>1, <1>1a, <1>3, <1>7, <2>1 DEF Moved, Alike, Before
  <1>. QED
    BY <1>6, <1>7

\* The end of a batch gives its features their fates.
LEMMA CountGoes ==
    ASSUME Types, NEW i \in Instances, NEW fates \in [Sources -> Fates], Count(i, fates),
           run[i].phase \in {"reading", "reserved", "posted"},
           \A f \in run[i].chunk :
              fates[f] \in Sent /\ (fates[f] = "notSent" => run[i].stopped)
    PROVE  /\ Counted(run[i], run'[i], fates)
           /\ \A j \in Instances : j # i => run'[j] = run[j]
  <1>. DEFINE r == run[i]
              C == Pending(i) \ r.chunk
              F == [f \in Sources |-> IF f \in r.chunk THEN fates[f] ELSE r.fate[f]]
              s == [r EXCEPT !.phase = "reading", !.chunk = C, !.reply = "none",
                             !.tries = 0, !.fate = F]
  <1>1. r \in Runs /\ run \in [Instances -> Runs]
    BY DEF Types, TypeOK
  <1>2. Becomes(i, s)
    BY DEF Count
  <1>3. C = {f \in r.chosen : r.fate[f] = "none"} \ r.chunk
    BY DEF Pending
  <1>. HIDE DEF C, F, r
  <1>4. /\ s.phase = "reading" /\ s.chunk = C /\ s.fate = F
        /\ SameNo(r, s) /\ SameListing(r, s)
        /\ s.stopped = r.stopped /\ s.edited = r.edited /\ s.error = r.error
        /\ s.unread = r.unread /\ s.drafts = r.drafts /\ s.chosen = r.chosen
    BY <1>1, SMT DEF Runs, SameNo, SameListing
  <1>. HIDE DEF s
  <1>5. Counted(r, s, fates)
    BY <1>3, <1>4 DEF Counted, F, r, Before
  <1>. QED
    BY <1>1, <1>2, <1>5, BecomesFacts DEF r

\* Reserving, posting and trying again leave what was selected alone.
LEMMA SendGoes ==
    ASSUME Types, NEW i \in Instances,
           Reserve(i) \/ Post(i)
           \/ (run[i].phase = "posted" /\ Becomes(i, [run[i] EXCEPT !.phase = "reserved"]))
    PROVE  Moved(run[i], run'[i]) /\ \A j \in Instances : j # i => run'[j] = run[j]
  <1>. DEFINE n == run[i].tries + 1
              s == [run[i] EXCEPT !.phase = "posted", !.reply = "none", !.tries = n]
              t == [run[i] EXCEPT !.phase = "reserved"]
  <1>1. run[i] \in Runs /\ run[i].phase \notin Before \cup {"closing"}
        /\ run \in [Instances -> Runs]
    BY DEF Types, TypeOK, Reserve, Due, Post, Before
  <1>2. Becomes(i, s) \/ Becomes(i, t)
    BY DEF Reserve, Post
  <1>3. Alike(run[i], s) /\ s.phase = "posted"
    <2>. HIDE DEF n
    <2>. QED
      BY <1>1, SMT DEF Runs, Alike, SameNo, SameListing, SameReading
  <1>4. Alike(run[i], t) /\ t.phase = "reserved"
    BY <1>1, SMT DEF Runs, Alike, SameNo, SameListing, SameReading
  <1>. HIDE DEF s, t
  <1>5. run'[i] \in {s, t} /\ \A j \in Instances : j # i => run'[j] = run[j]
    BY <1>1, <1>2, BecomesFacts
  <1>6. Moved(run[i], s) /\ Moved(run[i], t)
    BY <1>1, <1>3, <1>4 DEF Moved, Before
  <1>. QED
    BY <1>5, <1>6

\* An answer which reaches its sender is about the batch being sent.
LEMMA AnswerGoes ==
    ASSUME Types, NEW r \in wire, NEW replies \in SUBSET Replies, Answer(r, replies)
    PROVE  \A j \in Instances :
              /\ Moved(run[j], run'[j])
              /\ run'[j].phase = run[j].phase
              /\ \/ run'[j].reply = run[j].reply
                 \/ /\ run'[j].reply \in replies /\ Batch(j) = r.keys
                    /\ j = r.by /\ run[j].phase = "posted" /\ run[j].no = r.no
  <1>. DEFINE i == r.by
  <1>1. i \in Instances
    BY RequestKeys
  <1>2. PICK reply \in replies :
          Becomes(i, [run[i] EXCEPT !.reply =
            IF run[i].phase = "posted" /\ run[i].no = r.no /\ Batch(i) = r.keys
            THEN reply ELSE @])
    BY DEF Answer
  <1>. DEFINE q == IF run[i].phase = "posted" /\ run[i].no = r.no /\ Batch(i) = r.keys
                   THEN reply ELSE run[i].reply
              s == [run[i] EXCEPT !.reply = q]
  <1>3. run[i] \in Runs /\ run \in [Instances -> Runs]
    BY <1>1 DEF Types, TypeOK
  <1>4. \/ q = run[i].reply
        \/ q \in replies /\ Batch(i) = r.keys /\ run[i].phase = "posted" /\ run[i].no = r.no
    BY SMT
  <1>5. Becomes(i, s)
    BY <1>2
  <1>. HIDE DEF q
  <1>6. Alike(run[i], s) /\ s.phase = run[i].phase /\ s.reply = q
    BY <1>3, SMT DEF Runs, Alike, SameNo, SameListing, SameReading
  <1>. HIDE DEF s
  <1>7. run'[i] = s /\ \A j \in Instances : j # i => run'[j] = run[j]
    BY <1>1, <1>3, <1>5, BecomesFacts
  <1>8. \A j \in Instances : Moved(run[j], run[j])
    BY DEF Moved, Alike, SameNo, SameListing, SameReading
  <1>. QED
    BY <1>4, <1>6, <1>7, <1>8 DEF Moved

\* A deletion by others moves no run on, but may shift its pages.
LEMMA DeleteGoes ==
    ASSUME Types, NEW k \in Keys, OthersDelete(k)
    PROVE  \A j \in Instances : Moved(run[j], run'[j])
  <1>1. SUFFICES ASSUME NEW i \in Instances PROVE Moved(run[i], run'[i])
    OBVIOUS
  <1>. DEFINE b == run[i].shifted \/ run[i].phase = "loading"
              s == [run[i] EXCEPT !.shifted = b]
  <1>2. run[i] \in Runs
    BY DEF Types, TypeOK
  <1>3. run'[i] = s
    BY DEF OthersDelete
  <1>. HIDE DEF b
  <1>4. Alike(run[i], s) /\ s.phase = run[i].phase
    BY <1>2, SMT DEF Runs, Alike, SameNo, SameListing, SameReading
  <1>. HIDE DEF s
  <1>. QED
    BY <1>3, <1>4 DEF Moved

-----------------------------------------------------------------------------
(* The steps of the system, by what they do to the journal and the requests. *)

\* A way to go on without counting a batch or taking a feature into one.
Minds(r, s) ==
    \/ Moved(r, s) \/ s = NoRun \/ Begun(s) \/ Listed(r, s)
    \/ \E f \in Sources : Passed(r, s, f)
    \/ \E f \in Sources, k \in Keys, fate \in {"skipped", "held", "present"} :
          /\ Drafted(r, s, f, k, fate)
          /\ fate = "present" => \E g \in r.chosen : r.drafts[g] = k

Others(i) == \A j \in Instances : j # i => run'[j] = run[j]

\* Nothing of the journal, the requests and what became of them changes.
Aside == UNCHANGED <<wire, ledger, refs, landed, made, known>>

Ordinary == Aside /\ QuietRuns /\ \A j \in Instances : Minds(run[j], run'[j])

Takes(i, f, k) ==
    /\ Aside /\ QuietRuns /\ Others(i)
    /\ Took(run[i], run'[i], f, k) /\ ledger[k] = "none" /\ refs[f] = NoKey

Observes(i, f, k) ==
    /\ QuietRuns /\ Others(i) /\ Drafted(run[i], run'[i], f, k, "present")
    /\ k \in run[i].seen /\ Observe(f, k) /\ known' = known \cup {k}
    /\ UNCHANGED <<wire, landed, made>>

\* The batch is answered for, while the journal keeps its rows as they are.
Leaves(i, fates) ==
    /\ Aside /\ QuietRuns /\ Others(i) /\ Counted(run[i], run'[i], fates)
    /\ \A f \in run[i].chunk :
          \/ fates[f] = "unverified"
          \/ fates[f] \in {"notSent", "failed"} /\ (~Bulk \/ ~Sends(i))

Releases(i, fates) ==
    /\ Unsent(i) /\ FinishMissing(i) /\ QuietRuns /\ Others(i)
    /\ Counted(run[i], run'[i], fates)
    /\ \A f \in run[i].chunk : fates[f] # "published"
    /\ UNCHANGED <<wire, landed, made, known>>

Confirms(i) ==
    /\ run[i].phase = "posted" /\ run[i].reply = "created"
    /\ FinishConfirmed(i) /\ QuietRuns /\ Others(i)
    /\ Counted(run[i], run'[i], All("published"))
    /\ known' = known \cup Batch(i) /\ UNCHANGED <<wire, landed, made>>

Reserves(i) ==
    /\ Reserve(i) /\ Moved(run[i], run'[i]) /\ Others(i)
    /\ run'[i].phase = "reserved"

Posts(i) ==
    /\ Post(i) /\ Moved(run[i], run'[i]) /\ Others(i)
    /\ run'[i].phase = "posted" /\ run'[i].reply = "none"

Repeats(i) ==
    /\ Unsent(i) /\ Moved(run[i], run'[i]) /\ Others(i) /\ Aside
    /\ run'[i].phase = "reserved"

Lands(r) ==
    /\ Commit(r)
    /\ \A j \in Instances :
          /\ Moved(run[j], run'[j]) /\ run'[j].phase = run[j].phase
          /\ \/ run'[j].reply = run[j].reply
             \/ /\ run'[j].reply = "created" /\ Batch(j) = r.keys
                /\ j = r.by /\ run[j].phase = "posted" /\ run[j].no = r.no

Departs(r) ==
    /\ Reject(r)
    /\ \A j \in Instances :
          /\ Moved(run[j], run'[j]) /\ run'[j].phase = run[j].phase
          /\ \/ run'[j].reply = run[j].reply
             \/ /\ run'[j].reply # "created" /\ Batch(j) = r.keys
                /\ j = r.by /\ run[j].phase = "posted" /\ run[j].no = r.no

Kinds ==
    \/ Ordinary
    \/ \E i \in Instances, f \in Sources, k \in Keys : Takes(i, f, k) \/ Observes(i, f, k)
    \/ \E i \in Instances, fates \in [Sources -> Fates] : Leaves(i, fates) \/ Releases(i, fates)
    \/ \E i \in Instances : Confirms(i) \/ Reserves(i) \/ Posts(i) \/ Repeats(i)
    \/ \E r \in wire : Lands(r) \/ Departs(r)

\* A run which a step does not touch goes on.
LEMMA StaysMinded ==
    \A r : Moved(r, r)
  BY DEF Moved, Alike, SameNo, SameListing, SameReading

\* One run goes on; the journal, the requests and the other runs are left alone.
LEMMA OrdinaryIf ==
    ASSUME QuietRuns, NEW i \in Instances, Minds(run[i], run'[i]), Others(i),
           UNCHANGED <<serverVars, journalVars, historyVars>>
    PROVE  Kinds
  <1>1. Aside
    BY DEF Aside, serverVars, journalVars, historyVars
  <1>2. \A j \in Instances : Minds(run[j], run'[j])
    BY StaysMinded DEF Others, Minds
  <1>. QED
    BY <1>1, <1>2 DEF Ordinary, Kinds

\* The worker's reading takes, observes or leaves a feature, or is ordinary.
LEMMA ReadingKinds ==
    ASSUME UploadInv, NEW i \in Instances, Orderly(run[i]), Reading(i)
    PROVE  Kinds
  <1>1. Types
    BY DEF UploadInv
  <1>2. "skipped" \in Fates /\ "held" \in Fates /\ "present" \in Fates
    BY DEF Fates
  <1>3. ASSUME NEW k \in Keys, LoadPage(i, k) PROVE Kinds
    <2>1. QuietRuns /\ Minds(run[i], run'[i]) /\ Others(i)
      BY <1>1, <1>3, PageRuns, PageGoes DEF Minds, Others
    <2>. QED
      BY <1>3, <2>1, OrdinaryIf DEF LoadPage
  <1>4. CASE LoadFails(i)
    <2>1. QuietRuns /\ Minds(run[i], run'[i]) /\ Others(i)
      BY <1>1, <1>4, EndRuns, EndGoes DEF Minds, Others
    <2>. QED
      BY <1>4, <2>1, OrdinaryIf DEF LoadFails
  <1>5. ASSUME NEW f \in Sources, FeatureGone(i, f) PROVE Kinds
    <2>1. QuietRuns /\ Minds(run[i], run'[i]) /\ Others(i)
      BY <1>1, <1>5, GoneRuns, GoneGoes DEF Minds, Others
    <2>. QED
      BY <1>5, <2>1, OrdinaryIf DEF FeatureGone
  <1>6. ASSUME NEW f \in Sources, NEW k \in Keys, NEW fate \in {"skipped", "held"},
               Reads(i, f, k), Read(i, f, k, fate),
               UNCHANGED <<serverVars, journalVars, historyVars>>
        PROVE  Kinds
    <2>1. QuietRuns
      BY <1>1, <1>2, <1>6, ReadRuns
    <2>2. Drafted(run[i], run'[i], f, k, fate) /\ Others(i)
      BY <1>1, <1>2, <1>6, ReadGoes DEF Others
    <2>3. Minds(run[i], run'[i])
      BY <1>6, <2>2 DEF Minds
    <2>. QED
      BY <1>6, <2>1, <2>2, <2>3, OrdinaryIf
  <1>7. ASSUME NEW f \in Sources, NEW k \in Keys, FeatureTwin(i, f, k) PROVE Kinds
    <2>1. /\ Reads(i, f, k) /\ Read(i, f, k, "present") /\ k \in SelectedKeys(i)
          /\ UNCHANGED <<serverVars, journalVars, historyVars>>
      BY <1>7 DEF FeatureTwin
    <2>2. QuietRuns
      BY <1>1, <1>2, <2>1, ReadRuns
    <2>3. Drafted(run[i], run'[i], f, k, "present") /\ Others(i)
      BY <1>1, <1>2, <2>1, ReadGoes DEF Others
    <2>4. \E g \in run[i].chosen : run[i].drafts[g] = k
      BY <2>1 DEF SelectedKeys
    <2>5. Minds(run[i], run'[i])
      BY <2>3, <2>4 DEF Minds
    <2>. QED
      BY <2>1, <2>2, <2>3, <2>5, OrdinaryIf
  <1>8. ASSUME NEW f \in Sources, NEW k \in Keys, FeaturePresent(i, f, k) PROVE Kinds
    <2>1. /\ Reads(i, f, k) /\ Read(i, f, k, "present") /\ AlreadyThere(i, f, k)
          /\ Observe(f, k) /\ known' = known \cup {k}
          /\ UNCHANGED <<serverVars, landed, made>>
      BY <1>8 DEF FeaturePresent
    <2>2. QuietRuns /\ Drafted(run[i], run'[i], f, k, "present") /\ Others(i)
      BY <1>1, <1>2, <2>1, ReadRuns, ReadGoes DEF Others
    <2>3. k \in run[i].seen
      BY <2>1 DEF AlreadyThere, Identified, Orderly, Selects
    <2>4. Observes(i, f, k)
      BY <2>1, <2>2, <2>3 DEF Observes, serverVars
    <2>. QED
      BY <2>4 DEF Kinds
  <1>9. ASSUME NEW f \in Sources, NEW k \in Keys, FeatureTaken(i, f, k) PROVE Kinds
    <2>1. QuietRuns /\ Took(run[i], run'[i], f, k) /\ Others(i)
      BY <1>1, <1>9, TakenRuns, TakenGoes DEF Others
    <2>2. ledger[k] = "none" /\ refs[f] = NoKey /\ Aside
      BY <1>9 DEF FeatureTaken, Doubtful, Aside, serverVars, journalVars, historyVars
    <2>3. Takes(i, f, k)
      BY <2>1, <2>2 DEF Takes
    <2>. QED
      BY <2>3 DEF Kinds
  <1>10. ASSUME NEW f \in Sources, NEW k \in Keys, FeatureSkipped(i, f, k) \/ FeatureHeld(i, f, k)
         PROVE  Kinds
    <2>1. CASE FeatureSkipped(i, f, k)
      BY <2>1, <1>6 DEF FeatureSkipped
    <2>2. CASE FeatureHeld(i, f, k)
      BY <2>2, <1>6 DEF FeatureHeld
    <2>. QED
      BY <1>10, <2>1, <2>2
  <1>. QED
    BY <1>3, <1>4, <1>5, <1>7, <1>8, <1>9, <1>10 DEF Reading

\* An answer which leaves the journal with its rows.
LEMMA LeavesIf ==
    ASSUME Types, NEW i \in Instances, NEW fate \in {"unverified", "notSent", "failed"},
           run[i].phase \in {"reading", "posted"}, Count(i, All(fate)),
           fate = "notSent" => run[i].stopped,
           fate = "unverified" \/ ~Bulk \/ run[i].phase = "reading",
           UNCHANGED <<serverVars, journalVars, historyVars>>
    PROVE  Kinds
  <1>1. fate \in Fates /\ fate \in Sent
    BY DEF Fates, Sent
  <1>2. All(fate) \in [Sources -> Fates] /\ \A f \in Sources : All(fate)[f] = fate
    BY <1>1 DEF All
  <1>3. run[i].chunk \subseteq Sources
    <2>1. run[i] \in Runs
      BY DEF Types, TypeOK
    <2>. QED
      BY <2>1, SMT DEF Runs
  <1>4. QuietRuns
    BY <1>2, CountQuiet
  <1>. DEFINE A == All(fate)
  <1>5. A \in [Sources -> Fates] /\ \A f \in Sources : A[f] = fate
    BY <1>2
  <1>6. Count(i, A)
    OBVIOUS
  <1>. HIDE DEF A
  <1>7. Counted(run[i], run'[i], A) /\ Others(i)
    BY <1>1, <1>3, <1>5, <1>6, CountGoes DEF Others
  <1>8. \A f \in run[i].chunk : A[f] = "unverified" \/ (A[f] \in {"notSent", "failed"} /\ (~Bulk \/ ~Sends(i)))
    BY <1>3, <1>5 DEF Sends
  <1>9. Aside
    BY DEF Aside, serverVars, journalVars, historyVars
  <1>10. Leaves(i, A)
    BY <1>4, <1>7, <1>8, <1>9 DEF Leaves
  <1>. QED
    BY <1>5, <1>10 DEF Kinds

\* A batch is turned down, or was never sent.
LEMMA ReleasesIf ==
    ASSUME Types, NEW i \in Instances, NEW fates \in [Sources -> Fates],
           Unsent(i), FinishMissing(i), Count(i, fates),
           \A f \in Sources : \/ fates[f] \in {"notCreated", "failed"}
                              \/ fates[f] = "notSent" /\ run[i].stopped,
           UNCHANGED <<serverVars, historyVars>>
    PROVE  Kinds
  <1>1. run[i].chunk \subseteq Sources
    <2>1. run[i] \in Runs
      BY DEF Types, TypeOK
    <2>. QED
      BY <2>1, SMT DEF Runs
  <1>2. run[i].phase \in {"reserved", "posted"}
    BY DEF Unsent
  <1>3. QuietRuns
    BY <1>2, CountQuiet
  <1>4. \A f \in run[i].chunk : fates[f] \in Sent /\ (fates[f] = "notSent" => run[i].stopped)
    BY <1>1 DEF Sent
  <1>5. Counted(run[i], run'[i], fates) /\ Others(i)
    BY <1>2, <1>4, CountGoes DEF Others
  <1>6. UNCHANGED <<wire, landed, made, known>>
    BY DEF serverVars, historyVars
  <1>7. Releases(i, fates)
    BY <1>1, <1>3, <1>5, <1>6 DEF Releases
  <1>. QED
    BY <1>7 DEF Kinds

\* The worker's sending reserves, posts, repeats, confirms, releases or leaves a batch.
LEMMA SendingKinds ==
    ASSUME UploadInv, NEW i \in Instances, Sending(i)
    PROVE  Kinds
  <1>1. Types
    BY DEF UploadInv
  <1>2. \A f \in Fates : All(f) \in [Sources -> Fates]
    BY AllTypes
  <1>3. CASE Raises(i)
    <2>1. QuietRuns /\ Minds(run[i], run'[i]) /\ Others(i)
      BY <1>1, <1>3, CloseRuns, CloseGoes DEF Minds, Others
    <2>. QED
      BY <1>3, <2>1, OrdinaryIf DEF Raises
  <1>4. CASE DropBatch(i)
    <2>1. /\ run[i].phase = "reading" /\ run[i].stopped /\ Count(i, All("notSent"))
          /\ UNCHANGED <<serverVars, journalVars, historyVars>>
      BY <1>4 DEF DropBatch, Due
    <2>. QED
      BY <1>1, <2>1, LeavesIf
  <1>5. CASE Reserve(i)
    <2>1. Moved(run[i], run'[i]) /\ Others(i) /\ run'[i].phase = "reserved"
      BY <1>1, <1>5, SendGoes, ReserveRuns DEF Others
    <2>. QED
      BY <1>5, <2>1 DEF Kinds, Reserves
  <1>6. CASE Post(i)
    <2>1. Moved(run[i], run'[i]) /\ Others(i)
      BY <1>1, <1>6, SendGoes DEF Others
    <2>2. run'[i].phase = "posted" /\ run'[i].reply = "none"
      BY <1>1, <1>6, PostRuns
    <2>. QED
      BY <1>6, <2>1, <2>2 DEF Kinds, Posts
  <1>7. CASE NeverSent(i)
    <2>1. /\ Unsent(i) /\ FinishMissing(i) /\ run[i].stopped /\ Count(i, All("notSent"))
          /\ UNCHANGED <<serverVars, historyVars>>
      BY <1>7 DEF NeverSent, Unsent
    <2>2. All("notSent") \in [Sources -> Fates] /\ \A f \in Sources : All("notSent")[f] = "notSent"
      BY <1>2 DEF Fates, All
    <2>. QED
      BY <1>1, <2>1, <2>2, ReleasesIf
  <1>8. CASE ReceiveCreated(i)
    <2>1. /\ run[i].phase = "posted" /\ run[i].reply = "created" /\ FinishConfirmed(i)
          /\ known' = known \cup Batch(i) /\ Count(i, All("published"))
          /\ UNCHANGED <<serverVars, landed, made>>
      BY <1>8 DEF ReceiveCreated
    <2>2. All("published") \in [Sources -> Fates] /\ \A f \in Sources : All("published")[f] = "published"
      BY <1>2 DEF Fates, All
    <2>3. QuietRuns
      BY <1>1, <2>1, <2>2, CountQuiet
    <2>4. run[i].chunk \subseteq Sources
      <3>1. run[i] \in Runs
        BY <1>1 DEF Types, TypeOK
      <3>. QED
        BY <3>1, SMT DEF Runs
    <2>5. \A f \in run[i].chunk : All("published")[f] \in Sent /\ All("published")[f] # "notSent"
      BY <2>2, <2>4 DEF Sent
    <2>6. Counted(run[i], run'[i], All("published")) /\ Others(i)
      BY <1>1, <2>1, <2>2, <2>5, CountGoes DEF Others
    <2>. QED
      BY <2>1, <2>3, <2>6 DEF Kinds, Confirms, serverVars
  <1>9. CASE ReceiveRefusal(i)
    <2>1. /\ Unsent(i) /\ FinishMissing(i) /\ run[i].phase = "posted"
          /\ UNCHANGED <<serverVars, historyVars>>
      BY <1>9 DEF ReceiveRefusal, Unsent
    <2>2. PICK fates \in [Sources -> Fates] :
             Count(i, fates) /\ \A f \in Sources : fates[f] \in {"notCreated", "failed"}
      <3>1. /\ All("notCreated") \in [Sources -> Fates]
            /\ \A f \in Sources : All("notCreated")[f] = "notCreated"
        BY <1>2 DEF Fates, All
      <3>2. \A f : LET a == [All("notCreated") EXCEPT ![f] = "failed"]
                   IN  /\ a \in [Sources -> Fates]
                       /\ \A g \in Sources : a[g] \in {"notCreated", "failed"}
        BY <3>1 DEF Fates
      <3>. QED
        BY <1>9, <3>1, <3>2 DEF ReceiveRefusal
    <2>. QED
      BY <1>1, <2>1, <2>2, ReleasesIf
  <1>10. CASE ReceiveThrottle(i)
    <2>1. /\ Unsent(i) /\ run[i].phase = "posted"
          /\ UNCHANGED <<serverVars, historyVars>>
      BY <1>10 DEF ReceiveThrottle, Unsent
    <2>2. CASE /\ run[i].tries < MaxTries
               /\ Becomes(i, [run[i] EXCEPT !.phase = "reserved"])
               /\ UNCHANGED journalVars
      <3>1. Moved(run[i], run'[i]) /\ Others(i)
        BY <1>1, <2>1, <2>2, SendGoes DEF Others
      <3>2. run'[i].phase = "reserved"
        BY <1>1, <2>1, <2>2, AgainRuns
      <3>3. Aside
        BY <2>1, <2>2 DEF Aside, serverVars, journalVars, historyVars
      <3>. QED
        BY <2>1, <3>1, <3>2, <3>3 DEF Kinds, Repeats
    <2>3. CASE FinishMissing(i) /\ Count(i, All(IF Bulk THEN "notCreated" ELSE "failed"))
      <3>. DEFINE A == All(IF Bulk THEN "notCreated" ELSE "failed")
      <3>1. A \in [Sources -> Fates] /\ \A f \in Sources : A[f] \in {"notCreated", "failed"}
        BY <1>2 DEF Fates, All
      <3>2. Count(i, A)
        BY <2>3
      <3>. HIDE DEF A
      <3>. QED
        BY <1>1, <2>1, <2>3, <3>1, <3>2, ReleasesIf
    <2>. QED
      BY <1>10, <2>2, <2>3 DEF ReceiveThrottle
  <1>11. CASE ReceiveNothing(i)
    <2>. DEFINE fate == CASE Bulk -> "unverified"
                          [] ~Bulk /\ run[i].stopped -> "notSent"
                          [] ~Bulk /\ ~run[i].stopped -> "failed"
    <2>1. fate \in {"unverified", "notSent", "failed"}
      BY UploadAssumption DEF UploadAssumption
    <2>1a. (fate = "notSent" => run[i].stopped) /\ (fate = "unverified" \/ ~Bulk)
      BY UploadAssumption DEF UploadAssumption
    <2>2. Count(i, All(fate)) /\ run[i].phase = "posted"
          /\ UNCHANGED <<serverVars, journalVars, historyVars>>
      BY <1>11 DEF ReceiveNothing, FinishUncertain
    <2>. HIDE DEF fate
    <2>. QED
      BY <1>1, <2>1, <2>1a, <2>2, LeavesIf
  <1>. QED
    BY <1>3, <1>4, <1>5, <1>6, <1>7, <1>8, <1>9, <1>10, <1>11 DEF Sending

\* What a person does, and the end of a run, is ordinary.
LEMMA PersonKinds ==
    ASSUME UploadInv, NEW i \in Instances, Person(i) \/ EndLayer(i) \/ Finish(i)
    PROVE  Kinds
  <1>1. Types
    BY DEF UploadInv
  <1>2. UNCHANGED <<serverVars, journalVars, historyVars>>
    BY DEF Person, Edit, Start, Cancel, ChangeConnection, Crash, EndLayer, Finish
  <1>3. ASSUME NEW f \in Sources, Edit(i, f) PROVE Kinds
    BY <1>1, <1>2, <1>3, EditRuns, EditGoes, OrdinaryIf DEF Minds, Others
  <1>4. ASSUME NEW auto \in BOOLEAN, Start(i, auto) PROVE Kinds
    BY <1>1, <1>2, <1>4, StartRuns, StartGoes, OrdinaryIf DEF Minds, Others
  <1>5. CASE Cancel(i) \/ ChangeConnection(i)
    BY <1>1, <1>2, <1>5, StopRuns, StopGoes, OrdinaryIf DEF Minds, Others
  <1>6. CASE Crash(i) \/ Finish(i)
    BY <1>1, <1>2, <1>6, EndRuns, EndGoes, OrdinaryIf DEF Minds, Others
  <1>7. CASE EndLayer(i)
    BY <1>1, <1>2, <1>7, CloseRuns, CloseGoes, OrdinaryIf DEF Minds, Others
  <1>. QED
    BY <1>3, <1>4, <1>5, <1>6, <1>7 DEF Person

\* What the server and others do lands a request, lets one depart, or is ordinary.
LEMMA WorldKinds ==
    ASSUME UploadInv, World
    PROVE  Kinds
  <1>1. Types
    BY DEF UploadInv
  <1>2. ASSUME NEW r \in wire, Commit(r) PROVE Kinds
    <2>1. {"created"} \in SUBSET Replies /\ Answer(r, {"created"})
      BY <1>2 DEF Replies, Commit
    <2>2. Lands(r)
      BY <1>1, <1>2, <2>1, AnswerGoes DEF Lands
    <2>. QED
      BY <2>2 DEF Kinds
  <1>3. ASSUME NEW r \in wire, Reject(r) PROVE Kinds
    <2>. DEFINE R == {"none", "blamed", "refused", "throttled"}
    <2>1. R \in SUBSET Replies /\ Answer(r, R) /\ "created" \notin R
      BY <1>3 DEF Replies, Reject
    <2>. HIDE DEF R
    <2>2. Departs(r)
      BY <1>1, <1>3, <2>1, AnswerGoes DEF Departs
    <2>. QED
      BY <2>2 DEF Kinds
  <1>4. ASSUME NEW k \in Keys, OthersCreate(k) PROVE Kinds
    <2>1. QuietRuns /\ run' = run
      BY <1>1, <1>4 DEF OthersCreate, QuietRuns, Quiet, Types
    <2>2. Aside
      BY <1>4 DEF OthersCreate, Foreign, Aside, journalVars, historyVars
    <2>. QED
      BY <2>1, <2>2, StaysMinded DEF Kinds, Ordinary, Minds
  <1>5. ASSUME NEW k \in Keys, OthersDelete(k) PROVE Kinds
    <2>1. QuietRuns /\ \A j \in Instances : Minds(run[j], run'[j])
      BY <1>1, <1>5, DeleteRuns, DeleteGoes DEF Minds
    <2>2. Aside
      BY <1>5 DEF OthersDelete, Foreign, Aside, journalVars, historyVars
    <2>. QED
      BY <2>1, <2>2 DEF Kinds, Ordinary
  <1>6. ASSUME NEW f \in Labelled, NEW k \in Keys, OthersChange(f, k) PROVE Kinds
    <2>1. QuietRuns /\ run' = run
      BY <1>1, <1>6 DEF OthersChange, QuietRuns, Quiet, Types
    <2>2. Aside
      BY <1>6 DEF OthersChange, Foreign, Aside, journalVars, historyVars
    <2>. QED
      BY <2>1, <2>2, StaysMinded DEF Kinds, Ordinary, Minds
  <1>. QED
    BY <1>2, <1>3, <1>4, <1>5, <1>6 DEF World

\* Every step is of one of the kinds.
LEMMA StepKinds ==
    ASSUME UploadInv, \A i \in Instances : Orderly(run[i]), [Next]_vars
    PROVE  Kinds
  <1>1. CASE UNCHANGED vars
    <2>1. QuietRuns /\ run' = run
      BY <1>1 DEF vars, QuietRuns, Quiet, UploadInv, Types
    <2>2. Aside
      BY <1>1 DEF vars, Aside, serverVars, journalVars, historyVars
    <2>. QED
      BY <2>1, <2>2, StaysMinded DEF Kinds, Ordinary, Minds
  <1>. QED
    BY <1>1, ReadingKinds, SendingKinds, PersonKinds, WorldKinds DEF Next, Worker

\* Whatever happens, every run goes on in one of the ways it can.
LEMMA RunsGo ==
    ASSUME Kinds, NEW j \in Instances
    PROVE  RunGoes(run[j], run'[j])
  <1>1. Moved(run[j], run[j])
    BY StaysMinded
  <1>2. Minds(run[j], run'[j]) => RunGoes(run[j], run'[j])
    BY DEF Minds, RunGoes
  <1>3. CASE Ordinary
    BY <1>2, <1>3 DEF Ordinary
  <1>4. ASSUME NEW i \in Instances, NEW f \in Sources, NEW k \in Keys,
               Takes(i, f, k) \/ Observes(i, f, k)
        PROVE  RunGoes(run[j], run'[j])
    BY <1>1, <1>4 DEF Takes, Observes, Others, RunGoes
  <1>5. ASSUME NEW i \in Instances, NEW fates \in [Sources -> Fates],
               Leaves(i, fates) \/ Releases(i, fates)
        PROVE  RunGoes(run[j], run'[j])
    BY <1>1, <1>5 DEF Leaves, Releases, Others, RunGoes
  <1>6. ASSUME NEW i \in Instances, Confirms(i) \/ Reserves(i) \/ Posts(i) \/ Repeats(i)
        PROVE  RunGoes(run[j], run'[j])
    <2>1. All("published") \in [Sources -> Fates]
      BY AllTypes DEF Fates
    <2>. QED
      BY <1>1, <1>6, <2>1 DEF Confirms, Reserves, Posts, Repeats, Others, RunGoes
  <1>7. ASSUME NEW r \in wire, Lands(r) \/ Departs(r) PROVE RunGoes(run[j], run'[j])
    BY <1>7 DEF Lands, Departs, RunGoes
  <1>. QED
    BY <1>3, <1>4, <1>5, <1>6, <1>7 DEF Kinds

-----------------------------------------------------------------------------
(* The requests under way belong to the runs that sent them.               *)

\* What a request carries was selected by its run, if that run is still the one under way.
WireFits ==
    \A r \in wire :
        /\ r.no <= runs /\ r.from \cap Labelled = {}
        /\ run[r.by].no = r.no =>
              /\ r.from \subseteq run[r.by].chosen
              /\ r.keys = {run[r.by].drafts[f] : f \in r.from}

OrderInv ==
    /\ UploadInv
    /\ \A i \in Instances : Orderly(run[i]) /\ run[i].no <= runs
    /\ WireFits

\* Runs are numbered one after another.
LEMMA RunsGrow ==
    ASSUME TypeOK, [Next]_vars
    PROVE  runs' = runs \/ runs' = runs + 1
  <1>1. ASSUME NEW i \in Instances, Worker(i) PROVE runs' = runs
    BY <1>1 DEF Worker, Reading, Sending, LoadPage, LoadFails, FeatureSkipped, FeaturePresent,
          FeatureHeld, FeatureTwin, FeatureTaken, FeatureGone, Raises, DropBatch, Reserve, Post,
          NeverSent, ReceiveCreated, ReceiveRefusal, ReceiveThrottle, ReceiveNothing, EndLayer,
          Finish, countVars
  <1>2. ASSUME NEW i \in Instances, Person(i) PROVE runs' = runs \/ runs' = runs + 1
    BY <1>2 DEF Person, Edit, Start, Cancel, ChangeConnection, Crash, countVars
  <1>3. CASE World
    BY <1>3 DEF World, Commit, Reject, OthersCreate, OthersDelete, OthersChange, Foreign, countVars
  <1>4. CASE UNCHANGED vars
    BY <1>4 DEF vars, countVars
  <1>. QED
    BY <1>1, <1>2, <1>3, <1>4 DEF Next

\* A request that was under way still fits the run which sent it.
LEMMA OldFits ==
    ASSUME OrderInv, [Next]_vars, Kinds, NEW r \in wire
    PROVE  /\ r.no <= runs' /\ r.from \cap Labelled = {}
           /\ run'[r.by].no = r.no =>
                 /\ r.from \subseteq run'[r.by].chosen
                 /\ r.keys = {run'[r.by].drafts[f] : f \in r.from}
  <1>1. Types /\ TypeOK
    BY DEF OrderInv, UploadInv, Types
  <1>2. r \in Requests /\ r.by \in Instances
    BY <1>1, RequestKeys
  <1>3. r.no \in 1..MaxRuns /\ runs \in 0..MaxRuns
    <2>1. r.no \in 1..MaxRuns
      BY <1>2, Zenon DEF Requests
    <2>. QED
      BY <1>1, <2>1 DEF TypeOK
  <1>4. MaxRuns \in Nat
    BY UploadAssumption DEF UploadAssumption
  <1>5. r.no <= runs /\ r.from \cap Labelled = {}
    BY DEF OrderInv, WireFits
  <1>6. runs' = runs \/ runs' = runs + 1
    BY <1>1, RunsGrow
  <1>7. r.no <= runs'
    BY <1>3, <1>4, <1>5, <1>6, SMT
  <1>8. run[r.by] \in GoodRuns /\ Orderly(run[r.by])
    BY <1>1, <1>2 DEF Types, OrderInv
  <1>9. RunGoes(run[r.by], run'[r.by])
    BY <1>2, RunsGo
  <1>10. CASE Keeps(run[r.by], run'[r.by])
    <2>1. SUFFICES ASSUME run'[r.by].no = r.no
                   PROVE  /\ r.from \subseteq run'[r.by].chosen
                          /\ r.keys = {run'[r.by].drafts[f] : f \in r.from}
      BY <1>5, <1>7
    <2>2. r.from \subseteq run[r.by].chosen /\ r.keys = {run[r.by].drafts[f] : f \in r.from}
      BY <1>10, <2>1 DEF Keeps, OrderInv, WireFits
    <2>. QED
      BY <1>10, <2>2 DEF Keeps
  <1>11. CASE run'[r.by] = NoRun
    <2>1. run'[r.by].no # r.no
      BY <1>3, <1>4, <1>11, NoRunFacts, SMT
    <2>. QED
      BY <1>5, <1>7, <2>1
  <1>12. CASE Begun(run'[r.by])
    <2>1. run'[r.by].no # r.no
      BY <1>3, <1>4, <1>5, <1>6, <1>12, SMT DEF Begun
    <2>. QED
      BY <1>5, <1>7, <2>1
  <1>. QED
    BY <1>8, <1>9, <1>10, <1>11, <1>12, KeepsStep

\* Only a posted batch makes a request.
LEMMA WireSteps ==
    ASSUME Kinds
    PROVE  \/ wire' \subseteq wire
           \/ \E i \in Instances : Posts(i)
  BY DEF Kinds, Ordinary, Aside, Takes, Observes, Leaves, Releases, Confirms, Reserves,
         Reserve, Repeats, Lands, Commit, Departs, Reject, Answer, serverVars

\* Every step keeps the runs in order, and is of one of the kinds.
LEMMA OrderStep ==
    ASSUME OrderInv, [Next]_vars
    PROVE  OrderInv' /\ Kinds
  <1>1. Types /\ TypeOK /\ UploadInv
    BY DEF OrderInv, UploadInv, Types
  <1>2. Kinds
    BY <1>1, StepKinds DEF OrderInv
  <1>3. UploadInv'
    BY <1>1, UploadStep
  <1>4. \A i \in Instances : Orderly(run'[i])
    BY <1>1, <1>2, RunsGo, OrderlyStep DEF OrderInv, Types
  <1>5. ASSUME NEW i \in Instances PROVE run'[i].no <= runs'
    <2>1. runs \in 0..MaxRuns /\ run[i].no \in 0..MaxRuns /\ run[i].no <= runs
      <3>1. run[i] \in GoodRuns
        BY <1>1 DEF Types
      <3>. QED
        BY <1>1, <3>1, RunTypes DEF OrderInv, TypeOK
    <2>2. MaxRuns \in Nat
      BY UploadAssumption DEF UploadAssumption
    <2>3. runs' = runs \/ runs' = runs + 1
      BY <1>1, RunsGrow
    <2>4. Keeps(run[i], run'[i]) \/ run'[i] = NoRun \/ Begun(run'[i])
      BY <1>1, <1>2, RunsGo, KeepsStep DEF OrderInv, Types
    <2>5. run'[i].no \in {run[i].no, 0, runs'}
      BY <2>4, NoRunFacts DEF Keeps, Begun
    <2>. QED
      BY <2>1, <2>2, <2>3, <2>5, SMT
  <1>6. WireFits'
    <2>1. SUFFICES ASSUME NEW r \in wire'
                   PROVE  /\ r.no <= runs' /\ r.from \cap Labelled = {}
                          /\ run'[r.by].no = r.no =>
                                /\ r.from \subseteq run'[r.by].chosen
                                /\ r.keys = {run'[r.by].drafts[f] : f \in r.from}
      BY DEF WireFits
    <2>2. CASE r \in wire
      BY <1>2, <2>2, OldFits
    <2>3. ASSUME r \notin wire
          PROVE  /\ r.no <= runs' /\ r.from \cap Labelled = {}
                 /\ r.from \subseteq run'[r.by].chosen
                 /\ r.keys = {run'[r.by].drafts[f] : f \in r.from}
      <3>1. PICK i \in Instances : Posts(i)
        BY <1>2, <2>3, WireSteps
      <3>2. r = [by |-> i, no |-> run[i].no, from |-> run[i].chunk, keys |-> Batch(i)]
        BY <2>1, <2>3, <3>1 DEF Posts, Post
      <3>3. r.by = i /\ r.no = run[i].no /\ r.from = run[i].chunk /\ r.keys = Batch(i)
        BY <3>2
      <3>4. run'[i].no = run[i].no /\ run'[i].chosen = run[i].chosen
            /\ run'[i].drafts = run[i].drafts
        BY <3>1 DEF Posts, Moved, Alike, SameNo, SameReading
      <3>5. run[i].chunk \subseteq run[i].chosen /\ run[i].chosen \cap Labelled = {}
        BY <1>1, RunTypes DEF OrderInv, Orderly, Selects, Types
      <3>. QED
        BY <1>5, <3>3, <3>4, <3>5 DEF Batch
    <2>. QED
      BY <2>2, <2>3
  <1>. QED
    BY <1>2, <1>3, <1>4, <1>5, <1>6 DEF OrderInv

\* Before the first run everything is in order.
LEMMA OrderInit == Init => OrderInv
  <1>1. SUFFICES ASSUME Init PROVE OrderInv
    OBVIOUS
  <1>2. \A i \in Instances : run[i] = NoRun
    BY <1>1 DEF Init
  <1>3. Orderly(NoRun)
    BY NoRunFacts DEF Orderly, Selects, Counts, Before, Sent
  <1>4. NoRun.no <= runs
    BY <1>1, NoRunFacts DEF Init
  <1>. QED
    BY <1>1, <1>2, <1>3, <1>4, UploadInit DEF OrderInv, WireFits, Init

\* A feature is created only by a request which lands.
LEMMA MadeSteps ==
    ASSUME Kinds
    PROVE  made' = made \/ \E r \in wire : Lands(r)
  BY DEF Kinds, Ordinary, Aside, Takes, Observes, Leaves, Releases, Confirms, Reserves,
         Reserve, Posts, Post, Repeats, Departs, Reject, historyVars

LabelInv == OrderInv /\ LabelsAreNotRecreated

\* A copy of a server label is never created as a new feature: no run selects it, so no
\* request carries it, whatever becomes of the label.
THEOREM LabelsStay == Spec => []LabelsAreNotRecreated
  <1>1. Init => LabelInv
    <2>1. Init => LabelsAreNotRecreated
      BY UploadAssumption DEF Init, LabelsAreNotRecreated, UploadAssumption
    <2>. QED
      BY <2>1, OrderInit DEF LabelInv
  <1>2. LabelInv /\ [Next]_vars => LabelInv'
    <2>1. SUFFICES ASSUME LabelInv, [Next]_vars PROVE LabelInv'
      OBVIOUS
    <2>2. OrderInv' /\ Kinds
      BY <2>1, OrderStep DEF LabelInv
    <2>3. ASSUME NEW f \in Labelled PROVE made'[f] = 0
      <3>1. f \in Sources /\ made[f] = 0
        BY <2>1, UploadAssumption DEF LabelInv, LabelsAreNotRecreated, UploadAssumption
      <3>2. ASSUME NEW r \in wire, Lands(r) PROVE made'[f] = 0
        <4>1. f \notin r.from
          BY <2>1 DEF LabelInv, OrderInv, WireFits
        <4>2. made' = [g \in Sources |-> IF g \in r.from THEN made[g] + 1 ELSE made[g]]
          BY <3>2 DEF Lands, Commit
        <4>. QED
          BY <3>1, <4>1, <4>2
      <3>. QED
        BY <2>2, <3>1, <3>2, MadeSteps
    <2>. QED
      BY <2>2, <2>3 DEF LabelInv, LabelsAreNotRecreated
  <1>. QED
    BY <1>1, <1>2, PTL DEF Spec, LabelInv

-----------------------------------------------------------------------------
(* A local feature is uploaded once.                                       *)

\* Where the server offers the bulk create, a refused batch gives up its rows, those
\* which another instance has confirmed meanwhile included: one instance is assumed there.
AloneIfBulk == Bulk => \A i, j \in Instances : i = j

SentSource(f) == \E r \in wire : f \in r.from

\* A feature which was sent is recorded in table sources.
SentOnce == \A r \in wire : \A f \in r.from : refs[f] # NoKey /\ made[f] = 0

SentApart == \A r, s \in wire : r # s => r.from \cap s.from = {}

MadeOnce == \A f \in Sources : made[f] # 0 => made[f] = 1 /\ refs[f] # NoKey

RefsHeld == \A f \in Sources : refs[f] # NoKey => ledger[refs[f]] # "none"

Recorded(i) == Sends(i) => \A f \in run[i].chunk : refs[f] # NoKey

\* The rows which a refusal gives up are those of the batch.
Own(i) ==
    Sends(i) /\ Bulk => \A f \in Sources : refs[f] \in Batch(i) => f \in run[i].chunk

NotMade(i) == Unsent(i) => \A f \in run[i].chunk : made[f] = 0 /\ ~SentSource(f)

ChunksApart(i, j) ==
    i # j /\ Sends(i) /\ Sends(j) => run[i].chunk \cap run[j].chunk = {}

Sourced ==
    /\ SentOnce /\ SentApart /\ MadeOnce /\ RefsHeld
    /\ \A i \in Instances : Recorded(i) /\ Own(i) /\ NotMade(i)
    /\ \A i, j \in Instances : ChunksApart(i, j)

SourceInv == OrderInv /\ Sourced

\* What the invariant says of types.
LEMMA OrderTypes ==
    ASSUME OrderInv
    PROVE  /\ Types /\ TypeOK /\ Safe
           /\ \A i \in Instances : run[i] \in GoodRuns /\ Orderly(run[i])
  BY DEF OrderInv, UploadInv, Types

\* What is in a batch was selected and has a key.
LEMMA BatchFacts ==
    ASSUME Types, NEW i \in Instances
    PROVE  /\ run[i].chunk \subseteq Sources /\ run[i].chunk \subseteq run[i].chosen
           /\ \A f \in run[i].chunk : run[i].drafts[f] \in Keys /\ run[i].drafts[f] \in Batch(i)
  <1>1. run[i] \in GoodRuns
    BY DEF Types
  <1>. QED
    BY <1>1, RunTypes DEF Batch

\* Where no batch is touched, an instance sends the batch it was sending.
LEMMA QuietSends ==
    ASSUME QuietRuns
    PROVE  \A j \in Instances :
              \/ ~Sends(j)' /\ ~Unsent(j)'
              \/ /\ Sends(j) /\ Batch(j)' = Batch(j) /\ run'[j].chunk = run[j].chunk
                 /\ Unsent(j)' => Unsent(j)
  BY SMT DEF QuietRuns, Quiet, Sends, Unsent, Batch

\* Where no batch is touched, a feature stays recorded if its row does.
LEMMA QuietSourced ==
    ASSUME Sourced, QuietRuns, UNCHANGED <<wire, made>>,
           \A f \in Sources : refs[f] # NoKey => refs'[f] # NoKey,
           Types, RefsHeld', \A j \in Instances : Own(j)'
    PROVE  Sourced'
  <1>1. \A j \in Instances : run[j].chunk \subseteq Sources
    BY BatchFacts
  <1>2. \A r \in wire : r.from \subseteq Sources
    BY RequestKeys, SMT DEF Requests
  <1>3. \A f : SentSource(f)' = SentSource(f)
    BY DEF SentSource
  <1>4. SentOnce' /\ SentApart' /\ MadeOnce'
    BY <1>2 DEF Sourced, SentOnce, SentApart, MadeOnce
  <1>5. \A j \in Instances : Recorded(j)' /\ NotMade(j)'
    BY <1>1, <1>3, QuietSends DEF Sourced, Recorded, NotMade
  <1>6. \A i, j \in Instances : ChunksApart(i, j)'
    BY QuietSends DEF Sourced, ChunksApart
  <1>. QED
    BY <1>4, <1>5, <1>6 DEF Sourced

\* The journal is left as it is, or a batch which was created becomes confirmed.
LEMMA KeptSourced ==
    ASSUME Sourced, Types, QuietRuns, UNCHANGED <<wire, made, refs>>,
           \A k \in Keys : ledger[k] # "none" => ledger'[k] # "none"
    PROVE  Sourced'
  <1>1. RefsHeld'
    <2>1. \A f \in Sources : refs[f] # NoKey => refs[f] \in Keys
      BY DEF Types, TypeOK, Maybe
    <2>. QED
      BY <2>1 DEF Sourced, RefsHeld
  <1>2. \A j \in Instances : Own(j)'
    BY QuietSends DEF Sourced, Own
  <1>. QED
    BY <1>1, <1>2, QuietSourced

\* A feature found on the server may move to the key it was found under.
LEMMA ObserveSourced ==
    ASSUME Sourced, Types, AloneIfBulk, NEW i \in Instances, NEW f \in Sources,
           NEW k \in Keys, Observes(i, f, k)
    PROVE  Sourced'
  <1>1. refs' = [refs EXCEPT ![f] = k] /\ ledger' = [ledger EXCEPT ![k] = "confirmed"]
    BY DEF Observes, Observe
  <1>2. refs \in [Sources -> Maybe] /\ ledger \in [Keys -> {"none", "uncertain", "confirmed"}]
    BY DEF Types, TypeOK
  <1>3. k # NoKey
    BY UploadAssumption DEF UploadAssumption
  <1>4. \A g \in Sources : refs[g] # NoKey => refs'[g] # NoKey
    BY <1>1, <1>2, <1>3
  <1>5. RefsHeld'
    BY <1>1, <1>2, <1>3 DEF Sourced, RefsHeld, Maybe
  <1>6. \A j \in Instances : Own(j)'
    <2>1. ~Sends(i)'
      BY DEF Observes, Drafted, SameWay, Sends
    <2>. QED
      BY <2>1 DEF AloneIfBulk, Own
  <1>. QED
    BY <1>4, <1>5, <1>6, QuietSourced DEF Observes

\* A reserved batch records features which no request carries and no run has created.
LEMMA ReserveSourced ==
    ASSUME Sourced, OrderInv, NEW i \in Instances, Reserves(i)
    PROVE  Sourced'
  <1>1. Types /\ TypeOK
    BY OrderTypes
  <1>. DEFINE C == run[i].chunk
  <1>2. /\ run'[i].chunk = C /\ run'[i].drafts = run[i].drafts
        /\ \A j \in Instances : j # i => run'[j] = run[j]
    BY DEF Reserves, Moved, Alike, SameReading, Others
  <1>3. \A j \in Instances : run'[j].chunk = run[j].chunk /\ Batch(j)' = Batch(j)
    BY <1>2 DEF Batch
  <1>4. /\ C \subseteq Sources
        /\ \A f \in C : run[i].drafts[f] \in Keys /\ run[i].drafts[f] \in Batch(i)
    BY <1>1, BatchFacts
  <1>5. \A f \in C : refs[f] = NoKey /\ ledger[run[i].drafts[f]] = "none"
    BY DEF Reserves, Reserve
  <1>6. /\ refs' = [f \in Sources |-> IF f \in C THEN run[i].drafts[f] ELSE refs[f]]
        /\ ledger' = [k \in Keys |-> IF k \in Batch(i) THEN "uncertain" ELSE ledger[k]]
        /\ UNCHANGED <<wire, made>>
    BY DEF Reserves, Reserve, serverVars, historyVars
  <1>. HIDE DEF C
  <1>7. NoKey \notin Keys
    BY UploadAssumption DEF UploadAssumption
  <1>8. \A f \in C : refs'[f] # NoKey
    BY <1>4, <1>6, <1>7
  <1>9. \A f \in Sources : f \notin C => refs'[f] = refs[f]
    BY <1>6
  <1>10. \A f \in C : made[f] = 0 /\ ~SentSource(f)
    <2>1. \A f \in C : made[f] = 0
      BY <1>4, <1>5 DEF Sourced, MadeOnce
    <2>2. \A f \in C : ~SentSource(f)
      BY <1>5 DEF Sourced, SentOnce, SentSource
    <2>. QED
      BY <2>1, <2>2
  <1>11. \A r \in wire : r.from \subseteq Sources
    BY <1>1, RequestKeys, SMT DEF Requests
  <1>12. \A j \in Instances : j # i => Sends(j)' = Sends(j) /\ Unsent(j)' = Unsent(j)
    BY <1>2 DEF Sends, Unsent
  <1>13. \A f : SentSource(f)' = SentSource(f)
    BY <1>6 DEF SentSource
  <1>14. SentOnce' /\ SentApart' /\ MadeOnce'
    BY <1>6, <1>8, <1>9, <1>11 DEF Sourced, SentOnce, SentApart, MadeOnce
  <1>15. RefsHeld'
    <2>1. SUFFICES ASSUME NEW f \in Sources, refs'[f] # NoKey PROVE ledger'[refs'[f]] # "none"
      BY DEF RefsHeld
    <2>2. CASE f \in C
      BY <1>4, <1>6, <2>1, <2>2
    <2>3. CASE f \notin C
      <3>1. refs'[f] = refs[f] /\ refs[f] \in Keys /\ ledger[refs[f]] # "none"
        BY <1>1, <1>9, <2>1, <2>3 DEF Sourced, RefsHeld, TypeOK, Maybe
      <3>. QED
        BY <1>6, <3>1
    <2>. QED
      BY <2>2, <2>3
  <1>16. \A j \in Instances : run[j].chunk \subseteq Sources
    BY <1>1, BatchFacts
  <1>17. \A j \in Instances : Recorded(j)' /\ NotMade(j)'
    BY <1>2, <1>3, <1>6, <1>8, <1>9, <1>10, <1>12, <1>13, <1>16
       DEF Sourced, Recorded, NotMade
  <1>18. \A j \in Instances : Own(j)'
    <2>1. SUFFICES ASSUME NEW j \in Instances, Sends(j)', Bulk, NEW f \in Sources,
                          refs'[f] \in Batch(j)
                   PROVE  f \in run[j].chunk
      BY <1>3 DEF Own
    <2>2. Batch(j) \subseteq Keys /\ Batch(i) \subseteq Keys
      BY <1>1, BatchKeys
    <2>3. CASE j = i
      <3>1. ASSUME f \notin C PROVE FALSE
        <4>1. refs[f] \in Batch(i) /\ refs[f] # NoKey
          BY <1>7, <1>9, <2>1, <2>2, <2>3, <3>1
        <4>2. ledger[refs[f]] = "none"
          BY <1>5, <4>1 DEF Batch, C
        <4>. QED
          BY <4>1, <4>2 DEF Sourced, RefsHeld
      <3>. QED
        BY <2>3, <3>1 DEF C
    <2>4. CASE j # i
      <3>1. Sends(j) /\ Batch(i) \cap Batch(j) = {}
        <4>1. Sends(j) /\ \A k \in Batch(j) : ledger[k] # "none"
          BY <1>12, <2>1, <2>4, OrderTypes DEF Safe, Held
        <4>. QED
          BY <1>5, <4>1 DEF Batch, C
      <3>2. f \notin C
        BY <1>4, <1>6, <2>1, <3>1
      <3>3. refs[f] \in Batch(j)
        BY <1>9, <2>1, <3>2
      <3>. QED
        BY <2>1, <3>1, <3>3 DEF Sourced, Own
    <2>. QED
      BY <2>3, <2>4
  <1>19. \A g, j \in Instances : ChunksApart(g, j)'
    <2>1. \A j \in Instances : j # i /\ Sends(j) => C \cap run[j].chunk = {}
      BY <1>5 DEF Sourced, Recorded
    <2>. QED
      BY <1>2, <1>3, <1>12, <2>1 DEF Sourced, ChunksApart, C
  <1>. QED
    BY <1>14, <1>15, <1>17, <1>18, <1>19 DEF Sourced

\* A posted request carries features which no other request carries.
LEMMA PostSourced ==
    ASSUME Sourced, OrderInv, NEW i \in Instances, Posts(i)
    PROVE  Sourced'
  <1>. DEFINE q == [by |-> i, no |-> run[i].no, from |-> run[i].chunk, keys |-> Batch(i)]
  <1>1. Types
    BY OrderTypes
  <1>2. /\ run'[i].chunk = run[i].chunk /\ run'[i].drafts = run[i].drafts
        /\ run'[i].phase = "posted" /\ run'[i].reply = "none"
        /\ \A j \in Instances : j # i => run'[j] = run[j]
    BY DEF Posts, Moved, Alike, SameReading, Others
  <1>3. \A j \in Instances : run'[j].chunk = run[j].chunk /\ Batch(j)' = Batch(j)
    BY <1>2 DEF Batch
  <1>4. wire' = wire \cup {q} /\ q.from = run[i].chunk
    BY DEF Posts, Post
  <1>5. UNCHANGED <<ledger, refs, made>>
    BY DEF Posts, Post, journalVars, historyVars
  <1>. HIDE DEF q
  <1>6. Sends(i) /\ Unsent(i)
    BY DEF Posts, Post, Sends, Unsent
  <1>7. \A f \in run[i].chunk : refs[f] # NoKey /\ made[f] = 0 /\ ~SentSource(f)
    BY <1>6 DEF Sourced, Recorded, NotMade
  <1>8. \A j \in Instances : Sends(j)' = Sends(j)
    BY <1>2, <1>6, SMT DEF Sends
  <1>9. \A j \in Instances : Unsent(j)' => j # i /\ Unsent(j) /\ Sends(j)
    BY <1>2, SMT DEF Unsent, Sends
  <1>10. SentOnce'
    BY <1>4, <1>5, <1>7 DEF Sourced, SentOnce
  <1>11. SentApart'
    BY <1>4, <1>7 DEF Sourced, SentApart, SentSource
  <1>12. MadeOnce' /\ RefsHeld'
    BY <1>5 DEF Sourced, MadeOnce, RefsHeld
  <1>13. \A j \in Instances : Recorded(j)' /\ Own(j)'
    BY <1>3, <1>5, <1>8 DEF Sourced, Recorded, Own
  <1>14. \A j \in Instances : NotMade(j)'
    <2>1. SUFFICES ASSUME NEW j \in Instances, Unsent(j)', NEW f \in run[j].chunk
                   PROVE  made'[f] = 0 /\ ~SentSource(f)'
      BY <1>3 DEF NotMade
    <2>2. j # i /\ Unsent(j) /\ Sends(j)
      BY <1>9, <2>1
    <2>3. made[f] = 0 /\ ~SentSource(f) /\ f \notin run[i].chunk
      BY <1>6, <2>2 DEF Sourced, NotMade, ChunksApart
    <2>. QED
      BY <1>4, <1>5, <2>3 DEF SentSource
  <1>15. \A g, j \in Instances : ChunksApart(g, j)'
    BY <1>3, <1>8 DEF Sourced, ChunksApart
  <1>. QED
    BY <1>10, <1>11, <1>12, <1>13, <1>14, <1>15 DEF Sourced

\* A batch goes back to be sent again.
LEMMA RepeatSourced ==
    ASSUME Sourced, NEW i \in Instances, Repeats(i)
    PROVE  Sourced'
  <1>1. /\ run'[i].chunk = run[i].chunk /\ run'[i].drafts = run[i].drafts
        /\ run'[i].phase = "reserved"
        /\ \A j \in Instances : j # i => run'[j] = run[j]
    BY DEF Repeats, Moved, Alike, SameReading, Others
  <1>2. \A j \in Instances : run'[j].chunk = run[j].chunk /\ Batch(j)' = Batch(j)
    BY <1>1 DEF Batch
  <1>3. Sends(i) /\ Unsent(i)
    BY DEF Repeats, Sends, Unsent
  <1>4. \A j \in Instances : Sends(j)' = Sends(j) /\ (Unsent(j)' => Unsent(j))
    BY <1>1, <1>3, SMT DEF Sends, Unsent
  <1>5. UNCHANGED <<wire, ledger, refs, made>>
    BY DEF Repeats, Aside
  <1>. QED
    BY <1>2, <1>4, <1>5 DEF Sourced, SentOnce, SentApart, MadeOnce, RefsHeld, Recorded, Own,
                           NotMade, ChunksApart, SentSource

\* A refusal gives up the rows of its own batch, which is neither stored nor under way.
LEMMA ReleaseSourced ==
    ASSUME Sourced, Types, AloneIfBulk, NEW i \in Instances, NEW fates, Releases(i, fates)
    PROVE  Sourced'
  <1>1. CASE ~Bulk
    BY <1>1, KeptSourced DEF Releases, FinishMissing, FinishUncertain, journalVars
  <1>2. CASE Bulk
    <2>1. \A j \in Instances : j = i
      BY <1>2 DEF AloneIfBulk
    <2>2. run'[i].phase = "reading"
      BY DEF Releases, Counted
    <2>3. \A j \in Instances : ~Sends(j)' /\ ~Unsent(j)'
      BY <2>1, <2>2 DEF Sends, Unsent
    <2>4. /\ ledger' = [k \in Keys |-> IF k \in Batch(i) THEN "none" ELSE ledger[k]]
          /\ refs' = [f \in Sources |-> IF refs[f] \in Batch(i) THEN NoKey ELSE refs[f]]
      BY <1>2 DEF Releases, FinishMissing, FinishNotCreated
    <2>5. UNCHANGED <<wire, made>> /\ Sends(i) /\ Unsent(i)
      BY DEF Releases, Unsent, Sends
    <2>6. \A f \in Sources : refs[f] \in Batch(i) => made[f] = 0 /\ ~SentSource(f)
      BY <1>2, <2>5 DEF Sourced, Own, NotMade
    <2>7. \A f \in Sources : refs[f] \notin Batch(i) => refs'[f] = refs[f]
      BY <2>4
    <2>8. \A r \in wire : r.from \subseteq Sources
      BY RequestKeys, SMT DEF Requests
    <2>9. SentOnce' /\ SentApart' /\ MadeOnce'
      BY <2>5, <2>6, <2>7, <2>8 DEF Sourced, SentOnce, SentApart, MadeOnce, SentSource
    <2>10. RefsHeld'
      <3>1. SUFFICES ASSUME NEW f \in Sources, refs'[f] # NoKey
                     PROVE  ledger'[refs'[f]] # "none"
        BY DEF RefsHeld
      <3>2. refs[f] \notin Batch(i) /\ refs'[f] = refs[f]
        BY <2>4, <2>7, <3>1
      <3>3. refs[f] \in Keys /\ ledger[refs[f]] # "none"
        BY <3>1, <3>2 DEF Sourced, RefsHeld, Types, TypeOK, Maybe
      <3>. QED
        BY <2>4, <3>2, <3>3
    <2>. QED
      BY <2>3, <2>9, <2>10 DEF Sourced, Recorded, Own, NotMade, ChunksApart
  <1>. QED
    BY <1>1, <1>2

\* What an answered request carried is what the batch holds.
LEMMA CarriedByBatch ==
    ASSUME OrderInv, NEW r \in wire, NEW j \in Instances, j = r.by, run[j].no = r.no,
           Batch(j) = r.keys
    PROVE  r.from = run[j].chunk
  <1>1. r.from \subseteq run[j].chosen /\ r.keys = {run[j].drafts[f] : f \in r.from}
    BY DEF OrderInv, WireFits
  <1>2. run[j].chunk \subseteq run[j].chosen
    BY OrderTypes, BatchFacts
  <1>3. \A f, g \in run[j].chosen : run[j].drafts[f] = run[j].drafts[g] => f = g
    BY OrderTypes DEF Orderly, Selects
  <1>4. ASSUME NEW f \in run[j].chunk PROVE f \in r.from
    <2>1. run[j].drafts[f] \in {run[j].drafts[g] : g \in r.from}
      BY <1>1 DEF Batch
    <2>2. PICK g \in r.from : run[j].drafts[g] = run[j].drafts[f]
      BY <2>1
    <2>. QED
      BY <1>1, <1>2, <1>3, <2>2
  <1>5. ASSUME NEW f \in r.from PROVE f \in run[j].chunk
    <2>1. run[j].drafts[f] \in {run[j].drafts[g] : g \in run[j].chunk}
      BY <1>1 DEF Batch
    <2>2. PICK g \in run[j].chunk : run[j].drafts[g] = run[j].drafts[f]
      BY <2>1
    <2>. QED
      BY <1>1, <1>2, <1>3, <2>2
  <1>. QED
    BY <1>4, <1>5

\* A request was applied, or never will be.
LEMMA GoneSourced ==
    ASSUME Sourced, OrderInv, NEW r \in wire, Lands(r) \/ Departs(r)
    PROVE  Sourced'
  <1>1. \A j \in Instances :
          /\ run'[j].chunk = run[j].chunk /\ Batch(j)' = Batch(j) /\ Sends(j)' = Sends(j)
    BY DEF Lands, Departs, Moved, Alike, SameReading, Batch, Sends
  <1>2. wire' = wire \ {r} /\ UNCHANGED <<ledger, refs>>
    BY DEF Lands, Departs, Commit, Reject, Answer, journalVars
  <1>3. /\ r.from \subseteq Sources
        /\ \A s \in wire : s.from \subseteq Sources
    BY OrderTypes, RequestKeys, SMT DEF Requests
  <1>4. \A f \in Sources : made'[f] \in {made[f], IF f \in r.from THEN 1 ELSE made[f]}
    <2>1. CASE Lands(r)
      <3>1. \A f \in Sources : made'[f] = IF f \in r.from THEN made[f] + 1 ELSE made[f]
        BY <2>1 DEF Lands, Commit
      <3>2. \A f \in r.from : made[f] = 0
        BY DEF Sourced, SentOnce
      <3>. QED
        BY <3>1, <3>2, SMT
    <2>2. CASE Departs(r)
      BY <2>2 DEF Departs, Reject, historyVars
    <2>. QED
      BY <2>1, <2>2
  <1>5. SentApart'
    BY <1>2 DEF Sourced, SentApart
  <1>6. SentOnce'
    <2>1. SUFFICES ASSUME NEW s \in wire', NEW f \in s.from
                   PROVE  refs'[f] # NoKey /\ made'[f] = 0
      BY DEF SentOnce
    <2>2. s \in wire /\ s # r /\ f \notin r.from /\ f \in Sources
      BY <1>2, <1>3, <2>1 DEF Sourced, SentApart
    <2>. QED
      BY <1>2, <1>4, <2>1, <2>2 DEF Sourced, SentOnce
  <1>7. MadeOnce'
    BY <1>2, <1>3, <1>4 DEF Sourced, MadeOnce, SentOnce
  <1>8. RefsHeld' /\ \A j \in Instances : Recorded(j)' /\ Own(j)'
    BY <1>1, <1>2 DEF Sourced, RefsHeld, Recorded, Own
  <1>9. \A j \in Instances : NotMade(j)'
    <2>1. SUFFICES ASSUME NEW j \in Instances, Unsent(j)', NEW f \in run[j].chunk
                   PROVE  made'[f] = 0 /\ ~SentSource(f)'
      BY <1>1 DEF NotMade
    <2>2. f \in Sources
      BY OrderTypes, BatchFacts
    <2>3. CASE Unsent(j)
      <3>1. made[f] = 0 /\ ~SentSource(f)
        BY <2>3 DEF Sourced, NotMade
      <3>. QED
        BY <1>2, <1>4, <2>2, <3>1 DEF SentSource
    <2>4. CASE ~Unsent(j)
      <3>1. Departs(r) /\ Batch(j) = r.keys /\ j = r.by /\ run[j].no = r.no
        BY <2>1, <2>4, SMT DEF Lands, Departs, Unsent
      <3>2. f \in r.from
        BY <3>1, CarriedByBatch
      <3>3. made[f] = 0 /\ made' = made
        BY <3>1, <3>2 DEF Departs, Reject, historyVars, Sourced, SentOnce
      <3>4. ~SentSource(f)'
        BY <1>2, <3>2 DEF Sourced, SentApart, SentSource
      <3>. QED
        BY <3>3, <3>4
    <2>. QED
      BY <2>3, <2>4
  <1>10. \A g, j \in Instances : ChunksApart(g, j)'
    BY <1>1 DEF Sourced, ChunksApart
  <1>. QED
    BY <1>5, <1>6, <1>7, <1>8, <1>9, <1>10 DEF Sourced

\* One local feature is created on the server once, under whatever key it has had: by
\* one instance of QGIS, or by any number where features are sent one at a time.
THEOREM SourcesOnce ==
    ASSUME AloneIfBulk
    PROVE  Spec => []SourceOnce
  <1>1. Init => SourceInv
    <2>1. SUFFICES ASSUME Init PROVE SourceInv
      OBVIOUS
    <2>2. \A i \in Instances : ~Sends(i) /\ ~Unsent(i)
      BY <2>1, NoRunFacts DEF Init, Sends, Unsent
    <2>. QED
      BY <2>1, <2>2, OrderInit
         DEF Init, SourceInv, Sourced, SentOnce, SentApart, MadeOnce, RefsHeld, Recorded, Own,
             NotMade, ChunksApart
  <1>2. SourceInv /\ [Next]_vars => SourceInv'
    <2>1. SUFFICES ASSUME SourceInv, [Next]_vars PROVE SourceInv'
      OBVIOUS
    <2>1a. OrderInv /\ Sourced
      BY <2>1 DEF SourceInv
    <2>1b. OrderInv' /\ Kinds
      BY <2>1, <2>1a, OrderStep
    <2>1c. Types
      BY <2>1a, OrderTypes
    <2>2. OrderInv /\ Sourced /\ OrderInv' /\ Kinds /\ Types
      BY <2>1a, <2>1b, <2>1c
    <2>3. ASSUME Ordinary PROVE Sourced'
      <3>1. QuietRuns /\ UNCHANGED <<wire, made, refs, ledger>>
        BY <2>3 DEF Ordinary, Aside
      <3>. QED
        BY <2>2, <3>1, KeptSourced
    <2>4. ASSUME NEW i \in Instances, NEW f \in Sources, NEW k \in Keys, Takes(i, f, k)
          PROVE  Sourced'
      BY <2>2, <2>4, KeptSourced DEF Takes, Aside
    <2>5. ASSUME NEW i \in Instances, NEW f \in Sources, NEW k \in Keys, Observes(i, f, k)
          PROVE  Sourced'
      BY <2>2, <2>5, ObserveSourced
    <2>6. ASSUME NEW i \in Instances, NEW fates \in [Sources -> Fates], Leaves(i, fates)
          PROVE  Sourced'
      BY <2>2, <2>6, KeptSourced DEF Leaves, Aside
    <2>7. ASSUME NEW i \in Instances, NEW fates \in [Sources -> Fates], Releases(i, fates)
          PROVE  Sourced'
      BY <2>2, <2>7, ReleaseSourced
    <2>8. ASSUME NEW i \in Instances, Confirms(i) PROVE Sourced'
      <3>1. \A k \in Keys : ledger[k] # "none" => ledger'[k] # "none"
        BY <2>8 DEF Confirms, FinishConfirmed
      <3>. QED
        BY <2>2, <2>8, <3>1, KeptSourced DEF Confirms, FinishConfirmed
    <2>9. ASSUME NEW i \in Instances, Reserves(i) \/ Posts(i) \/ Repeats(i) PROVE Sourced'
      <3>1. CASE Reserves(i)
        BY <2>2, <3>1, ReserveSourced
      <3>2. CASE Posts(i)
        BY <2>2, <3>2, PostSourced
      <3>3. CASE Repeats(i)
        BY <2>2, <3>3, RepeatSourced
      <3>. QED
        BY <2>9, <3>1, <3>2, <3>3
    <2>10. ASSUME NEW r \in wire, Lands(r) \/ Departs(r) PROVE Sourced'
      <3>1. Sourced /\ OrderInv
        BY <2>2
      <3>. QED
        BY <2>10, <3>1, GoneSourced
    <2>11. Sourced'
      BY <2>2, <2>3, <2>4, <2>5, <2>6, <2>7, <2>8, <2>9, <2>10 DEF Kinds
    <2>. QED
      BY <2>2, <2>11 DEF SourceInv
  <1>3. SourceInv => SourceOnce
    <2>1. SUFFICES ASSUME SourceInv, NEW f \in Sources PROVE made[f] <= 1
      BY DEF SourceOnce
    <2>2. made[f] = 0 \/ made[f] = 1
      BY <2>1 DEF SourceInv, Sourced, MadeOnce
    <2>. QED
      BY <2>2, SMT
  <1>. QED
    BY <1>1, <1>2, <1>3, PTL DEF Spec

-----------------------------------------------------------------------------
(* What the report says.                                                   *)

\* A way to go on without counting a batch.
Calm(r, s) ==
    \/ Minds(r, s)
    \/ \E f \in Sources, k \in Keys : Took(r, s, f, k) \/ Drafted(r, s, f, k, "present")

\* Until a batch is counted, features which were sent or not stay what they were.
LEMMA CalmFates ==
    ASSUME NEW r \in GoodRuns, NEW s, Orderly(r), Calm(r, s)
    PROVE  \A g \in Sources :
              s.fate[g] \in Sent => s.fate[g] = r.fate[g] /\ s.drafts[g] = r.drafts[g]
  <1>1. r.drafts \in [Sources -> Maybe] /\ r.fate \in [Sources -> Fates]
    BY RunTypes
  <1>2. CASE Moved(r, s) \/ Listed(r, s)
    BY <1>2 DEF Moved, Listed, Alike, SameReading
  <1>3. CASE s = NoRun \/ Begun(s)
    BY <1>3, NoRunFacts DEF Begun, Sent
  <1>4. ASSUME NEW f \in Sources, Passed(r, s, f)
        PROVE  \A g \in Sources :
                  s.fate[g] \in Sent => s.fate[g] = r.fate[g] /\ s.drafts[g] = r.drafts[g]
    BY <1>4 DEF Passed
  <1>5. ASSUME NEW f \in Sources, NEW k \in Keys, NEW fate \in {"skipped", "held", "present"},
               Drafted(r, s, f, k, fate)
        PROVE  \A g \in Sources :
                  s.fate[g] \in Sent => s.fate[g] = r.fate[g] /\ s.drafts[g] = r.drafts[g]
    BY <1>1, <1>5 DEF Drafted, Sent
  <1>6. ASSUME NEW f \in Sources, NEW k \in Keys, Took(r, s, f, k)
        PROVE  \A g \in Sources :
                  s.fate[g] \in Sent => s.fate[g] = r.fate[g] /\ s.drafts[g] = r.drafts[g]
    <2>1. r.fate[f] = "none" /\ s.fate = r.fate
      BY <1>6 DEF Took, Orderly, Counts
    <2>. QED
      BY <1>1, <1>6, <2>1 DEF Took, Sent
  <1>. QED
    BY <1>2, <1>3, <1>4, <1>5, <1>6 DEF Calm, Minds

\* Each step leaves all runs calm, or counts one batch.
LEMMA CalmOrCounted ==
    ASSUME Kinds
    PROVE  \/ \A j \in Instances : Calm(run[j], run'[j])
           \/ \E i \in Instances, fates \in [Sources -> Fates] :
                 Leaves(i, fates) \/ Releases(i, fates)
           \/ \E i \in Instances : Confirms(i)
  <1>1. \A j \in Instances : Calm(run[j], run[j])
    BY StaysMinded DEF Calm, Minds
  <1>2. \A j \in Instances : Moved(run[j], run'[j]) => Calm(run[j], run'[j])
    BY DEF Calm, Minds
  <1>3. CASE Ordinary
    BY <1>3 DEF Ordinary, Calm
  <1>4. ASSUME NEW i \in Instances, NEW f \in Sources, NEW k \in Keys,
               Takes(i, f, k) \/ Observes(i, f, k)
        PROVE  \A j \in Instances : Calm(run[j], run'[j])
    BY <1>1, <1>4 DEF Takes, Observes, Others, Calm
  <1>5. ASSUME NEW i \in Instances, Reserves(i) \/ Posts(i) \/ Repeats(i)
        PROVE  \A j \in Instances : Calm(run[j], run'[j])
    BY <1>1, <1>2, <1>5 DEF Reserves, Posts, Repeats, Others
  <1>6. ASSUME NEW r \in wire, Lands(r) \/ Departs(r)
        PROVE  \A j \in Instances : Calm(run[j], run'[j])
    BY <1>2, <1>6 DEF Lands, Departs
  <1>. QED
    BY <1>3, <1>4, <1>5, <1>6 DEF Kinds

\* A batch whose answer says created was created, and so was what is reported published.
Created(i) ==
    run[i].phase = "posted" /\ run[i].reply = "created" =>
        \A k \in Batch(i) : landed[k] = 1

Published(i) ==
    \A f \in Sources : run[i].fate[f] = "published" => landed[run[i].drafts[f]] = 1

\* What a run reports as published was created by an upload, and not by others only.
PublishedIsCreated == \A i \in Instances : Published(i)

CreatedInv == OrderInv /\ \A i \in Instances : Created(i) /\ Published(i)

\* What landed has landed.
LEMMA LandedStays ==
    ASSUME OrderInv, Kinds, NEW k \in Keys, landed[k] = 1
    PROVE  landed'[k] = 1
  <1>1. ASSUME NEW r \in wire, Lands(r) PROVE landed'[k] = 1
    <2>1. k \notin r.keys
      BY OrderTypes DEF Safe, WireHeld
    <2>. QED
      BY <1>1, <2>1 DEF Lands, Commit
  <1>. QED
    BY <1>1 DEF Kinds, Ordinary, Aside, Takes, Observes, Leaves, Releases, Confirms, Reserves,
           Reserve, Posts, Post, Repeats, Departs, Reject, historyVars

\* An answer that says created stays true where no batch is touched.
LEMMA QuietCreated ==
    ASSUME OrderInv, Kinds, QuietRuns, NEW i \in Instances, Created(i)
    PROVE  Created(i)'
  <1>1. SUFFICES ASSUME run'[i].phase = "posted", run'[i].reply = "created", NEW k \in Batch(i)'
                 PROVE  landed'[k] = 1
    BY DEF Created
  <1>2. run[i].phase = "posted" /\ run[i].reply = "created" /\ Batch(i)' = Batch(i)
    BY <1>1 DEF QuietRuns, Quiet, Sends, Batch
  <1>3. landed[k] = 1 /\ k \in Keys
    BY <1>1, <1>2, OrderTypes, BatchKeys DEF Created
  <1>. QED
    BY <1>3, LandedStays

\* An answer that says created stays true.
LEMMA CreatedStep ==
    ASSUME OrderInv, Kinds, NEW j \in Instances, Created(j)
    PROVE  Created(j)'
  <1>1. CASE QuietRuns
    BY <1>1, QuietCreated
  <1>2. ASSUME NEW i \in Instances, Reserves(i) \/ Posts(i) \/ Repeats(i)
        PROVE  Created(j)'
    <2>1. CASE j = i
      BY <1>2, <2>1 DEF Reserves, Posts, Repeats, Created
    <2>2. CASE j # i
      <3>1. run'[j] = run[j]
        BY <1>2, <2>2 DEF Reserves, Posts, Repeats, Others
      <3>2. Batch(j)' = Batch(j) /\ Batch(j) \subseteq Keys
        BY <3>1, OrderTypes, BatchKeys DEF Batch
      <3>. QED
        BY <3>1, <3>2, LandedStays DEF Created
    <2>. QED
      BY <2>1, <2>2
  <1>3. ASSUME NEW r \in wire, Lands(r) \/ Departs(r) PROVE Created(j)'
    <2>1. SUFFICES ASSUME run'[j].phase = "posted", run'[j].reply = "created",
                          NEW k \in Batch(j)'
                   PROVE  landed'[k] = 1
      BY DEF Created
    <2>2. Batch(j)' = Batch(j) /\ run[j].phase = "posted" /\ Batch(j) \subseteq Keys
      BY <1>3, <2>1, OrderTypes, BatchKeys DEF Lands, Departs, Moved, Alike, SameReading, Batch
    <2>3. CASE run[j].reply = "created"
      <3>1. landed[k] = 1 /\ k \in Keys
        BY <2>1, <2>2, <2>3 DEF Created
      <3>. QED
        BY <3>1, LandedStays
    <2>4. CASE run[j].reply # "created"
      <3>1. Lands(r) /\ Batch(j) = r.keys
        BY <1>3, <2>1, <2>4 DEF Lands, Departs
      <3>2. k \in r.keys /\ k \in Keys /\ landed[k] = 0
        BY <2>1, <2>2, <3>1, OrderTypes DEF Safe, WireHeld
      <3>3. landed'[k] = landed[k] + 1
        BY <3>1, <3>2 DEF Lands, Commit
      <3>. QED
        BY <3>2, <3>3
    <2>. QED
      BY <2>3, <2>4
  <1>. QED
    BY <1>1, <1>2, <1>3
       DEF Kinds, Ordinary, Takes, Observes, Leaves, Releases, Confirms

\* What a run reports as published stays created.
LEMMA PublishedStep ==
    ASSUME OrderInv, OrderInv', Kinds, NEW j \in Instances, Created(j), Published(j)
    PROVE  Published(j)'
  <1>1. run[j] \in GoodRuns /\ Orderly(run[j])
    BY OrderTypes
  <1>2. SUFFICES ASSUME NEW f \in Sources, run'[j].fate[f] = "published"
                 PROVE  landed'[run'[j].drafts[f]] = 1
    BY DEF Published
  <1>3. SUFFICES landed[run'[j].drafts[f]] = 1 /\ run'[j].drafts[f] \in Keys
    BY LandedStays
  <1>4. ASSUME run[j].fate[f] = "published", run'[j].drafts[f] = run[j].drafts[f]
        PROVE  landed[run'[j].drafts[f]] = 1 /\ run'[j].drafts[f] \in Keys
    <2>1. f \in run[j].chosen
      BY <1>1, <1>4 DEF Orderly, Counts, Sent
    <2>. QED
      BY <1>1, <1>4, <2>1, RunTypes DEF Published
  <1>5. CASE \A i \in Instances : Calm(run[i], run'[i])
    <2>1. Calm(run[j], run'[j])
      BY <1>5
    <2>. QED
      BY <1>1, <1>2, <1>4, <2>1, CalmFates DEF Sent
  <1>6. ASSUME NEW i \in Instances, NEW fates \in [Sources -> Fates],
               Leaves(i, fates) \/ Releases(i, fates)
        PROVE  landed[run'[j].drafts[f]] = 1 /\ run'[j].drafts[f] \in Keys
    <2>1. run[j].fate[f] = "published" /\ run'[j].drafts[f] = run[j].drafts[f]
      <3>1. CASE j # i
        BY <1>2, <1>6, <3>1 DEF Leaves, Releases, Others
      <3>2. CASE j = i
        <4>1. Counted(run[i], run'[i], fates) /\ \A g \in run[i].chunk : fates[g] # "published"
          BY <1>6 DEF Leaves, Releases
        <4>. QED
          BY <1>2, <3>2, <4>1 DEF Counted
      <3>. QED
        BY <3>1, <3>2
    <2>. QED
      BY <1>4, <2>1
  <1>7. ASSUME NEW i \in Instances, Confirms(i)
        PROVE  landed[run'[j].drafts[f]] = 1 /\ run'[j].drafts[f] \in Keys
    <2>1. CASE j # i
      BY <1>2, <1>4, <1>7, <2>1 DEF Confirms, Others
    <2>2. CASE j = i
      <3>1. /\ run'[j].drafts = run[j].drafts
            /\ f \notin run[j].chunk => run[j].fate[f] = "published"
        BY <1>2, <1>7, <2>2 DEF Confirms, Counted
      <3>2. CASE f \in run[j].chunk
        <4>1. run[j].drafts[f] \in Batch(j) /\ run[j].drafts[f] \in Keys
          BY <3>2, OrderTypes, BatchFacts
        <4>. QED
          BY <1>7, <2>2, <3>1, <4>1 DEF Confirms, Created
      <3>. QED
        BY <1>4, <3>1, <3>2
    <2>. QED
      BY <2>1, <2>2
  <1>. QED
    BY <1>5, <1>6, <1>7, CalmOrCounted

\* Before the first run nothing is reported.
LEMMA CreatedInit == Init => CreatedInv
  <1>1. SUFFICES ASSUME Init PROVE CreatedInv
    OBVIOUS
  <1>2. \A i \in Instances : run[i] = NoRun
    BY <1>1 DEF Init
  <1>. QED
    BY <1>1, <1>2, OrderInit, NoRunFacts DEF CreatedInv, Created, Published

\* Every step keeps answers and reports of success true.
LEMMA CreatedInvStep ==
    ASSUME CreatedInv, [Next]_vars
    PROVE  CreatedInv' /\ Kinds
  <1>1. OrderInv /\ OrderInv' /\ Kinds
    BY OrderStep DEF CreatedInv
  <1>2. \A i \in Instances : Created(i)' /\ Published(i)'
    BY <1>1, CreatedStep, PublishedStep DEF CreatedInv
  <1>. QED
    BY <1>1, <1>2 DEF CreatedInv

\* Published in the report means created, whichever instances share the journal and
\* whether features are sent in bulk or one at a time.
THEOREM PublishedAreCreated == Spec => []PublishedIsCreated
  <1>1. CreatedInv /\ [Next]_vars => CreatedInv'
    BY CreatedInvStep
  <1>2. CreatedInv => PublishedIsCreated
    BY DEF CreatedInv, PublishedIsCreated
  <1>. QED
    BY <1>1, <1>2, CreatedInit, PTL DEF Spec

\* One instance, and the server's atomic bulk create: one at a time, a create which was
\* not answered is reported as failed or not sent though it may land, and what one
\* instance did not send, another may.
AloneInBulk == Bulk /\ \A i, j \in Instances : i = j

Missing == {"notSent", "notCreated", "failed"}

\* What is selected and not yet sent has no row; nor has what is reported as not there.
Waits(i) ==
    run[i].phase # "closing" =>
        \A f \in run[i].chosen :
            run[i].fate[f] = "none" /\ (f \notin run[i].chunk \/ ~Sends(i)) =>
                ledger[run[i].drafts[f]] = "none"

Absent(i) ==
    \A f \in Sources : run[i].fate[f] \in Missing => ledger[run[i].drafts[f]] = "none"

ReportInv == CreatedInv /\ \A i \in Instances : Waits(i) /\ Absent(i)

\* Keys of features which were selected, and those the batch holds.
LEMMA ChosenKeys ==
    ASSUME OrderInv, NEW i \in Instances, NEW f \in run[i].chosen
    PROVE  /\ run[i].drafts[f] \in Keys /\ f \in Sources
           /\ run[i].drafts[f] \in Batch(i) => f \in run[i].chunk
  <1>1. run[i] \in GoodRuns /\ Orderly(run[i])
    BY OrderTypes
  <1>2. run[i].drafts[f] \in Keys /\ f \in Sources /\ run[i].chunk \subseteq run[i].chosen
    BY <1>1, RunTypes
  <1>3. ASSUME run[i].drafts[f] \in Batch(i) PROVE f \in run[i].chunk
    <2>1. PICK g \in run[i].chunk : run[i].drafts[f] = run[i].drafts[g]
      BY <1>3 DEF Batch
    <2>2. \A a, b \in run[i].chosen : run[i].drafts[a] = run[i].drafts[b] => a = b
      BY <1>1 DEF Orderly, Selects
    <2>. QED
      BY <1>2, <2>1, <2>2
  <1>. QED
    BY <1>2, <1>3

\* Only counting a batch, entering it in the journal or seeing a feature on the server
\* matters to rows which are not there.
LEMMA CalmWaits ==
    ASSUME OrderInv, OrderInv', NEW i \in Instances, Waits(i), ledger' = ledger,
           Minds(run[i], run'[i])
    PROVE  Waits(i)'
  <1>1. run[i] \in GoodRuns /\ Orderly(run[i])
    BY OrderTypes
  <1>1a. run'[i].phase \in Phases
    <2>1. run'[i] \in GoodRuns
      BY OrderTypes DEF OrderInv, UploadInv, Types
    <2>. QED
      BY <2>1, RunTypes
  <1>2. SUFFICES ASSUME run'[i].phase # "closing", NEW f \in run'[i].chosen,
                        run'[i].fate[f] = "none", f \notin run'[i].chunk \/ ~Sends(i)'
                 PROVE  ledger[run'[i].drafts[f]] = "none"
    BY DEF Waits
  <1>3. ASSUME run[i].phase # "closing", run'[i].chosen = run[i].chosen, run'[i].chunk = run[i].chunk,
               run[i].fate[f] = "none", run'[i].drafts[f] = run[i].drafts[f],
               Sends(i) => Sends(i)'
        PROVE  ledger[run'[i].drafts[f]] = "none"
    BY <1>2, <1>3 DEF Waits
  <1>4. CASE Moved(run[i], run'[i])
    <2>1. /\ run'[i].chosen = run[i].chosen /\ run'[i].chunk = run[i].chunk
          /\ run'[i].fate = run[i].fate /\ run'[i].drafts = run[i].drafts
      BY <1>4 DEF Moved, Alike, SameReading
    <2>2. run[i].phase # "closing"
      BY <1>2, <1>4 DEF Moved
    <2>4. Sends(i) => Sends(i)'
      BY <1>1a, <1>2, <1>4 DEF Moved, Sends, Phases, Before
    <2>. QED
      BY <1>2, <1>3, <2>1, <2>2, <2>4
  <1>5. CASE run'[i] = NoRun \/ Begun(run'[i])
    BY <1>2, <1>5, NoRunFacts DEF Begun
  <1>6. CASE Listed(run[i], run'[i])
    <2>1. run[i].chosen = {} /\ run'[i].chosen = run[i].chosen
      BY <1>1, <1>6 DEF Listed, SameReading, Orderly, Selects, Before
    <2>. QED
      BY <1>2, <2>1
  <1>7. ASSUME NEW g \in Sources, Passed(run[i], run'[i], g)
        PROVE  ledger[run'[i].drafts[f]] = "none"
    BY <1>2, <1>3, <1>7 DEF Passed, SameWay, Sends
  <1>8. ASSUME NEW g \in Sources, NEW k \in Keys, NEW fate, Drafted(run[i], run'[i], g, k, fate)
        PROVE  ledger[run'[i].drafts[f]] = "none"
    <2>1. f # g /\ f \in Sources
      BY <1>1, <1>2, <1>8, RunTypes DEF Drafted, Orderly, Selects
    <2>2. run'[i].drafts[f] = run[i].drafts[f] /\ run'[i].fate[f] = run[i].fate[f]
      BY <1>1, <1>8, <2>1, RunTypes DEF Drafted
    <2>. QED
      BY <1>2, <1>3, <1>8, <2>2 DEF Drafted, SameWay, Sends
  <1>. QED
    BY <1>4, <1>5, <1>6, <1>7, <1>8 DEF Minds

\* What waits to be sent has no row until it is reserved.
LEMMA WaitsStep ==
    ASSUME OrderInv, OrderInv', Kinds, AloneInBulk, NEW i \in Instances, Waits(i)
    PROVE  Waits(i)'
  <1>1. run[i] \in GoodRuns /\ Orderly(run[i])
    BY OrderTypes
  <1>2. \A j \in Instances : j = i
    BY DEF AloneInBulk
  <1>3. CASE Ordinary
    BY <1>3, CalmWaits DEF Ordinary, Aside
  <1>4. ASSUME NEW r \in wire, Lands(r) \/ Departs(r) PROVE Waits(i)'
    BY <1>4, CalmWaits DEF Lands, Departs, Commit, Reject, journalVars, Minds
  <1>5. CASE Posts(i) \/ Repeats(i)
    BY <1>5, CalmWaits DEF Posts, Post, Repeats, Aside, journalVars, Minds
  <1>6. ASSUME NEW f \in Sources, NEW k \in Keys, Takes(i, f, k) PROVE Waits(i)'
    <2>1. /\ run[i].phase = "reading" /\ run'[i].phase = "reading" /\ ledger' = ledger
          /\ run'[i].fate = run[i].fate /\ run'[i].chosen = run[i].chosen \cup {f}
          /\ run'[i].drafts = [run[i].drafts EXCEPT ![f] = k] /\ ledger[k] = "none"
      BY <1>6 DEF Takes, Took, SameWay, Aside
    <2>2. \A g \in Sources : run'[i].drafts[g] = IF g = f THEN k ELSE run[i].drafts[g]
      BY <1>1, <2>1, RunTypes
    <2>3. run[i].chosen \subseteq Sources
      BY <1>1, RunTypes
    <2>. QED
      BY <2>1, <2>2, <2>3 DEF Waits, Sends
  <1>7. ASSUME NEW f \in Sources, NEW k \in Keys, Observes(i, f, k) PROVE Waits(i)'
    <2>1. /\ run[i].phase = "reading" /\ run'[i].phase = "reading" /\ f \in run[i].unread
          /\ run'[i].fate = [run[i].fate EXCEPT ![f] = "present"]
          /\ run'[i].chosen = run[i].chosen
          /\ run'[i].drafts = [run[i].drafts EXCEPT ![f] = k]
          /\ k \in run[i].seen /\ ledger' = [ledger EXCEPT ![k] = "confirmed"]
      BY <1>7 DEF Observes, Observe, Drafted, SameWay
    <2>2. SUFFICES ASSUME NEW g \in run[i].chosen, run'[i].fate[g] = "none"
                   PROVE  ledger'[run'[i].drafts[g]] = "none"
      BY <2>1 DEF Waits
    <2>3. g # f /\ g \in Sources /\ run[i].drafts[g] # k
      BY <1>1, <2>1, RunTypes DEF Orderly, Selects
    <2>4. run'[i].drafts[g] = run[i].drafts[g] /\ run[i].fate[g] = "none"
      BY <1>1, <2>1, <2>2, <2>3, RunTypes
    <2>5. ledger[run[i].drafts[g]] = "none" /\ run[i].drafts[g] \in Keys
      BY <2>1, <2>4, ChosenKeys DEF Waits, Sends
    <2>6. ledger \in [Keys -> {"none", "uncertain", "confirmed"}]
      BY OrderTypes DEF TypeOK
    <2>. QED
      BY <2>1, <2>3, <2>4, <2>5, <2>6
  <1>8. CASE Reserves(i)
    <2>1. /\ run[i].phase = "reading" /\ run'[i].phase = "reserved"
          /\ ledger' = [k \in Keys |-> IF k \in Batch(i) THEN "uncertain" ELSE ledger[k]]
          /\ run'[i].fate = run[i].fate /\ run'[i].chosen = run[i].chosen
          /\ run'[i].chunk = run[i].chunk /\ run'[i].drafts = run[i].drafts
      BY <1>8 DEF Reserves, Reserve, Due, Moved, Alike, SameReading
    <2>2. SUFFICES ASSUME NEW g \in run[i].chosen, run[i].fate[g] = "none", g \notin run[i].chunk
                   PROVE  ledger'[run[i].drafts[g]] = "none"
      BY <2>1 DEF Waits, Sends
    <2>3. run[i].drafts[g] \in Keys /\ run[i].drafts[g] \notin Batch(i)
      BY <2>2, ChosenKeys
    <2>. QED
      BY <2>1, <2>2, <2>3 DEF Waits
  <1>9. ASSUME NEW fates \in [Sources -> Fates],
               Leaves(i, fates) \/ Releases(i, fates) \/ (Confirms(i) /\ fates = All("published"))
        PROVE  Waits(i)'
    <2>1. Counted(run[i], run'[i], fates)
      BY <1>9 DEF Leaves, Releases, Confirms
    <2>2. SUFFICES ASSUME NEW g \in run[i].chosen, run'[i].fate[g] = "none"
                   PROVE  ledger'[run[i].drafts[g]] = "none"
      BY <2>1 DEF Waits, Counted
    <2>3. run[i].fate[g] = "none" /\ g \notin run[i].chunk
      BY <1>1, <2>1, <2>2, RunTypes DEF Counted, Sent
    <2>4. run[i].drafts[g] \in Keys /\ ledger[run[i].drafts[g]] = "none"
      BY <2>1, <2>3, ChosenKeys DEF Counted, Waits
    <2>5. \A k \in Keys : ledger[k] = "none" => ledger'[k] = "none"
      BY <1>9 DEF Leaves, Aside, Releases, FinishMissing, FinishNotCreated, FinishUncertain,
                  journalVars, Confirms, FinishConfirmed
    <2>. QED
      BY <2>4, <2>5
  <1>10. All("published") \in [Sources -> Fates]
    BY AllTypes DEF Fates
  <1>. QED
    BY <1>2, <1>3, <1>4, <1>5, <1>6, <1>7, <1>8, <1>9, <1>10 DEF Kinds

\* A row which may come to be: of a batch entered, or of a feature seen.
LEMMA AbsentStep ==
    ASSUME OrderInv, OrderInv', Kinds, AloneInBulk, NEW i \in Instances, Waits(i), Absent(i)
    PROVE  Absent(i)'
  <1>1. run[i] \in GoodRuns /\ Orderly(run[i])
    BY OrderTypes
  <1>2. \A j \in Instances : j = i
    BY DEF AloneInBulk
  <1>3. SUFFICES ASSUME NEW f \in Sources, run'[i].fate[f] \in Missing
                 PROVE  ledger'[run'[i].drafts[f]] = "none"
    BY DEF Absent
  <1>4. ASSUME run[i].fate[f] \in Missing
        PROVE  /\ ledger[run[i].drafts[f]] = "none" /\ f \in run[i].chosen
               /\ run[i].drafts[f] \in Keys /\ run[i].drafts[f] \notin Batch(i)
               /\ run[i].drafts[f] \notin run[i].seen
    <2>1. f \in run[i].chosen /\ f \notin run[i].chunk
      BY <1>1, <1>4 DEF Orderly, Counts, Missing, Sent
    <2>. QED
      BY <1>1, <1>4, <2>1, ChosenKeys DEF Absent, Orderly, Selects
  <1>5. CASE Calm(run[i], run'[i])
    <2>1. run[i].fate[f] \in Missing /\ run'[i].drafts[f] = run[i].drafts[f]
      BY <1>1, <1>3, <1>5, CalmFates DEF Missing, Sent
    <2>2. \/ ledger' = ledger
          \/ \E k \in run[i].seen : ledger' = [ledger EXCEPT ![k] = "confirmed"]
          \/ Reserve(i)
          \/ \A k \in Keys : ledger[k] = "none" => ledger'[k] = "none"
      <3>1. ASSUME NEW fates \in [Sources -> Fates], Releases(i, fates)
            PROVE  \A k \in Keys : ledger[k] = "none" => ledger'[k] = "none"
        BY <3>1 DEF Releases, FinishMissing, FinishNotCreated, FinishUncertain, journalVars
      <3>2. CASE Confirms(i)
        BY <3>2 DEF Confirms, FinishConfirmed
      <3>3. ASSUME NEW r \in wire, Lands(r) \/ Departs(r) PROVE ledger' = ledger
        BY <3>3 DEF Lands, Departs, Commit, Reject, journalVars
      <3>4. ASSUME NEW g \in Sources, NEW k \in Keys, Observes(i, g, k)
            PROVE  k \in run[i].seen /\ ledger' = [ledger EXCEPT ![k] = "confirmed"]
        BY <3>4 DEF Observes, Observe
      <3>. QED
        BY <1>2, <3>1, <3>2, <3>3, <3>4
           DEF Kinds, Ordinary, Takes, Leaves, Aside, Reserves, Posts, Post, Repeats, journalVars
    <2>3. ledger \in [Keys -> {"none", "uncertain", "confirmed"}]
      BY OrderTypes DEF TypeOK
    <2>4. Reserve(i) =>
             \A k \in Keys : k \notin Batch(i) => ledger'[k] = ledger[k]
      BY DEF Reserve
    <2>. QED
      BY <1>4, <2>1, <2>2, <2>3, <2>4
  <1>6. ASSUME NEW fates \in [Sources -> Fates], Leaves(i, fates)
        PROVE  ledger'[run'[i].drafts[f]] = "none"
    <2>1. ledger' = ledger /\ run'[i].drafts = run[i].drafts
      BY <1>6 DEF Leaves, Aside, Counted
    <2>2. run'[i].fate[f] = IF f \in run[i].chunk THEN fates[f] ELSE run[i].fate[f]
      BY <1>6 DEF Leaves, Counted
    <2>3. CASE f \in run[i].chunk
      <3>1. ~Sends(i) /\ run[i].phase # "closing" /\ run[i].fate[f] = "none" /\ f \in run[i].chosen
        BY <1>1, <1>3, <1>6, <2>2, <2>3, RunTypes
           DEF Leaves, Counted, Missing, AloneInBulk, Orderly, Counts
      <3>. QED
        BY <2>1, <3>1 DEF Waits
    <2>. QED
      BY <1>3, <1>4, <2>1, <2>2, <2>3
  <1>7. ASSUME NEW fates \in [Sources -> Fates], Releases(i, fates)
        PROVE  ledger'[run'[i].drafts[f]] = "none"
    <2>1. /\ ledger' = [k \in Keys |-> IF k \in Batch(i) THEN "none" ELSE ledger[k]]
          /\ run'[i].drafts = run[i].drafts
      BY <1>7 DEF Releases, FinishMissing, FinishNotCreated, AloneInBulk, Counted
    <2>2. run'[i].fate[f] = IF f \in run[i].chunk THEN fates[f] ELSE run[i].fate[f]
      BY <1>7 DEF Releases, Counted
    <2>3. CASE f \in run[i].chunk
      BY <2>1, <2>3, OrderTypes, BatchFacts
    <2>. QED
      BY <1>3, <1>4, <2>1, <2>2, <2>3
  <1>8. CASE Confirms(i)
    <2>1. /\ run'[i].drafts = run[i].drafts
          /\ run'[i].fate[f] = IF f \in run[i].chunk THEN "published" ELSE run[i].fate[f]
      BY <1>8 DEF Confirms, Counted, All
    <2>2. run[i].fate[f] \in Missing
      BY <1>3, <2>1 DEF Missing
    <2>3. \A k \in Keys : ledger[k] = "none" => ledger'[k] = "none"
      BY <1>8 DEF Confirms, FinishConfirmed
    <2>. QED
      BY <1>4, <2>1, <2>2, <2>3
  <1>. QED
    BY <1>2, <1>5, <1>6, <1>7, <1>8, CalmOrCounted

\* The report is true: what it calls published was created, and what it calls not sent,
\* not created or failed was not and never will be by the requests under way.
THEOREM ReportsAreTrue ==
    ASSUME AloneInBulk
    PROVE  Spec => []ReportIsTrue
  <1>1. Init => ReportInv
    <2>1. SUFFICES ASSUME Init PROVE ReportInv
      OBVIOUS
    <2>2. \A i \in Instances : run[i] = NoRun
      BY <2>1 DEF Init
    <2>. QED
      BY <2>1, <2>2, CreatedInit, NoRunFacts DEF ReportInv, Waits, Absent, Missing
  <1>2. ReportInv /\ [Next]_vars => ReportInv'
    <2>1. SUFFICES ASSUME ReportInv, [Next]_vars PROVE ReportInv'
      OBVIOUS
    <2>2. CreatedInv' /\ Kinds
      BY <2>1, CreatedInvStep DEF ReportInv
    <2>3. OrderInv /\ OrderInv'
      BY <2>1, <2>2 DEF ReportInv, CreatedInv
    <2>4. \A i \in Instances : Waits(i) /\ Absent(i)
      BY <2>1 DEF ReportInv
    <2>5. \A i \in Instances : Waits(i)' /\ Absent(i)'
      BY <2>2, <2>3, <2>4, WaitsStep, AbsentStep
    <2>. QED
      BY <2>2, <2>5 DEF ReportInv
  <1>3. ReportInv => ReportIsTrue
    <2>1. SUFFICES ASSUME ReportInv, NEW i \in Instances, NEW f \in Sources
                   PROVE  LET k == run[i].drafts[f]
                          IN  /\ run[i].fate[f] = "published" => landed[k] = 1
                              /\ run[i].fate[f] \in {"notSent", "notCreated", "failed"} =>
                                    landed[k] = 0 /\ \A r \in wire : k \notin r.keys
      BY DEF ReportIsTrue
    <2>2. OrderInv /\ Published(i) /\ Absent(i)
      BY <2>1 DEF ReportInv, CreatedInv
    <2>3. ASSUME run[i].fate[f] \in Missing
          PROVE  /\ landed[run[i].drafts[f]] = 0
                 /\ \A r \in wire : run[i].drafts[f] \notin r.keys
      <3>1. f \in run[i].chosen
        BY <2>2, <2>3, OrderTypes DEF Orderly, Counts, Missing, Sent
      <3>2. ledger[run[i].drafts[f]] = "none" /\ run[i].drafts[f] \in Keys
        BY <2>2, <2>3, <3>1, ChosenKeys DEF Absent
      <3>. QED
        BY <2>2, <3>2, OrderTypes DEF Safe, WireHeld, LandedHeld
    <2>. QED
      BY <2>2, <2>3 DEF Published, Missing
  <1>. QED
    BY <1>1, <1>2, <1>3, PTL DEF Spec

-----------------------------------------------------------------------------
(* What is known to be stored.                                             *)

\* One instance of QGIS uses the journal.
Alone == \A i, j \in Instances : i = j

\* What a run found to be stored is confirmed, and what is being sent is not.
KnownConfirmed == \A k \in known : ledger[k] = "confirmed"

SendsUncertain(i) == Sends(i) => \A k \in Batch(i) : ledger[k] = "uncertain"

KnownInv == OrderInv /\ KnownConfirmed /\ \A i \in Instances : SendsUncertain(i)

\* A confirmed row stays, while what is sent is uncertain.
LEMMA ConfirmedStays ==
    ASSUME OrderInv, Kinds, Alone, \A i \in Instances : SendsUncertain(i),
           NEW k \in Keys, ledger[k] = "confirmed"
    PROVE  ledger'[k] = "confirmed"
  <1>1. ledger \in [Keys -> {"none", "uncertain", "confirmed"}]
    BY OrderTypes DEF TypeOK
  <1>2. CASE ledger' = ledger
    BY <1>2
  <1>3. ASSUME NEW i \in Instances, NEW f \in Sources, NEW h \in Keys, Observes(i, f, h)
        PROVE  ledger'[k] = "confirmed"
    BY <1>1, <1>3 DEF Observes, Observe
  <1>4. ASSUME NEW i \in Instances, Reserves(i) PROVE ledger'[k] = "confirmed"
    <2>1. k \notin Batch(i)
      BY <1>4 DEF Reserves, Reserve, Batch
    <2>. QED
      BY <1>4, <2>1 DEF Reserves, Reserve
  <1>5. ASSUME NEW i \in Instances, NEW fates, Releases(i, fates)
        PROVE  ledger'[k] = "confirmed"
    <2>1. Sends(i)
      BY <1>5 DEF Releases, Unsent, Sends
    <2>2. k \notin Batch(i)
      BY <2>1 DEF SendsUncertain
    <2>. QED
      BY <1>5, <2>2 DEF Releases, FinishMissing, FinishNotCreated, FinishUncertain, journalVars
  <1>6. ASSUME NEW i \in Instances, Confirms(i) PROVE ledger'[k] = "confirmed"
    BY <1>6 DEF Confirms, FinishConfirmed
  <1>7. ASSUME NEW r \in wire, Lands(r) \/ Departs(r) PROVE ledger' = ledger
    BY <1>7 DEF Lands, Departs, Commit, Reject, journalVars
  <1>. QED
    BY <1>2, <1>3, <1>4, <1>5, <1>6, <1>7
       DEF Kinds, Ordinary, Takes, Leaves, Aside, Posts, Post, Repeats, journalVars

\* What was found stored stays confirmed.
LEMMA KnownStep ==
    ASSUME KnownInv, Alone, Kinds
    PROVE  KnownConfirmed'
  <1>1. known \subseteq Keys /\ ledger \in [Keys -> {"none", "uncertain", "confirmed"}]
    BY OrderTypes DEF TypeOK, KnownInv
  <1>2. \A k \in known : ledger'[k] = "confirmed"
    BY <1>1, ConfirmedStays DEF KnownInv, KnownConfirmed
  <1>3. CASE known' = known
    BY <1>2, <1>3 DEF KnownConfirmed
  <1>4. ASSUME NEW i \in Instances, NEW f \in Sources, NEW k \in Keys, Observes(i, f, k)
        PROVE  KnownConfirmed'
    BY <1>1, <1>2, <1>4 DEF Observes, Observe, KnownConfirmed
  <1>5. ASSUME NEW i \in Instances, Confirms(i) PROVE KnownConfirmed'
    <2>1. \A k \in Batch(i) : k \in Keys /\ ledger[k] # "none"
      BY <1>5, OrderTypes, BatchKeys DEF Confirms, Sends, Safe, Held, KnownInv
    <2>2. \A k \in Batch(i) : ledger'[k] = "confirmed"
      BY <1>5, <2>1 DEF Confirms, FinishConfirmed
    <2>. QED
      BY <1>2, <1>5, <2>2 DEF Confirms, KnownConfirmed
  <1>6. ASSUME NEW r \in wire, Lands(r) \/ Departs(r) PROVE known' = known
    BY <1>6 DEF Lands, Departs, Commit, Reject, historyVars
  <1>. QED
    BY <1>3, <1>4, <1>5, <1>6
       DEF Kinds, Ordinary, Takes, Leaves, Releases, Aside, Reserves, Reserve, Posts, Post,
           Repeats, historyVars

\* What is being sent stays uncertain.
LEMMA UncertainStep ==
    ASSUME KnownInv, Alone, Kinds, NEW i \in Instances
    PROVE  SendsUncertain(i)'
  <1>1. \A j \in Instances : j = i
    BY DEF Alone
  <1>2. SendsUncertain(i) /\ Batch(i) \subseteq Keys
    BY OrderTypes, BatchKeys DEF KnownInv
  <1>3. ASSUME Batch(i)' = Batch(i), ledger' = ledger, Sends(i)' => Sends(i)
        PROVE  SendsUncertain(i)'
    BY <1>2, <1>3 DEF SendsUncertain
  <1>4. QuietRuns => ~Sends(i)' \/ (Sends(i) /\ Batch(i)' = Batch(i))
    BY QuietSends
  <1>5. CASE QuietRuns /\ ledger' = ledger
    BY <1>2, <1>4, <1>5 DEF SendsUncertain
  <1>6. ASSUME NEW f \in Sources, NEW k \in Keys, Observes(i, f, k) PROVE ~Sends(i)'
    BY <1>6 DEF Observes, Drafted, SameWay, Sends
  <1>7. ASSUME NEW fates, Releases(i, fates) \/ Confirms(i) PROVE ~Sends(i)'
    BY <1>7 DEF Releases, Confirms, Counted, Sends
  <1>8. CASE Reserves(i)
    <2>1. Batch(i)' = Batch(i)
      BY <1>8 DEF Reserves, Moved, Alike, SameReading, Batch
    <2>. QED
      BY <1>2, <1>8, <2>1 DEF Reserves, Reserve, SendsUncertain
  <1>9. CASE Posts(i) \/ Repeats(i)
    <2>1. Batch(i)' = Batch(i) /\ ledger' = ledger /\ Sends(i)
      BY <1>9 DEF Posts, Post, Repeats, Aside, journalVars, Moved, Alike, SameReading, Batch,
                  Unsent, Sends
    <2>. QED
      BY <1>3, <2>1
  <1>10. ASSUME NEW r \in wire, Lands(r) \/ Departs(r) PROVE SendsUncertain(i)'
    <2>1. Batch(i)' = Batch(i) /\ ledger' = ledger /\ (Sends(i)' => Sends(i))
      BY <1>10 DEF Lands, Departs, Commit, Reject, journalVars, Moved, Alike, SameReading, Batch,
                   Sends
    <2>. QED
      BY <1>3, <2>1
  <1>11. ~Sends(i)' => SendsUncertain(i)'
    BY DEF SendsUncertain
  <1>12. ASSUME NEW f \in Sources, NEW k \in Keys, Takes(i, f, k)
         PROVE  QuietRuns /\ ledger' = ledger
    BY <1>12 DEF Takes, Aside
  <1>13. ASSUME NEW fates, Leaves(i, fates) PROVE QuietRuns /\ ledger' = ledger
    BY <1>13 DEF Leaves, Aside
  <1>14. Ordinary => QuietRuns /\ ledger' = ledger
    BY DEF Ordinary, Aside
  <1>. QED
    BY <1>1, <1>5, <1>6, <1>7, <1>8, <1>9, <1>10, <1>11, <1>12, <1>13, <1>14 DEF Kinds

\* Every step keeps apart what is stored and what is being sent.
LEMMA KnownInvStep ==
    ASSUME KnownInv, Alone, [Next]_vars
    PROVE  KnownInv' /\ Kinds
  <1>1. OrderInv' /\ Kinds
    BY OrderStep DEF KnownInv
  <1>2. \A i \in Instances : SendsUncertain(i)'
    BY <1>1, UncertainStep
  <1>. QED
    BY <1>1, <1>2, KnownStep DEF KnownInv

\* Before the first run nothing is known.
LEMMA KnownInit == Init => KnownInv
  <1>1. SUFFICES ASSUME Init PROVE KnownInv
    OBVIOUS
  <1>2. \A i \in Instances : ~Sends(i)
    BY <1>1, NoRunFacts DEF Init, Sends
  <1>. QED
    BY <1>1, <1>2, OrderInit DEF Init, KnownInv, KnownConfirmed, SendsUncertain

\* Nothing is sent again which a run has found to be stored, whatever has become of it on
\* the server: what is sent is uncertain, and what was found is confirmed.
THEOREM StoredStaysDeleted ==
    ASSUME Alone
    PROVE  Spec => NeverRecreates
  <1>1. KnownInv /\ [Next]_vars => KnownInv'
    BY KnownInvStep
  <1>2. KnownInv /\ [Next]_vars => [\A r \in wire' \ wire : r.keys \cap known = {}]_vars
    <2>1. SUFFICES ASSUME KnownInv, [Next]_vars, NEW r \in wire', r \notin wire
                   PROVE  r.keys \cap known = {}
      OBVIOUS
    <2>2. Kinds
      BY <2>1, KnownInvStep
    <2>3. PICK i \in Instances : Posts(i)
      BY <2>1, <2>2, WireSteps
    <2>4. r = [by |-> i, no |-> run[i].no, from |-> run[i].chunk, keys |-> Batch(i)]
      BY <2>1, <2>3 DEF Posts, Post
    <2>5. r.keys = Batch(i) /\ Sends(i)
      BY <2>3, <2>4 DEF Posts, Post, Sends
    <2>. QED
      BY <2>1, <2>5 DEF KnownInv, KnownConfirmed, SendsUncertain
  <1>. QED
    BY <1>1, <1>2, KnownInit, PTL DEF Spec, NeverRecreates

-----------------------------------------------------------------------------
(* When the mark of a layer is cleared.                                    *)

\* A run during which nothing was edited read the layer as it is, and accounted for what
\* it read.
Faithful(i) ==
    run[i].phase # "idle" /\ ~run[i].edited =>
        /\ key = run[i].copy
        /\ \A f \in Sources :
              run[i].copy[f] # NoKey /\ f \notin run[i].unread =>
                  /\ run[i].drafts[f] = run[i].copy[f]
                  /\ f \in run[i].chosen \/ run[i].fate[f] # "none"

\* What is reported as there is confirmed, or the twin of a feature being sent.
Accounted(i) ==
    \A f \in Sources :
        /\ run[i].fate[f] = "published" => ledger[run[i].drafts[f]] = "confirmed"
        /\ run[i].fate[f] = "present" =>
              /\ run[i].drafts[f] \in Keys
              /\ \/ ledger[run[i].drafts[f]] = "confirmed"
                 \/ \E g \in run[i].chosen : run[i].drafts[g] = run[i].drafts[f]

Complete(i) ==
    run[i].phase = "closing" /\ ~run[i].error /\ ~run[i].stopped =>
        run[i].unread = {} /\ \A f \in run[i].chosen : run[i].fate[f] # "none"

ClearInv == KnownInv /\ \A i \in Instances : Faithful(i) /\ Accounted(i) /\ Complete(i)

\* The layer changes by an edit, which each run under way notices.
LEMMA LayerSteps ==
    ASSUME Types, Alone, [Next]_vars, NEW i \in Instances,
           run'[i].phase # "idle", ~run'[i].edited
    PROVE  key' = key
  <1>1. ASSUME NEW f \in Sources, Edit(i, f) PROVE FALSE
    <2>. DEFINE b == run[i].phase # "idle"
                s == [run[i] EXCEPT !.edited = b]
    <2>1. run[i] \in Runs /\ run \in [Instances -> Runs]
      BY DEF Types, TypeOK
    <2>2. s.edited = b /\ s.phase = run[i].phase
      BY <2>1, SMT DEF Runs
    <2>3. Becomes(i, s)
      BY <1>1 DEF Edit
    <2>. HIDE DEF s
    <2>4. run'[i] = s
      BY <2>1, <2>3, BecomesFacts
    <2>. QED
      BY <2>2, <2>4
  <1>2. ASSUME NEW j \in Instances, Worker(j) PROVE key' = key
    BY <1>2 DEF Worker, Reading, Sending, LoadPage, LoadFails, FeatureSkipped, FeaturePresent,
          FeatureHeld, FeatureTwin, FeatureTaken, FeatureGone, Raises, DropBatch, Reserve, Post,
          NeverSent, ReceiveCreated, ReceiveRefusal, ReceiveThrottle, ReceiveNothing, EndLayer,
          Finish, layerVars
  <1>3. ASSUME NEW j \in Instances, Person(j) PROVE key' = key
    <2>1. j = i
      BY DEF Alone
    <2>. QED
      BY <1>1, <1>3, <2>1 DEF Person, Start, Cancel, ChangeConnection, Crash, layerVars
  <1>4. CASE World
    BY <1>4 DEF World, Commit, Reject, OthersCreate, OthersDelete, OthersChange, Foreign, layerVars
  <1>5. CASE UNCHANGED vars
    BY <1>5 DEF vars, layerVars
  <1>. QED
    BY <1>2, <1>3, <1>4, <1>5 DEF Next

\* A run which noticed no edit still has the layer as it is.
LEMMA FaithfulStep ==
    ASSUME OrderInv, Alone, [Next]_vars, Kinds, NEW i \in Instances, Faithful(i)
    PROVE  Faithful(i)'
  <1>1. SUFFICES ASSUME run'[i].phase # "idle", ~run'[i].edited
                 PROVE  /\ key' = run'[i].copy
                        /\ \A f \in Sources :
                              run'[i].copy[f] # NoKey /\ f \notin run'[i].unread =>
                                  /\ run'[i].drafts[f] = run'[i].copy[f]
                                  /\ f \in run'[i].chosen \/ run'[i].fate[f] # "none"
    BY DEF Faithful
  <1>. DEFINE r == run[i]
              s == run'[i]
              Good == /\ key = s.copy
                      /\ \A f \in Sources :
                            s.copy[f] # NoKey /\ f \notin s.unread =>
                                /\ s.drafts[f] = s.copy[f]
                                /\ f \in s.chosen \/ s.fate[f] # "none"
  <1>2. key' = key
    BY <1>1, LayerSteps, OrderTypes
  <1>3. SUFFICES Good
    BY <1>2
  <1>4. RunGoes(r, s)
    BY RunsGo
  <1>5. r \in GoodRuns /\ Orderly(r)
    BY OrderTypes
  <1>6. /\ r.drafts \in [Sources -> Maybe] /\ r.fate \in [Sources -> Fates]
        /\ r.chosen \subseteq Sources /\ r.unread \subseteq Sources
    BY <1>5, RunTypes
  <1>7. r.phase # "idle" /\ ~r.edited =>
           /\ key = r.copy
           /\ \A f \in Sources :
                 r.copy[f] # NoKey /\ f \notin r.unread =>
                     /\ r.drafts[f] = r.copy[f]
                     /\ f \in r.chosen \/ r.fate[f] # "none"
    BY DEF Faithful
  <1>8. s.phase # "idle" /\ ~s.edited
    BY <1>1
  <1>. HIDE DEF r, s
  <1>9. CASE Moved(r, s)
    <2>1. /\ s.copy = r.copy /\ s.unread = r.unread /\ s.drafts = r.drafts
          /\ s.chosen = r.chosen /\ s.fate = r.fate
      BY <1>9 DEF Moved, Alike, SameNo, SameReading
    <2>2. r.phase # "idle"
      BY <1>8, <1>9 DEF Moved, Before
    <2>3. ~r.edited
      BY <1>8, <1>9, <2>2 DEF Moved, Alike
    <2>. QED
      BY <1>7, <2>1, <2>2, <2>3
  <1>10. CASE s = NoRun
    BY <1>8, <1>10, NoRunFacts
  <1>11. CASE Begun(s)
    BY <1>11 DEF Begun
  <1>12. CASE Listed(r, s)
    BY <1>7, <1>8, <1>12 DEF Listed, SameNo, SameReading
  <1>13. ASSUME NEW f \in Sources, Passed(r, s, f) PROVE Good
    BY <1>7, <1>8, <1>13 DEF Passed, SameWay, SameNo
  <1>14. ASSUME NEW f \in Sources, NEW k \in Keys,
                NEW fate \in {"skipped", "held", "present"}, Drafted(r, s, f, k, fate)
         PROVE  Good
    <2>1. /\ s.copy = r.copy /\ s.unread = r.unread \ {f} /\ s.chosen = r.chosen
          /\ s.drafts = [r.drafts EXCEPT ![f] = k] /\ s.fate = [r.fate EXCEPT ![f] = fate]
          /\ k \in {r.copy[f], key[f]} /\ r.phase # "idle" /\ ~r.edited
      BY <1>8, <1>14 DEF Drafted, SameWay, SameNo
    <2>2. key = r.copy /\ k = r.copy[f]
      BY <1>7, <2>1
    <2>3. \A g \in Sources : /\ s.drafts[g] = IF g = f THEN k ELSE r.drafts[g]
                             /\ s.fate[g] = IF g = f THEN fate ELSE r.fate[g]
      BY <1>6, <2>1
    <2>. QED
      BY <1>7, <2>1, <2>2, <2>3
  <1>15. ASSUME NEW f \in Sources, NEW k \in Keys, Took(r, s, f, k) PROVE Good
    <2>1. /\ s.copy = r.copy /\ s.unread = r.unread \ {f} /\ s.chosen = r.chosen \cup {f}
          /\ s.drafts = [r.drafts EXCEPT ![f] = k] /\ s.fate = r.fate
          /\ k \in {r.copy[f], key[f]} /\ r.phase # "idle" /\ ~r.edited
      BY <1>8, <1>15 DEF Took, SameWay, SameNo
    <2>2. key = r.copy /\ k = r.copy[f]
      BY <1>7, <2>1
    <2>3. \A g \in Sources : s.drafts[g] = IF g = f THEN k ELSE r.drafts[g]
      BY <1>6, <2>1
    <2>. QED
      BY <1>7, <2>1, <2>2, <2>3
  <1>16. ASSUME NEW fates \in [Sources -> Fates], Counted(r, s, fates) PROVE Good
    <2>1. /\ s.copy = r.copy /\ s.unread = r.unread /\ s.chosen = r.chosen
          /\ s.drafts = r.drafts /\ r.phase # "idle" /\ ~r.edited
          /\ \A g \in Sources : s.fate[g] = IF g \in r.chunk THEN fates[g] ELSE r.fate[g]
      BY <1>8, <1>16 DEF Counted, SameNo
    <2>2. r.chunk \subseteq r.chosen
      BY <1>5, RunTypes
    <2>. QED
      BY <1>7, <2>1, <2>2
  <1>. QED
    BY <1>4, <1>9, <1>10, <1>11, <1>12, <1>13, <1>14, <1>15, <1>16 DEF RunGoes

\* A run that closes without error or stop has read and counted everything.
LEMMA CompleteStep ==
    ASSUME OrderInv, Kinds, NEW i \in Instances, Complete(i)
    PROVE  Complete(i)'
  <1>1. SUFFICES ASSUME run'[i].phase = "closing", ~run'[i].error, ~run'[i].stopped
                 PROVE  run'[i].unread = {} /\ \A f \in run'[i].chosen : run'[i].fate[f] # "none"
    BY DEF Complete
  <1>2. RunGoes(run[i], run'[i])
    BY RunsGo
  <1>3. CASE Moved(run[i], run'[i])
    <2>1. /\ run'[i].unread = run[i].unread /\ run'[i].chosen = run[i].chosen
          /\ run'[i].fate = run[i].fate
          /\ run[i].error => run'[i].error
          /\ run[i].stopped => run'[i].stopped
      BY <1>3 DEF Moved, Alike, SameNo, SameReading
    <2>2. run[i].phase = "closing" \/ AllDone(run[i])
      BY <1>1, <1>3 DEF Moved
    <2>. QED
      BY <1>1, <2>1, <2>2 DEF Complete, AllDone
  <1>4. ~Moved(run[i], run'[i]) => run'[i].phase # "closing"
    BY <1>2, NoRunFacts DEF RunGoes, Begun, Listed, Passed, Took, Drafted, Counted, SameWay
  <1>. QED
    BY <1>1, <1>3, <1>4

\* What a step does to the run of the instance, when it is the only one.
LEMMA MindsOrNot ==
    ASSUME Kinds, Alone, NEW i \in Instances
    PROVE  \/ Minds(run[i], run'[i])
           \/ \E g \in Sources, k \in Keys : Took(run[i], run'[i], g, k)
           \/ \E j \in Instances, g \in Sources, k \in Keys : Observes(j, g, k)
           \/ \E fates : Counted(run[i], run'[i], fates)
  <1>1. \A j \in Instances : j = i
    BY DEF Alone
  <1>. QED
    BY <1>1 DEF Kinds, Ordinary, Takes, Leaves, Releases, Confirms, Reserves, Posts, Repeats,
                Lands, Departs, Minds

\* What a run has as present or published is confirmed in the journal.
LEMMA AccountedStep ==
    ASSUME KnownInv, KnownInv', Alone, Kinds, NEW i \in Instances, Accounted(i)
    PROVE  Accounted(i)'
  <1>. DEFINE There(k) == k \in Keys /\ (\/ ledger[k] = "confirmed"
                                         \/ \E g \in run[i].chosen : run[i].drafts[g] = k)
              There1(k) == k \in Keys /\ (\/ ledger'[k] = "confirmed"
                                          \/ \E g \in run'[i].chosen : run'[i].drafts[g] = k)
  <1>1. OrderInv /\ Orderly(run[i]) /\ run[i] \in GoodRuns
    BY OrderTypes DEF KnownInv
  <1>2. /\ run[i].drafts \in [Sources -> Maybe] /\ run[i].fate \in [Sources -> Fates]
        /\ run[i].chosen \subseteq Sources
    BY <1>1, RunTypes
  <1>3. \A k \in Keys : ledger[k] = "confirmed" => ledger'[k] = "confirmed"
    BY <1>1, ConfirmedStays DEF KnownInv
  <1>4. ASSUME NEW f \in Sources, run'[i].fate[f] = "published"
        PROVE  ledger'[run'[i].drafts[f]] = "confirmed"
    <2>1. ASSUME run[i].fate[f] = "published", run'[i].drafts[f] = run[i].drafts[f]
          PROVE  ledger'[run'[i].drafts[f]] = "confirmed"
      <3>1. f \in run[i].chosen
        BY <1>1, <2>1 DEF Orderly, Counts, Sent
      <3>2. run[i].drafts[f] \in Keys
        BY <1>1, <3>1, RunTypes
      <3>. QED
        BY <1>3, <2>1, <3>2 DEF Accounted
    <2>2. CASE Calm(run[i], run'[i])
      BY <1>1, <1>4, <2>1, <2>2, CalmFates DEF Sent
    <2>3. ASSUME NEW j \in Instances, NEW fates, Leaves(j, fates) \/ Releases(j, fates)
          PROVE  ledger'[run'[i].drafts[f]] = "confirmed"
      <3>1. j = i
        BY DEF Alone
      <3>2. Counted(run[i], run'[i], fates) /\ \A g \in run[i].chunk : fates[g] # "published"
        BY <2>3, <3>1 DEF Leaves, Releases
      <3>. QED
        BY <1>4, <2>1, <3>2 DEF Counted
    <2>4. ASSUME NEW j \in Instances, Confirms(j)
          PROVE  ledger'[run'[i].drafts[f]] = "confirmed"
      <3>1. j = i
        BY DEF Alone
      <3>2. /\ run'[i].drafts = run[i].drafts
            /\ f \notin run[i].chunk => run[i].fate[f] = "published"
        BY <1>4, <2>4, <3>1 DEF Confirms, Counted
      <3>3. CASE f \in run[i].chunk
        <4>1. run[i].drafts[f] \in Batch(i) /\ run[i].drafts[f] \in Keys
          BY <1>1, <3>3, OrderTypes, BatchFacts
        <4>2. ledger[run[i].drafts[f]] # "none"
          BY <1>1, <2>4, <3>1, <4>1, OrderTypes DEF Confirms, Sends, Safe, Held
        <4>. QED
          BY <2>4, <3>1, <3>2, <4>1, <4>2 DEF Confirms, FinishConfirmed
      <3>. QED
        BY <2>1, <3>2, <3>3
    <2>. QED
      BY <2>2, <2>3, <2>4, CalmOrCounted
  <1>5. ASSUME NEW f \in Sources, run'[i].fate[f] = "present"
        PROVE  There1(run'[i].drafts[f])
    <2>1. ASSUME run[i].fate[f] = "present", run'[i].drafts[f] = run[i].drafts[f],
                 Keeps(run[i], run'[i])
          PROVE  There1(run'[i].drafts[f])
      BY <1>3, <2>1 DEF Accounted, Keeps
    <2>2. CASE run'[i] = NoRun \/ Begun(run'[i])
      BY <1>5, <2>2, NoRunFacts DEF Begun
    <2>3. RunGoes(run[i], run'[i])
      BY RunsGo
    <2>4. CASE Keeps(run[i], run'[i])
      <3>1. CASE Moved(run[i], run'[i]) \/ Listed(run[i], run'[i])
        BY <1>5, <2>1, <2>4, <3>1 DEF Moved, Listed, Alike, SameReading
      <3>2. ASSUME NEW g \in Sources, Passed(run[i], run'[i], g)
            PROVE  There1(run'[i].drafts[f])
        BY <1>5, <2>1, <2>4, <3>2 DEF Passed
      <3>3. ASSUME NEW g \in Sources, NEW k \in Keys, Took(run[i], run'[i], g, k)
            PROVE  There1(run'[i].drafts[f])
        <4>1. run[i].fate[g] = "none" /\ run'[i].fate = run[i].fate
          BY <1>1, <3>3 DEF Took, Orderly, Counts
        <4>2. g # f /\ run'[i].drafts = [run[i].drafts EXCEPT ![g] = k]
          BY <1>5, <3>3, <4>1 DEF Took
        <4>. QED
          BY <1>2, <1>5, <2>1, <2>4, <4>1, <4>2
      <3>4. ASSUME NEW fates, Counted(run[i], run'[i], fates)
            PROVE  There1(run'[i].drafts[f])
        <4>1. run[i].fate[f] = "present" /\ run'[i].drafts = run[i].drafts
          BY <1>5, <3>4 DEF Counted, Sent
        <4>. QED
          BY <2>1, <2>4, <4>1
      <3>5. ASSUME NEW g \in Sources, NEW k \in Keys, NEW fate, Drafted(run[i], run'[i], g, k, fate),
                   g = f => There1(k)
            PROVE  There1(run'[i].drafts[f])
        <4>1. /\ run'[i].drafts = [run[i].drafts EXCEPT ![g] = k]
              /\ run'[i].fate = [run[i].fate EXCEPT ![g] = fate]
          BY <3>5 DEF Drafted
        <4>2. CASE g = f
          BY <1>2, <3>5, <4>1, <4>2
        <4>3. CASE g # f
          BY <1>2, <1>5, <2>1, <2>4, <4>1, <4>3
        <4>. QED
          BY <4>2, <4>3
      <3>6. ASSUME NEW k \in Keys, NEW h \in run[i].chosen, run[i].drafts[h] = k
            PROVE  There1(k)
        BY <2>4, <3>6 DEF Keeps
      <3>7. ASSUME NEW j \in Instances, NEW g \in Sources, NEW k \in Keys, Observes(j, g, k)
            PROVE  There1(run'[i].drafts[f])
        <4>1. j = i
          BY DEF Alone
        <4>2. ledger \in [Keys -> {"none", "uncertain", "confirmed"}]
          BY <1>1, OrderTypes DEF TypeOK
        <4>3. There1(k) /\ Drafted(run[i], run'[i], g, k, "present")
          BY <3>7, <4>1, <4>2 DEF Observes, Observe
        <4>. QED
          BY <3>5, <4>3
      <3>8. CASE Minds(run[i], run'[i])
        <4>1. ASSUME NEW g \in Sources, NEW k \in Keys, NEW fate \in {"skipped", "held", "present"},
                     Drafted(run[i], run'[i], g, k, fate),
                     fate = "present" => \E h \in run[i].chosen : run[i].drafts[h] = k
              PROVE  There1(run'[i].drafts[f])
          <5>1. run'[i].fate[g] = fate
            BY <1>2, <4>1 DEF Drafted
          <5>2. g = f => There1(k)
            BY <1>5, <3>6, <4>1, <5>1
          <5>. QED
            BY <3>5, <4>1, <5>2
        <4>. QED
          BY <2>2, <3>1, <3>2, <3>8, <4>1 DEF Minds
      <3>9. \/ Minds(run[i], run'[i])
            \/ \E g \in Sources, k \in Keys : Took(run[i], run'[i], g, k)
            \/ \E j \in Instances, g \in Sources, k \in Keys : Observes(j, g, k)
            \/ \E fates : Counted(run[i], run'[i], fates)
        BY MindsOrNot
      <3>. QED
        BY <3>3, <3>4, <3>7, <3>8, <3>9
    <2>. QED
      BY <1>1, <2>2, <2>3, <2>4, KeepsStep
  <1>. QED
    BY <1>4, <1>5 DEF Accounted

\* The mark of a layer which was to be uploaded is cleared at the end of a run alone.
LEMMA MarkSteps ==
    ASSUME [Next]_vars, Types, NEW i \in Instances, mark[i] # "", mark'[i] = ""
    PROVE  Finish(i) /\ Clean(i) /\ ~run[i].edited
  <1>1. mark \in [Instances -> {"", "unpushed", "review"}]
    BY DEF Types, TypeOK
  <1>2. ASSUME NEW j \in Instances, NEW f \in Sources, Edit(j, f) PROVE FALSE
    BY <1>1, <1>2 DEF Edit
  <1>3. ASSUME NEW j \in Instances, Finish(j) PROVE j = i /\ Clean(i) /\ ~run[i].edited
    <2>1. mark' = [mark EXCEPT ![j] = IF run[j].active THEN MarkAfter(j) ELSE @]
      BY <1>3 DEF Finish
    <2>2. j = i /\ MarkAfter(i) = ""
      BY <1>1, <2>1
    <2>3. \/ Clean(i) /\ ~run[i].edited /\ mark[i] # "review"
          \/ MarkAfter(i) = "review" \/ MarkAfter(i) = mark[i]
      BY DEF MarkAfter
    <2>. QED
      BY <2>2, <2>3
  <1>4. ASSUME NEW j \in Instances, Worker(j), ~Finish(j) PROVE mark' = mark
    BY <1>4 DEF Worker, Reading, Sending, LoadPage, LoadFails, FeatureSkipped, FeaturePresent,
          FeatureHeld, FeatureTwin, FeatureTaken, FeatureGone, Raises, DropBatch, Reserve, Post,
          NeverSent, ReceiveCreated, ReceiveRefusal, ReceiveThrottle, ReceiveNothing, EndLayer,
          layerVars
  <1>5. ASSUME NEW j \in Instances, Person(j) PROVE mark' = mark
    BY <1>2, <1>5 DEF Person, Start, Cancel, ChangeConnection, Crash, layerVars
  <1>6. CASE World
    BY <1>6 DEF World, Commit, Reject, OthersCreate, OthersDelete, OthersChange, Foreign, layerVars
  <1>7. CASE UNCHANGED vars
    BY <1>7 DEF vars, layerVars
  <1>. QED
    BY <1>3, <1>4, <1>5, <1>6, <1>7 DEF Next

\* A layer stops being offered for upload only when the journal has every feature of it as
\* stored: none was edited, left out, held for review, refused or left unanswered.
THEOREM ClearedIsStored ==
    ASSUME Alone
    PROVE  Spec => ClearedMeansStored
  <1>1. Init => ClearInv
    <2>1. SUFFICES ASSUME Init PROVE ClearInv
      OBVIOUS
    <2>2. \A i \in Instances : run[i] = NoRun
      BY <2>1 DEF Init
    <2>. QED
      BY <2>1, <2>2, KnownInit, NoRunFacts DEF ClearInv, Faithful, Accounted, Complete
  <1>2. ClearInv /\ [Next]_vars => ClearInv'
    <2>1. SUFFICES ASSUME ClearInv, [Next]_vars PROVE ClearInv'
      OBVIOUS
    <2>2. KnownInv' /\ Kinds /\ KnownInv
      BY <2>1, KnownInvStep DEF ClearInv
    <2>3. OrderInv
      BY <2>2 DEF KnownInv
    <2>4. \A i \in Instances : Faithful(i)' /\ Accounted(i)' /\ Complete(i)'
      BY <2>1, <2>2, <2>3, FaithfulStep, AccountedStep, CompleteStep DEF ClearInv
    <2>. QED
      BY <2>2, <2>4 DEF ClearInv
  <1>3. ASSUME ClearInv, [Next]_vars, NEW i \in Instances, mark[i] # "", mark'[i] = "",
               NEW f \in Sources, key[f] # NoKey
        PROVE  ledger[key[f]] = "confirmed"
    <2>1. OrderInv /\ Faithful(i) /\ Accounted(i) /\ Complete(i)
      BY <1>3 DEF ClearInv, KnownInv
    <2>2. Types /\ run[i] \in GoodRuns /\ Orderly(run[i])
      BY <2>1, OrderTypes
    <2>3. run[i].phase = "closing" /\ Clean(i) /\ ~run[i].edited
      BY <1>3, <2>2, MarkSteps DEF Finish
    <2>4. /\ ~run[i].stopped /\ ~run[i].error
          /\ \A g \in Sources : run[i].fate[g] \in {"none", "published", "present", "notSent"}
      BY <2>3 DEF Clean
    <2>5. \A g \in Sources : run[i].fate[g] # "notSent"
      BY <2>2, <2>4 DEF Orderly, Counts
    <2>6. run[i].unread = {} /\ \A g \in run[i].chosen : run[i].fate[g] # "none"
      BY <2>1, <2>3, <2>4 DEF Complete
    <2>7. /\ key = run[i].copy /\ run[i].drafts[f] = key[f]
          /\ f \in run[i].chosen \/ run[i].fate[f] # "none"
      BY <1>3, <2>1, <2>3, <2>6 DEF Faithful
    <2>8. \A g \in run[i].chosen : g \in Sources /\ run[i].fate[g] = "published"
      <3>1. run[i].chosen \subseteq Sources
        BY <2>2, RunTypes
      <3>. QED
        BY <2>2, <2>4, <2>5, <2>6, <3>1 DEF Orderly, Counts, Sent
    <2>9. run[i].fate[f] \in {"published", "present"}
      BY <2>4, <2>5, <2>6, <2>7
    <2>. QED
      BY <2>1, <2>7, <2>8, <2>9 DEF Accounted
  <1>4. ClearInv /\ [Next]_vars =>
           [\A i \in Instances : mark[i] # "" /\ mark'[i] = "" =>
              \A f \in Sources : key[f] # NoKey => ledger[key[f]] = "confirmed"]_vars
    BY <1>3
  <1>. QED
    BY <1>1, <1>2, <1>4, PTL DEF Spec, ClearedMeansStored
=============================================================================
