--------------------------- MODULE BootstrapProofs ---------------------------
(* Proofs about Bootstrap: an extent declared exhaustive was swept, a record  *)
(* on a layer is true, and nothing confirmed is published again unasked.      *)
EXTENDS Bootstrap, FiniteSetTheorems, SequenceTheorems, WellFoundedInduction, TLAPS

-----------------------------------------------------------------------------
(* Types.                                                                    *)

Ids == {c.id : c \in Classes}
Active == run # NoRun
Plans == [layer : Layers, class : Ids, extent : Completeness, skip : BOOLEAN,
          styles : BOOLEAN, previous : Records \cup {None}, to : Items(Collections)]
Queued == {[row |-> i, draft |-> Draft(Rows(l)[i], Source[l].columns, Class(c), skip)] :
              l \in Layers, i \in Nat, c \in Ids, skip \in BOOLEAN}
Tallies == [Counters -> Nat]
Labels == [layer : Layers, row : Nat, class : Ids, track : Tracks, to : Items(Collections),
           copy : Nat, answered : BOOLEAN]
Publishes == [phase : {"styles", "layers", "ended"}, track : Tracks, plans : Seq(Plans),
              asked : SUBSET Layers, styled : SUBSET Ids, at : Nat, row : Nat,
              chunk : Seq(Queued), counts : Seq(Tallies), cancelled : BOOLEAN]

RunTypes == run \in Publishes \cup {NoRun}
RestTypes ==
    /\ track \in Tracks /\ here \subseteq Layers /\ forgotten \subseteq Layers
    /\ record \in [Layers -> Records \cup {None}] /\ saved \in [Layers -> Records \cup {None}]
    /\ labels \subseteq Labels /\ IsFiniteSet(labels)
    /\ runs \in Nat /\ losses \in Nat

-----------------------------------------------------------------------------
(* The run.                                                                  *)

\* A layer is published once in a run.
PlansApart == \A i, j \in DOMAIN run.plans : run.plans[i].layer = run.plans[j].layer => i = j

\* Where the worker is.
Placed ==
    /\ Len(run.counts) <= Len(run.plans) /\ Len(run.plans) >= 1
    /\ run.phase = "styles" => run.counts = <<>> /\ run.at = 1 /\ run.row = 1
    /\ run.phase # "layers" => run.chunk = <<>>
    /\ run.phase = "layers" =>
          /\ run.at = Len(run.counts) /\ run.at >= 1
          /\ run.row >= 1 /\ run.row <= Len(Rows(Plan.layer)) + 1

RunSound == Active => runs >= 1 /\ PlansApart /\ Placed

\* The rows which wait in the batch were read, each once, and have no label yet.
Queue ==
    Active /\ run.phase = "layers" =>
        /\ \A i \in DOMAIN run.chunk : run.chunk[i].row >= 1 /\ run.chunk[i].row < run.row
        /\ \A i, j \in DOMAIN run.chunk : run.chunk[i].row = run.chunk[j].row => i = j
        /\ \A x \in labels : x.copy = runs /\ x.layer = Plan.layer =>
              x.row < run.row /\ \A i \in DOMAIN run.chunk : x.row # run.chunk[i].row

\* The labels of this run are of layers it has come to.
OfPlans ==
    /\ \A x \in labels : x.copy <= runs
    /\ Active => \A x \in labels : x.copy = runs =>
          \E j \in DOMAIN run.counts :
              /\ x.layer = run.plans[j].layer /\ x.track = run.track
              /\ x.to = run.plans[j].to /\ x.class = run.plans[j].class

Confirmed(l) == {x \in labels : x.copy = runs /\ x.layer = l /\ x.answered}

\* What is counted as published was confirmed.
Tally ==
    Active => \A j \in DOMAIN run.counts :
        run.counts[j].published = Cardinality(Confirmed(run.plans[j].layer))

\* While nothing was counted as left out, each row read waits in the batch or has a label.
Swept ==
    Active /\ run.phase = "layers"
           /\ (\A c \in Counters \ {"published", "noGeometry"} : Counted[c] = 0) =>
        \A i \in DOMAIN Rows(Plan.layer) : i < run.row /\ Rows(Plan.layer)[i].shape # None =>
            \/ \E c \in DOMAIN run.chunk : run.chunk[c].row = i
            \/ \E x \in labels : /\ x.layer = Plan.layer /\ x.row = i /\ x.copy = runs
                                 /\ x.track = run.track /\ x.class = Plan.class

-----------------------------------------------------------------------------
(* The records.                                                              *)

\* The labels of a layer which a record speaks of: those confirmed before this run.
Before(l) == {x \in labels : x.layer = l /\ x.answered /\ (Active => x.copy # runs)}

\* A record r is of some of the labels in B, and of all of them where it can be.
On(B, t) == {x \in B : x.track = t}
Fits(B, r) ==
    r # None => /\ r.count \in 1..Cardinality(On(B, r.track))
                /\ \E x \in On(B, r.track) : x.to = r.to /\ x.class = r.class
Total(B, r) ==
    /\ r = None => B = {}
    /\ r # None /\ On(B, r.track) = B => r.count = Cardinality(B)

RecordsHold ==
    /\ Layers \ here \subseteq forgotten
    /\ \A l \in Layers : /\ Fits(Before(l), record[l]) /\ Fits(Before(l), saved[l])
                         /\ l \notin forgotten => Total(Before(l), record[l])
    /\ Active => \A i \in DOMAIN run.plans :
          LET p == run.plans[i]
          IN  /\ Fits(Before(p.layer), p.previous)
              /\ p.layer \notin forgotten => Total(Before(p.layer), p.previous)

-----------------------------------------------------------------------------
(* The invariant: of a run, and of the records.                              *)

Typed == RunTypes /\ RestTypes
Work == RunSound /\ Queue /\ OfPlans /\ Tally /\ Swept

-----------------------------------------------------------------------------
(* Operators of Drafts and of the preview.                                   *)

\* A nonempty set of natural numbers has a least one.
LEMMA LeastOf ==
    ASSUME NEW S \in SUBSET Nat, S # {}
    PROVE  \E i \in S : \A j \in S : i <= j
  <1>1. PICK i \in S : \A j \in S : ~(<<j, i>> \in OpToRel(<, Nat))
    BY NatLessThanWellFounded, WFMin
  <1>2. \A j \in S : ~(j < i)
    <2>1. ASSUME NEW j \in S, j < i PROVE FALSE
      <3>1. <<j, i>> \in OpToRel(<, Nat)
        BY <2>1 DEF OpToRel
      <3>. QED
        BY <1>1, <3>1
    <2>. QED
      BY <2>1
  <1>. QED
    BY <1>2

\* The first item of a sequence that is in a set is in both.
LEMMA FirstIn ==
    ASSUME NEW s, NEW S, s \in Seq(Items(s)), NEW x \in Items(s), x \in S
    PROVE  First(s, S) \in S /\ First(s, S) \in Items(s)
  <1>. DEFINE P == {i \in DOMAIN s : s[i] \in S}
  <1>1. DOMAIN s = 1..Len(s) /\ Len(s) \in Nat
    BY LenProperties
  <1>2. P \in SUBSET Nat /\ P # {}
    BY <1>1 DEF Items
  <1>3. PICK i \in P : \A j \in P : i <= j
    BY <1>2, LeastOf
  <1>4. i \in DOMAIN s /\ s[i] \in S /\ \A j \in 1..(i - 1) : s[j] \notin S
    BY <1>1, <1>2, <1>3
  <1>. DEFINE m == CHOOSE n \in DOMAIN s : s[n] \in S /\ \A j \in 1..(n - 1) : s[j] \notin S
  <1>5. m \in DOMAIN s /\ s[m] \in S
    BY <1>4
  <1>. QED
    BY <1>5 DEF First, Items

\* The one element of a set, if there is one.
LEMMA TheIn ==
    ASSUME NEW S
    PROVE  /\ The(S) # None => The(S) \in S
           /\ \A x : S = {x} => The(S) = x
  <1>1. ASSUME The(S) # None PROVE The(S) \in S
    <2>1. Cardinality(S) = 1 /\ The(S) = CHOOSE x \in S : TRUE
      BY <1>1 DEF The
    <2>2. S # {}
      BY <2>1, FS_EmptySet
    <2>. QED
      BY <2>1, <2>2
  <1>2. ASSUME NEW x, S = {x} PROVE The(S) = x
    <2>1. Cardinality(S) = 1
      BY <1>2, FS_Singleton
    <2>. QED
      BY <1>2, <2>1 DEF The
  <1>. QED
    BY <1>1, <1>2

\* A layer goes to a collection of the catalog, or to none.
LEMMA RouteIn ==
    ASSUME NEW wish, NEW type, CollectionFor(RoutesFor(wish), type) # None, RoutesFor(wish) # NoRoutes
    PROVE  CollectionFor(RoutesFor(wish), type) \in Items(Collections)
  <1>. DEFINE typed == {c \in Offered : TypedBy(WordsOf[c]) # None}
              stems == {StemOf(WordsOf[c]) : c \in typed}
              known == StemOf(wish) # <<>> /\ StemOf(wish) \in stems
              plain == {c \in Offered \ typed : WordsOf[c] = wish}
              stem == The(IF known THEN {StemOf(wish)} ELSE stems)
              group == {c \in typed : StemOf(WordsOf[c]) = stem}
              rest == {c \in Offered \ typed : WordsOf[c] = stem}
              families == [f \in {TypedBy(WordsOf[c]) : c \in group} |->
                             First(Collections, {c \in group : TypedBy(WordsOf[c]) = f})]
              routes == RoutesFor(wish)
  <1>1. \A S : S \subseteq Offered /\ S # {} => First(Collections, S) \in Items(Collections)
    <2>1. SUFFICES ASSUME NEW S, S \subseteq Offered, NEW x \in S
                   PROVE  First(Collections, S) \in Items(Collections)
      OBVIOUS
    <2>2. x \in Items(Collections)
      BY <2>1 DEF Offered
    <2>. QED
      BY <2>1, <2>2, FirstIn, BootstrapAssumption DEF BootstrapAssumption
  <1>2. \/ /\ routes = [families |-> <<>>, untyped |-> First(Collections, plain), stem |-> wish]
           /\ plain # {}
        \/ routes = [families |-> families,
                     untyped |-> IF rest = {} THEN None ELSE First(Collections, rest),
                     stem |-> stem]
    BY Zenon DEF RoutesFor, Routes
  <1>3. CASE /\ routes = [families |-> <<>>, untyped |-> First(Collections, plain), stem |-> wish]
             /\ plain # {}
    <2>1. DOMAIN routes.families = {} /\ routes.untyped = First(Collections, plain)
      BY <1>3
    <2>. QED
      BY <1>1, <1>3, <2>1 DEF CollectionFor
  <1>4. CASE routes = [families |-> families,
                       untyped |-> IF rest = {} THEN None ELSE First(Collections, rest),
                       stem |-> stem]
    <2>1. /\ routes.families = families
          /\ routes.untyped = IF rest = {} THEN None ELSE First(Collections, rest)
      BY <1>4
    <2>2. \A f \in DOMAIN families : families[f] \in Items(Collections)
      <3>1. SUFFICES ASSUME NEW c \in group
                     PROVE  First(Collections, {d \in group : TypedBy(WordsOf[d]) = TypedBy(WordsOf[c])})
                              \in Items(Collections)
        OBVIOUS
      <3>2. {d \in group : TypedBy(WordsOf[d]) = TypedBy(WordsOf[c])} \subseteq Offered
        OBVIOUS
      <3>3. c \in {d \in group : TypedBy(WordsOf[d]) = TypedBy(WordsOf[c])}
        OBVIOUS
      <3>. QED
        BY <1>1, <3>2, <3>3
    <2>3. rest \subseteq Offered
      OBVIOUS
    <2>. HIDE DEF families, rest
    <2>4. CASE Family(type) \in DOMAIN families
      BY <2>1, <2>2, <2>4 DEF CollectionFor
    <2>5. CASE Family(type) \notin DOMAIN families
      <3>1. CollectionFor(routes, type) = routes.untyped
        BY <2>1, <2>5 DEF CollectionFor
      <3>2. rest # {} /\ CollectionFor(routes, type) = First(Collections, rest)
        BY <2>1, <3>1
      <3>. QED
        BY <1>1, <2>3, <3>2
    <2>. QED
      BY <2>4, <2>5
  <1>. QED
    BY <1>2, <1>3, <1>4

\* The layers of the panel in an order: each once.
LEMMA OrderOnce ==
    ASSUME NEW order \in Orders
    PROVE  /\ DOMAIN order = 1..Len(Panel) /\ Len(Panel) \in Nat
           /\ \A i, j \in DOMAIN order : order[i] = order[j] => i = j
  <1>. DEFINE n == Len(Panel)
  <1>1. n \in Nat /\ DOMAIN Panel = 1..n /\ Panel \in [1..n -> Layers] /\ Cardinality(Layers) = n
    BY BootstrapAssumption, LenProperties, ElementOfSeq DEF BootstrapAssumption
  <1>2. order \in [1..n -> Layers] /\ Items(order) = Layers
    <2>1. CASE order = Panel
      BY <1>1, <2>1, BootstrapAssumption DEF BootstrapAssumption
    <2>2. CASE order # Panel
      BY <1>1, <2>2 DEF Orders
    <2>. QED
      BY <2>1, <2>2
  <1>3. order \in Surjection(1..n, Layers)
    BY <1>2 DEF Surjection, Items
  <1>4. IsFiniteSet(1..n) /\ Cardinality(1..n) = n
    <2>. HIDE DEF n
    <2>1. IsFiniteSet(1..n) /\ Cardinality(1..n) = IF 1 > n THEN 0 ELSE n - 1 + 1
      BY <1>1, FS_Interval
    <2>. QED
      BY <1>1, <2>1
  <1>5. order \in Injection(1..n, Layers)
    <2>. HIDE DEF n
    <2>1. Cardinality(1..n) = Cardinality(Layers)
      BY <1>1, <1>4
    <2>. QED
      BY <1>3, <1>4, <2>1, FS_SurjSameCardinalityImpliesInj, Zenon
  <1>. QED
    BY <1>1, <1>2, <1>5 DEF Injection, IsInjective

\* The layers chosen, in that order: each once.
LEMMA InOrderOnce ==
    ASSUME NEW order \in Orders, NEW S \in SUBSET Layers, NEW s \in InOrder(order, S)
    PROVE  /\ s \in Seq(S) /\ DOMAIN s = 1..Len(s)
           /\ \A i, j \in DOMAIN s : s[i] = s[j] => i = j
  <1>1. IsFiniteSet(Layers)
    <2>1. Len(Panel) \in Nat /\ DOMAIN Panel = 1..Len(Panel) /\ Items(Panel) = Layers
      BY BootstrapAssumption, LenProperties DEF BootstrapAssumption
    <2>2. Panel \in Surjection(1..Len(Panel), Layers)
      BY <2>1, BootstrapAssumption, ElementOfSeq
         DEF BootstrapAssumption, Surjection, Items
    <2>. QED
      BY <2>1, <2>2, FS_Surjection, FS_Interval
  <1>2. Cardinality(S) \in Nat
    BY <1>1, FS_Subset, FS_CardinalityType
  <1>3. s \in [1..Cardinality(S) -> S]
    BY DEF InOrder
  <1>4. s \in Seq(S) /\ DOMAIN s = 1..Len(s)
    BY <1>2, <1>3, LenProperties
  <1>5. ASSUME NEW i \in DOMAIN s, NEW j \in DOMAIN s, i < j, s[i] = s[j] PROVE FALSE
    <2>1. PICK a, b \in DOMAIN order : a < b /\ order[a] = s[i] /\ order[b] = s[j]
      BY <1>5 DEF InOrder
    <2>2. a = b
      BY <1>5, <2>1, OrderOnce
    <2>3. a \in Nat
      BY <2>1, OrderOnce
    <2>. QED
      BY <2>1, <2>2, <2>3
  <1>. QED
    BY <1>2, <1>3, <1>4, <1>5

-----------------------------------------------------------------------------
(* The parts of a run.                                                       *)

\* A run under way.
LEMMA RunParts ==
    ASSUME NEW r \in Publishes
    PROVE  /\ r # NoRun /\ r.phase \in {"styles", "layers", "ended"} /\ r.track \in Tracks
           /\ r.plans \in Seq(Plans) /\ DOMAIN r.plans = 1..Len(r.plans) /\ Len(r.plans) \in Nat
           /\ \A i \in DOMAIN r.plans : r.plans[i] \in Plans
           /\ r.chunk \in Seq(Queued) /\ DOMAIN r.chunk = 1..Len(r.chunk) /\ Len(r.chunk) \in Nat
           /\ \A i \in DOMAIN r.chunk : r.chunk[i] \in Queued
           /\ r.counts \in Seq(Tallies) /\ DOMAIN r.counts = 1..Len(r.counts)
           /\ Len(r.counts) \in Nat /\ \A i \in DOMAIN r.counts : r.counts[i] \in Tallies
           /\ r.at \in Nat /\ r.row \in Nat /\ r.cancelled \in BOOLEAN
           /\ r.asked \subseteq Layers /\ r.styled \subseteq Ids
  <1>1. /\ r.phase \in {"styles", "layers", "ended"} /\ r.track \in Tracks
        /\ r.plans \in Seq(Plans) /\ r.chunk \in Seq(Queued) /\ r.counts \in Seq(Tallies)
        /\ r.at \in Nat /\ r.row \in Nat /\ r.cancelled \in BOOLEAN
        /\ r.asked \subseteq Layers /\ r.styled \subseteq Ids
    BY DEF Publishes
  <1>2. r # NoRun
    BY <1>1 DEF NoRun
  <1>3. DOMAIN r.plans = 1..Len(r.plans) /\ Len(r.plans) \in Nat
        /\ \A i \in DOMAIN r.plans : r.plans[i] \in Plans
    BY <1>1, LenProperties, ElementOfSeq
  <1>4. DOMAIN r.chunk = 1..Len(r.chunk) /\ Len(r.chunk) \in Nat
        /\ \A i \in DOMAIN r.chunk : r.chunk[i] \in Queued
    BY <1>1, LenProperties, ElementOfSeq
  <1>5. DOMAIN r.counts = 1..Len(r.counts) /\ Len(r.counts) \in Nat
        /\ \A i \in DOMAIN r.counts : r.counts[i] \in Tallies
    BY <1>1, LenProperties, ElementOfSeq
  <1>. QED
    BY <1>1, <1>2, <1>3, <1>4, <1>5

\* A plan is for a layer, a class and a collection.
LEMMA PlanParts ==
    ASSUME NEW p \in Plans
    PROVE  /\ p.layer \in Layers /\ p.class \in Ids /\ p.to \in Items(Collections)
           /\ p.previous \in Records \cup {None} /\ p.extent \in Completeness
           /\ p.skip \in BOOLEAN
  BY DEF Plans

\* The rows of a layer.
LEMMA RowsParts ==
    ASSUME NEW l \in Layers
    PROVE  DOMAIN Rows(l) = 1..Len(Rows(l)) /\ Len(Rows(l)) \in Nat
  BY BootstrapAssumption, LenProperties DEF BootstrapAssumption, Rows

\* What counting changes.
LEMMA CountParts ==
    ASSUME run \in Publishes, run.at \in DOMAIN run.counts, NEW c \in Counters, NEW n \in Nat
    PROVE  /\ Count(c, n) \in Seq(Tallies) /\ DOMAIN Count(c, n) = DOMAIN run.counts
           /\ Len(Count(c, n)) = Len(run.counts)
           /\ \A j \in DOMAIN run.counts : j # run.at => Count(c, n)[j] = run.counts[j]
           /\ \A d \in Counters :
                 Count(c, n)[run.at][d] = Counted[d] + (IF d = c THEN n ELSE 0)
  <1>. DEFINE t == [run.counts[run.at] EXCEPT ![c] = @ + n]
  <1>1. run.counts \in Seq(Tallies) /\ run.counts[run.at] \in Tallies
        /\ DOMAIN run.counts = 1..Len(run.counts) /\ Len(run.counts) \in Nat
    BY RunParts
  <1>. DEFINE u == run.counts[run.at]
  <1>2. t \in Tallies /\ \A d \in Counters : t[d] = u[d] + (IF d = c THEN n ELSE 0)
    <2>1. u \in [Counters -> Nat] /\ t = [u EXCEPT ![c] = u[c] + n]
      BY <1>1 DEF Tallies
    <2>. HIDE DEF u, t
    <2>2. u[c] + n \in Nat /\ \A d \in Counters : u[d] \in Nat
      BY <2>1
    <2>. QED
      BY <2>1, <2>2 DEF Tallies
  <1>3. \A d \in Counters : t[d] = Counted[d] + (IF d = c THEN n ELSE 0)
    BY <1>2 DEF Counted
  <1>4. Count(c, n) = [run.counts EXCEPT ![run.at] = t]
    BY Zenon DEF Count
  <1>. HIDE DEF t
  <1>5. Count(c, n) \in [1..Len(run.counts) -> Tallies]
    BY <1>1, <1>2, <1>4
  <1>6. Count(c, n) \in Seq(Tallies) /\ DOMAIN Count(c, n) = DOMAIN run.counts
        /\ Len(Count(c, n)) = Len(run.counts)
    BY <1>1, <1>5
  <1>. QED
    BY <1>1, <1>3, <1>4, <1>6

\* What a report says of a layer that has nothing but labels.
LEMMA OnlyPublished ==
    ASSUME NEW n \in Nat
    PROVE  /\ [Zero EXCEPT !.published = @ + n] \in Tallies
           /\ [Zero EXCEPT !.published = @ + n].published = n
  <1>1. Zero \in [Counters -> Nat] /\ Zero["published"] = 0 /\ "published" \in Counters
    BY DEF Zero, Counters
  <1>. QED
    BY <1>1 DEF Tallies

\* The end of a run keeps what the records are made from.
Alike(r, s) ==
    /\ s.track = r.track /\ DOMAIN s.plans = DOMAIN r.plans /\ Len(s.plans) = Len(r.plans)
    /\ \A i \in DOMAIN r.plans :
          /\ s.plans[i].layer = r.plans[i].layer /\ s.plans[i].class = r.plans[i].class
          /\ s.plans[i].to = r.plans[i].to /\ s.plans[i].previous = r.plans[i].previous

LEMMA EndParts ==
    ASSUME NEW r \in Publishes
    PROVE  /\ Ended(r) \in Publishes /\ Ended(r).phase = "ended" /\ Ended(r).chunk = <<>>
           /\ Alike(r, Ended(r))
           /\ DOMAIN Ended(r).counts = DOMAIN r.counts /\ Len(Ended(r).counts) = Len(r.counts)
           /\ \A j \in DOMAIN r.counts : Ended(r).counts[j].published = r.counts[j].published
  <1>. DEFINE plans == [i \in DOMAIN r.plans |->
                          [r.plans[i] EXCEPT !.extent = "", !.skip = FALSE, !.styles = FALSE]]
              counts == [i \in DOMAIN r.counts |->
                          [Zero EXCEPT !.published = @ + r.counts[i].published]]
              s == [r EXCEPT !.phase = "ended", !.styled = {}, !.at = 1, !.row = 1,
                             !.chunk = <<>>, !.asked = {}, !.cancelled = FALSE,
                             !.plans = plans, !.counts = counts]
  <1>1. Ended(r) = s
    BY Zenon DEF Ended
  <1>p. ASSUME NEW p \in Plans
        PROVE  LET e == [p EXCEPT !.extent = "", !.skip = FALSE, !.styles = FALSE]
               IN  /\ e \in Plans /\ e.layer = p.layer /\ e.class = p.class
                   /\ e.to = p.to /\ e.previous = p.previous
    BY DEF Plans, Completeness
  <1>q. \A i \in DOMAIN r.plans :
           /\ plans[i] \in Plans /\ plans[i].layer = r.plans[i].layer
           /\ plans[i].class = r.plans[i].class
           /\ plans[i].to = r.plans[i].to /\ plans[i].previous = r.plans[i].previous
    <2>1. SUFFICES ASSUME NEW i \in DOMAIN r.plans
                   PROVE  /\ plans[i] \in Plans /\ plans[i].layer = r.plans[i].layer
                          /\ plans[i].class = r.plans[i].class
                          /\ plans[i].to = r.plans[i].to /\ plans[i].previous = r.plans[i].previous
      BY Zenon
    <2>2. r.plans[i] \in Plans
      BY RunParts
    <2>3. plans[i] = [r.plans[i] EXCEPT !.extent = "", !.skip = FALSE, !.styles = FALSE]
      BY Zenon
    <2>. HIDE DEF plans
    <2>. QED
      BY <1>p, <2>2, <2>3
  <1>2. plans \in [1..Len(r.plans) -> Plans] /\ Len(r.plans) \in Nat
    <2>1. DOMAIN r.plans = 1..Len(r.plans) /\ Len(r.plans) \in Nat
      BY RunParts
    <2>2. plans \in [DOMAIN r.plans -> Plans]
      BY <1>q, Zenon
    <2>. QED
      BY <2>1, <2>2
  <1>3. counts \in [1..Len(r.counts) -> Tallies] /\ Len(r.counts) \in Nat
    <2>1. \A i \in DOMAIN r.counts : r.counts[i].published \in Nat
      BY RunParts DEF Tallies, Counters
    <2>2. \A i \in DOMAIN r.counts : counts[i] \in Tallies
      BY <2>1, OnlyPublished
    <2>. QED
      BY <2>2, RunParts
  <1>4. \A j \in DOMAIN r.counts : counts[j].published = r.counts[j].published
    <2>1. \A i \in DOMAIN r.counts : r.counts[i].published \in Nat
      BY RunParts DEF Tallies, Counters
    <2>. QED
      BY <2>1, OnlyPublished
  <1>5. \A i \in DOMAIN r.plans :
           /\ plans[i].layer = r.plans[i].layer /\ plans[i].class = r.plans[i].class
           /\ plans[i].to = r.plans[i].to /\ plans[i].previous = r.plans[i].previous
    BY <1>q
  <1>. HIDE DEF plans, counts
  <1>6. plans \in Seq(Plans) /\ DOMAIN plans = DOMAIN r.plans /\ Len(plans) = Len(r.plans)
    BY <1>2, RunParts
  <1>7. counts \in Seq(Tallies) /\ DOMAIN counts = DOMAIN r.counts /\ Len(counts) = Len(r.counts)
    BY <1>3, RunParts
  <1>8. s \in Publishes
    <2>1. /\ <<>> \in Seq(Queued) /\ r.track \in Tracks /\ "ended" \in {"styles", "layers", "ended"}
          /\ {} \in SUBSET Layers /\ {} \in SUBSET Ids /\ 1 \in Nat /\ FALSE \in BOOLEAN
      BY RunParts
    <2>. QED
      BY <1>6, <1>7, <2>1, Zenon DEF Publishes
  <1>9. /\ s.phase = "ended" /\ s.chunk = <<>> /\ s.track = r.track
        /\ s.plans = plans /\ s.counts = counts
    BY DEF Publishes
  <1>. HIDE DEF s
  <1>. QED
    BY <1>1, <1>4, <1>5, <1>6, <1>7, <1>8, <1>9 DEF Alike

-----------------------------------------------------------------------------
(* The steps of a run.                                                       *)

LEMMA WorkingParts ==
    ASSUME RunTypes, NEW p \in {"styles", "layers", "ended"}, Working(p)
    PROVE  run \in Publishes /\ Active /\ run.phase = p
  <1>1. run # NoRun
    BY DEF Working, NoRun
  <1>. QED
    BY <1>1 DEF RunTypes, Working, Active

\* A step of the worker which neither counts nor queues.
Goes(r, s) ==
    /\ s \in Publishes /\ Alike(r, s)
    /\ DOMAIN s.counts = DOMAIN r.counts /\ Len(s.counts) = Len(r.counts)
    /\ \A j \in DOMAIN r.counts : s.counts[j].published = r.counts[j].published

LEMMA EndGoes ==
    ASSUME NEW r \in Publishes
    PROVE  Goes(r, Ended(r)) /\ Ended(r).phase = "ended" /\ Ended(r).chunk = <<>>
  BY EndParts DEF Goes

\* The parts which a step leaves alone.
SameWork(r, s) ==
    /\ s.phase = r.phase /\ s.at = r.at /\ s.row = r.row
    /\ s.chunk = r.chunk /\ s.counts = r.counts /\ s.plans = r.plans /\ s.track = r.track

LEMMA SaveStyleParts ==
    ASSUME RunTypes, SaveStyle
    PROVE  /\ run \in Publishes /\ run' \in Publishes
           /\ SameWork(run, run') \/ run' = Ended(run)
           /\ UNCHANGED <<viewVars, projectVars, runs, serverVars>>
  <1>1. run \in Publishes
    BY WorkingParts DEF SaveStyle
  <1>2. Unstyled \in SUBSET Nat /\ Unstyled # {}
    BY <1>1, RunParts DEF Unstyled, SaveStyle
  <1>. DEFINE m == CHOOSE i \in Unstyled : \A j \in Unstyled : i <= j
              s == [run EXCEPT !.styled = @ \cup {run.plans[m].class}]
  <1>3. m \in Unstyled
    BY <1>2, LeastOf
  <1>4. run.plans[m].class \in Ids
    BY <1>1, <1>3, RunParts, PlanParts DEF Unstyled
  <1>5. run' = s \/ run' = Ended(run)
    BY Zenon DEF SaveStyle, Toward
  <1>6. s \in Publishes
    <2>1. run.styled \cup {run.plans[m].class} \in SUBSET Ids
      BY <1>1, <1>4, RunParts
    <2>. QED
      BY <1>1, <2>1, Zenon DEF Publishes
  <1>7. SameWork(run, s)
    BY <1>1 DEF Publishes, SameWork
  <1>. QED
    BY <1>1, <1>5, <1>6, <1>7, EndParts DEF SaveStyle, Toward

LEMMA StylesDoneParts ==
    ASSUME RunTypes, StylesDone
    PROVE  /\ run \in Publishes /\ run.phase = "styles" /\ run' \in Publishes
           /\ \/ run' = Ended(run)
              \/ /\ run'.phase = "layers" /\ run'.counts = <<Zero>> /\ run'.plans = run.plans
                 /\ run'.track = run.track /\ run'.at = run.at /\ run'.row = run.row
                 /\ run'.chunk = run.chunk
           /\ UNCHANGED <<viewVars, projectVars, runs, serverVars>>
  <1>1. run \in Publishes /\ run.phase = "styles"
    BY WorkingParts DEF StylesDone
  <1>. DEFINE k == <<Zero>>
              s == [run EXCEPT !.phase = "layers", !.counts = k]
  <1>2. run' = Ended(run) \/ run' = s
    BY Zenon DEF StylesDone, Toward
  <1>3. k \in Seq(Tallies)
    <2>1. Zero \in Tallies
      BY DEF Zero, Tallies
    <2>. QED
      BY <2>1
  <1>. HIDE DEF k
  <1>4. s \in Publishes
    <2>1. "layers" \in {"styles", "layers", "ended"}
      OBVIOUS
    <2>. QED
      BY <1>1, <1>3, <2>1, Zenon DEF Publishes
  <1>5. /\ s.phase = "layers" /\ s.counts = k /\ s.plans = run.plans /\ s.track = run.track
        /\ s.at = run.at /\ s.row = run.row /\ s.chunk = run.chunk
    BY <1>1 DEF Publishes
  <1>6. UNCHANGED <<viewVars, projectVars, runs, serverVars>>
    BY DEF StylesDone, Toward
  <1>. QED
    BY <1>1, <1>2, <1>4, <1>5, <1>6, EndParts DEF k

LEMMA CancelParts ==
    ASSUME RunTypes, Cancel
    PROVE  /\ run \in Publishes /\ run' \in Publishes /\ SameWork(run, run')
           /\ UNCHANGED <<viewVars, projectVars, runs, serverVars>>
  <1>1. run \in Publishes
    BY WorkingParts DEF Cancel, Working
  <1>. DEFINE s == [run EXCEPT !.cancelled = TRUE]
  <1>2. s \in Publishes
    BY <1>1, Zenon DEF Publishes
  <1>3. SameWork(run, s)
    BY <1>1 DEF Publishes, SameWork
  <1>. QED
    BY <1>1, <1>2, <1>3 DEF Cancel, Toward

\* Where the worker is in a layer.
InLayer ==
    /\ run \in Publishes /\ Active /\ run.phase = "layers"
    /\ run.at \in DOMAIN run.plans /\ run.at \in DOMAIN run.counts
    /\ run.at = Len(run.counts) /\ run.row >= 1
    /\ Plan \in Plans /\ Plan.layer \in Layers
    /\ Counted \in Tallies /\ \A c \in Counters : Counted[c] \in Nat

LEMMA AtLayer ==
    ASSUME RunTypes, RunSound, Working("layers")
    PROVE  InLayer
  <1>1. run \in Publishes /\ Active /\ run.phase = "layers"
    BY WorkingParts
  <1>2. run.at = Len(run.counts) /\ run.at >= 1 /\ run.row >= 1 /\ Len(run.counts) <= Len(run.plans)
    BY <1>1 DEF RunSound, Placed
  <1>3. run.at \in DOMAIN run.plans /\ run.at \in DOMAIN run.counts
    BY <1>1, <1>2, RunParts
  <1>4. Plan \in Plans /\ Counted \in Tallies
    BY <1>1, <1>3, RunParts DEF Plan, Counted
  <1>5. Plan.layer \in Layers /\ \A c \in Counters : Counted[c] \in Nat
    BY <1>4, PlanParts DEF Tallies
  <1>. QED
    BY <1>1, <1>2, <1>3, <1>4, <1>5 DEF InLayer

\* A row which is read waits in the batch, or is counted as what keeps it out.
LEMMA ReadParts ==
    ASSUME InLayer, ReadRow
    PROVE  /\ run' \in Publishes /\ run'.phase = "layers" /\ run'.at = run.at
           /\ run'.row = run.row + 1 /\ run.row \in DOMAIN Rows(Plan.layer)
           /\ run'.plans = run.plans /\ run'.track = run.track
           /\ \/ /\ run'.counts = run.counts
                 /\ \E q \in Queued : q.row = run.row /\ run'.chunk = Append(run.chunk, q)
              \/ \E c \in Counters \ {"published"} :
                    /\ run'.chunk = run.chunk /\ run'.counts = Count(c, 1)
                    /\ c = "noGeometry" => Rows(Plan.layer)[run.row].shape = None
           /\ UNCHANGED <<viewVars, projectVars, runs, serverVars>>
  <1>. DEFINE row == Rows(Plan.layer)[run.row]
              class == Class(Plan.class)
              q == [row |-> run.row, draft |-> Draft(row, Source[Plan.layer].columns, class, Plan.skip)]
              s == [run EXCEPT !.row = @ + 1, !.chunk = Append(@, q)]
              t == [run EXCEPT !.row = @ + 1, !.counts = Count(Fate(row, class), 1)]
  <1>1. run' = IF Fate(row, class) = "drafted" THEN s ELSE t
    BY Zenon DEF ReadRow, Toward
  <1>2. run.row \in DOMAIN Rows(Plan.layer)
    <2>1. run.row <= Len(Rows(Plan.layer)) /\ run.row \in Nat /\ run.row >= 1
      BY RunParts DEF ReadRow, Left, InLayer
    <2>. QED
      BY <2>1, RowsParts DEF InLayer
  <1>3. q \in Queued /\ q.row = run.row
    <2>1. Plan.layer \in Layers /\ run.row \in Nat /\ Plan.class \in Ids /\ Plan.skip \in BOOLEAN
      BY RunParts, PlanParts DEF InLayer
    <2>. QED
      BY <2>1 DEF Queued
  <1>4. run.row + 1 \in Nat
    BY RunParts DEF InLayer
  <1>5. ASSUME Fate(row, class) = "drafted"
        PROVE  /\ run' \in Publishes /\ run'.phase = "layers" /\ run'.at = run.at
               /\ run'.row = run.row + 1 /\ run'.plans = run.plans /\ run'.track = run.track
               /\ run'.counts = run.counts /\ run'.chunk = Append(run.chunk, q)
    <2>. DEFINE k == Append(run.chunk, q)
    <2>1. k \in Seq(Queued)
      BY <1>3, RunParts DEF InLayer
    <2>. HIDE DEF q, k
    <2>2. run' = [run EXCEPT !.row = run.row + 1, !.chunk = k]
      BY <1>1, <1>5, Zenon DEF k
    <2>3. run \in Publishes /\ run.phase = "layers"
      BY DEF InLayer
    <2>4. run' \in Publishes
      BY <1>4, <2>1, <2>2, <2>3, Zenon DEF Publishes
    <2>5. /\ run'.phase = run.phase /\ run'.at = run.at /\ run'.row = run.row + 1
          /\ run'.plans = run.plans /\ run'.track = run.track
          /\ run'.counts = run.counts /\ run'.chunk = k
      BY <2>2, <2>3 DEF Publishes
    <2>. QED
      BY <2>3, <2>4, <2>5 DEF k
  <1>6. ASSUME Fate(row, class) # "drafted"
        PROVE  /\ run' \in Publishes /\ run'.phase = "layers" /\ run'.at = run.at
               /\ run'.row = run.row + 1 /\ run'.plans = run.plans /\ run'.track = run.track
               /\ run'.chunk = run.chunk /\ run'.counts = Count(Fate(row, class), 1)
               /\ Fate(row, class) \in Counters \ {"published"}
               /\ Fate(row, class) = "noGeometry" => row.shape = None
    <2>. DEFINE k == Count(Fate(row, class), 1)
    <2>1. /\ Fate(row, class) \in Counters \ {"published"}
          /\ Fate(row, class) = "noGeometry" => row.shape = None
      BY <1>6 DEF Fate, Counters
    <2>2. k \in Seq(Tallies)
      BY <2>1, CountParts DEF InLayer
    <2>. HIDE DEF k
    <2>3. run' = [run EXCEPT !.row = run.row + 1, !.counts = k]
      BY <1>1, <1>6, Zenon DEF k
    <2>4. run \in Publishes /\ run.phase = "layers"
      BY DEF InLayer
    <2>5. run' \in Publishes
      BY <1>4, <2>2, <2>3, <2>4, Zenon DEF Publishes
    <2>6. /\ run'.phase = run.phase /\ run'.at = run.at /\ run'.row = run.row + 1
          /\ run'.plans = run.plans /\ run'.track = run.track
          /\ run'.counts = k /\ run'.chunk = run.chunk
      BY <2>3, <2>4 DEF Publishes
    <2>. QED
      BY <2>1, <2>4, <2>5, <2>6 DEF k
  <1>7. UNCHANGED <<viewVars, projectVars, runs, serverVars>>
    BY DEF ReadRow, Toward
  <1>. HIDE DEF q
  <1>8. CASE Fate(row, class) = "drafted"
    BY <1>2, <1>3, <1>5, <1>7, <1>8
  <1>9. CASE Fate(row, class) # "drafted"
    BY <1>2, <1>6, <1>7, <1>9
  <1>. QED
    BY <1>8, <1>9

\* A batch of labels: one for each row that waits, none of them there before.
LEMMA SentParts ==
    ASSUME InLayer, Queue, runs \in Nat, NEW a \in BOOLEAN
    PROVE  /\ Sent(a) \subseteq Labels /\ Sent(a) \cap labels = {}
           /\ \A x \in Sent(a) :
                 /\ x.layer = Plan.layer /\ x.class = Plan.class /\ x.track = run.track
                 /\ x.to = Plan.to /\ x.copy = runs /\ x.answered = a
                 /\ \E i \in DOMAIN run.chunk : x.row = run.chunk[i].row
           /\ \A i \in DOMAIN run.chunk : \E x \in Sent(a) : x.row = run.chunk[i].row
           /\ IsFiniteSet(Sent(a)) /\ Cardinality(Sent(a)) = Len(run.chunk)
  <1>. DEFINE n == Len(run.chunk)
              label(c) == [layer |-> Plan.layer, row |-> c.row, class |-> Plan.class,
                           track |-> run.track, to |-> Plan.to, copy |-> runs, answered |-> a]
              f == [i \in 1..n |-> label(run.chunk[i])]
  <1>1. n \in Nat /\ DOMAIN run.chunk = 1..n /\ \A i \in 1..n : run.chunk[i] \in Queued
    BY RunParts DEF InLayer
  <1>2. \A i \in 1..n : run.chunk[i].row \in Nat
    BY <1>1 DEF Queued
  <1>3. Sent(a) = {label(run.chunk[i]) : i \in 1..n}
    <2>1. Items(run.chunk) = {run.chunk[i] : i \in 1..n}
      BY <1>1 DEF Items
    <2>. QED
      BY <2>1 DEF Sent
  <1>4. \A x \in Sent(a) : \E i \in 1..n : x = label(run.chunk[i])
    BY <1>3
  <1>5. \A i \in 1..n : label(run.chunk[i]) \in Sent(a)
    BY <1>3
  <1>6. \A x \in Sent(a) :
           /\ x.layer = Plan.layer /\ x.class = Plan.class /\ x.track = run.track
           /\ x.to = Plan.to /\ x.copy = runs /\ x.answered = a
           /\ \E i \in DOMAIN run.chunk : x.row = run.chunk[i].row
    BY <1>1, <1>4
  <1>7. \A i \in DOMAIN run.chunk : \E x \in Sent(a) : x.row = run.chunk[i].row
    <2>1. SUFFICES ASSUME NEW i \in 1..n PROVE \E x \in Sent(a) : x.row = run.chunk[i].row
      BY <1>1
    <2>2. label(run.chunk[i]).row = run.chunk[i].row
      OBVIOUS
    <2>. QED
      BY <1>5, <2>2
  <1>8. Sent(a) \subseteq Labels
    <2>1. SUFFICES ASSUME NEW i \in 1..n PROVE label(run.chunk[i]) \in Labels
      BY <1>4
    <2>2. /\ Plan.layer \in Layers /\ Plan.class \in Ids /\ Plan.to \in Items(Collections)
          /\ run.track \in Tracks /\ run.chunk[i].row \in Nat
      BY <1>2, RunParts, PlanParts DEF InLayer
    <2>. QED
      BY <2>2 DEF Labels
  <1>9. Sent(a) \cap labels = {}
    <2>1. SUFFICES ASSUME NEW x \in Sent(a), x \in labels PROVE FALSE
      OBVIOUS
    <2>. QED
      BY <1>6, <2>1 DEF InLayer, Queue
  <1>10. f \in Bijection(1..n, Sent(a))
    <2>1. f \in [1..n -> Sent(a)]
      BY <1>5
    <2>2. \A x \in Sent(a) : \E i \in 1..n : f[i] = x
      BY <1>4
    <2>3. ASSUME NEW i \in 1..n, NEW j \in 1..n, f[i] = f[j] PROVE i = j
      <3>1. label(run.chunk[i]) = label(run.chunk[j])
        BY <2>3
      <3>2. label(run.chunk[i]).row = label(run.chunk[j]).row
        BY <3>1
      <3>3. run.chunk[i].row = run.chunk[j].row
        BY <3>2
      <3>. QED
        BY <1>1, <3>3 DEF InLayer, Queue
    <2>. HIDE DEF f
    <2>4. \A i, j \in DOMAIN f : f[i] = f[j] => i = j
      BY <2>1, <2>3
    <2>. QED
      BY <2>1, <2>2, <2>4 DEF Bijection, Injection, Surjection, IsInjective
  <1>. HIDE DEF f, n
  <1>11. ExistsBijection(1..n, Sent(a))
    BY <1>10 DEF ExistsBijection
  <1>12. IsFiniteSet(Sent(a)) /\ Cardinality(Sent(a)) = n
    BY <1>1, <1>11, FS_NatBijection, FS_CountingElements
  <1>. QED
    BY <1>6, <1>7, <1>8, <1>9, <1>12 DEF n

\* What a batch leaves: labels and their number, or a feature that was left out.
Published ==
    /\ labels' = labels \cup Sent(TRUE)
    /\ run'.counts = Count("published", Len(run.chunk))

LeftOutSome ==
    /\ labels' \in {labels, labels \cup Sent(FALSE)}
    /\ Len(run'.counts) = Len(run.counts)
    /\ \A j \in DOMAIN run.counts : j # run.at => run'.counts[j] = run.counts[j]
    /\ run'.counts[run.at]["published"] = Counted["published"]
    /\ \E c \in Counters \ {"published", "noGeometry"} : run'.counts[run.at][c] # 0

LEMMA FlushParts ==
    ASSUME InLayer, Flush
    PROVE  /\ run' \in Publishes /\ run'.phase = "layers" /\ run'.at = run.at
           /\ run'.row = run.row /\ run'.plans = run.plans /\ run'.track = run.track
           /\ run'.chunk = <<>> /\ (Published \/ LeftOutSome)
           /\ UNCHANGED <<viewVars, projectVars, runs, extents>>
  <1>. DEFINE n == Len(run.chunk)
              u == [run EXCEPT !.cancelled = TRUE]
              sent(c, r) == run' = [r EXCEPT !.counts = Count(c, n), !.chunk = <<>>]
              landed == labels' \in {labels, labels \cup Sent(FALSE)}
              split == [run EXCEPT !.chunk = <<>>,
                            !.counts[run.at].failed = @ + 1, !.counts[run.at].notCreated = @ + n - 1]
              m == [Counted EXCEPT !["failed"] = @ + 1, !["notCreated"] = @ + n - 1]
              k == [run.counts EXCEPT ![run.at] = m]
              Stays(s) == /\ s \in Publishes /\ s.phase = "layers" /\ s.at = run.at
                         /\ s.row = run.row /\ s.plans = run.plans /\ s.track = run.track
                         /\ s.chunk = <<>>
  <1>1. n \in Nat /\ n >= 1
    <2>1. run.chunk \in Seq(Queued) /\ run.chunk # <<>>
      BY RunParts DEF InLayer, Flush
    <2>. QED
      BY <2>1, EmptySeq
  <1>2. run \in Publishes /\ run.phase = "layers" /\ <<>> \in Seq(Queued)
    BY DEF InLayer
  <1>3. ASSUME NEW r \in Publishes, SameWork(run, r), NEW d \in Seq(Tallies)
        PROVE  Stays([r EXCEPT !.counts = d, !.chunk = <<>>])
               /\ [r EXCEPT !.counts = d, !.chunk = <<>>].counts = d
    <2>. DEFINE s == [r EXCEPT !.counts = d, !.chunk = <<>>]
    <2>1. s \in Publishes
      BY <1>2, <1>3, Zenon DEF Publishes
    <2>2. /\ s.phase = r.phase /\ s.at = r.at /\ s.row = r.row /\ s.plans = r.plans
          /\ s.track = r.track /\ s.chunk = <<>> /\ s.counts = d
      BY <1>3 DEF Publishes
    <2>. QED
      BY <1>2, <1>3, <2>1, <2>2 DEF SameWork
  <1>4. u \in Publishes /\ SameWork(run, u) /\ SameWork(run, run)
    BY <1>2 DEF Publishes, SameWork
  <1>5. \/ labels' = labels \cup Sent(TRUE) /\ sent("published", run)
        \/ /\ landed
           /\ \E c \in Counters \ {"published", "noGeometry"} : sent(c, run) \/ sent(c, u)
        \/ labels' = labels /\ run' = split
    <2>1. \A c \in {"notSent", "unverified", "failed", "notCreated"} :
             c \in Counters \ {"published", "noGeometry"}
      BY DEF Counters
    <2>. HIDE DEF u, split
    <2>2. \/ labels' = labels /\ sent("notSent", run)
          \/ labels' = labels \cup Sent(TRUE) /\ sent("published", run)
          \/ landed /\ sent(IF Bulk THEN "unverified" ELSE "failed", run)
          \/ labels' = labels /\ sent("notCreated", run)
          \/ labels' = labels /\ run' = split
          \/ landed /\ sent(IF Bulk THEN "unverified" ELSE "notSent", u)
      BY DEF Flush, Toward, u, split
    <2>. QED
      BY <2>1, <2>2
  <1>6. ASSUME NEW r \in Publishes, SameWork(run, r), NEW c \in Counters, sent(c, r)
        PROVE  Stays(run') /\ run'.counts = Count(c, n)
    <2>1. Count(c, n) \in Seq(Tallies)
      BY <1>1, CountParts DEF InLayer
    <2>. QED
      BY <1>3, <1>6, <2>1
  <1>7. UNCHANGED <<viewVars, projectVars, runs, extents>>
    BY DEF Flush, Toward
  <1>8. CASE labels' = labels \cup Sent(TRUE) /\ sent("published", run)
    <2>1. "published" \in Counters
      BY DEF Counters
    <2>2. Stays(run') /\ run'.counts = Count("published", n)
      BY <1>2, <1>4, <1>6, <1>8, <2>1
    <2>. QED
      BY <1>7, <1>8, <2>2 DEF Published
  <1>9. CASE /\ landed
             /\ \E c \in Counters \ {"published", "noGeometry"} : sent(c, run) \/ sent(c, u)
    <2>1. PICK c \in Counters \ {"published", "noGeometry"} : sent(c, run) \/ sent(c, u)
      BY <1>9
    <2>2. Stays(run') /\ run'.counts = Count(c, n)
      BY <1>2, <1>4, <1>6, <2>1
    <2>3. /\ Len(Count(c, n)) = Len(run.counts)
          /\ \A j \in DOMAIN run.counts : j # run.at => Count(c, n)[j] = run.counts[j]
          /\ \A d \in Counters :
                Count(c, n)[run.at][d] = Counted[d] + (IF d = c THEN n ELSE 0)
      BY <1>1, CountParts DEF InLayer
    <2>4. /\ Count(c, n)[run.at]["published"] = Counted["published"]
          /\ Count(c, n)[run.at][c] # 0
      <3>1. "published" \in Counters /\ Counted["published"] \in Nat /\ Counted[c] \in Nat
        BY DEF InLayer, Counters
      <3>. QED
        BY <1>1, <2>3, <3>1
    <2>. HIDE DEF n
    <2>5. LeftOutSome
      BY <1>9, <2>2, <2>3, <2>4 DEF LeftOutSome
    <2>. QED
      BY <1>7, <2>2, <2>5
  <1>10. CASE labels' = labels /\ run' = split
    <2>1. /\ {"failed", "notCreated", "published"} \subseteq Counters
          /\ Counted \in [Counters -> Nat]
      BY DEF InLayer, Counters, Tallies
    <2>2. /\ m \in Tallies /\ m["published"] = Counted["published"] /\ m["failed"] # 0
      <3>1. Counted["failed"] + 1 \in Nat /\ Counted["notCreated"] + n - 1 \in Nat
        BY <1>1, <2>1
      <3>. QED
        BY <1>1, <2>1, <3>1 DEF Tallies
    <2>3. split = [run EXCEPT !.counts = k, !.chunk = <<>>]
      <3>1. /\ run = [f \in DOMAIN run |-> run[f]]
            /\ "counts" \in DOMAIN run /\ "chunk" \in DOMAIN run
        BY <1>2 DEF Publishes
      <3>2. /\ run.counts \in [1..Len(run.counts) -> Tallies] /\ run.at \in 1..Len(run.counts)
            /\ run.counts[run.at] \in [Counters -> Nat] /\ Counted = run.counts[run.at]
        BY <2>1, RunParts DEF InLayer, Counted
      <3>3. "failed" \in Counters /\ "notCreated" \in Counters
        BY <2>1
      <3>. QED
        BY <1>1, <3>1, <3>2, <3>3
    <2>. HIDE DEF m, split, n
    <2>4. /\ k \in Seq(Tallies) /\ Len(k) = Len(run.counts) /\ k[run.at] = m
          /\ \A j \in DOMAIN run.counts : j # run.at => k[j] = run.counts[j]
      BY <2>2, RunParts DEF InLayer
    <2>. HIDE DEF k
    <2>5. Stays(run') /\ run'.counts = k
      BY <1>2, <1>3, <1>4, <1>10, <2>3, <2>4
    <2>6. LeftOutSome
      <3>1. "failed" \in Counters \ {"published", "noGeometry"}
        BY DEF Counters
      <3>. QED
        BY <1>10, <2>2, <2>4, <2>5, <3>1 DEF LeftOutSome
    <2>. QED
      BY <1>7, <2>5, <2>6
  <1>. QED
    BY <1>5, <1>8, <1>9, <1>10

LEMMA RaiseParts ==
    ASSUME InLayer, Raise
    PROVE  /\ run' = Ended(run) /\ labels' \in {labels, labels \cup Sent(FALSE)}
           /\ UNCHANGED <<viewVars, projectVars, runs, extents>>
  BY DEF Raise, Toward

\* A layer ends with its extent declared or not, and the next one begins, or the run ends.
LEMMA EndLayerParts ==
    ASSUME InLayer, RunSound, EndLayer
    PROVE  /\ run.chunk = <<>> /\ run' \in Publishes
           /\ \/ run' = Ended(run)
              \/ /\ run'.phase = "layers" /\ run'.at = run.at + 1 /\ run'.row = 1
                 /\ run'.counts = Append(run.counts, Zero) /\ run'.plans = run.plans
                 /\ run'.track = run.track /\ run'.chunk = <<>> /\ run.at < Len(run.plans)
           /\ \/ extents' = extents
              \/ /\ extents' = extents \cup
                       {[layer |-> Plan.layer, class |-> Plan.class, extent |-> Plan.extent,
                         track |-> run.track, copy |-> runs]}
                 /\ ExtentDue(Counted, Plan.extent) /\ (~Left \/ ShortReads)
           /\ UNCHANGED <<viewVars, projectVars, runs, labels>>
  <1>. DEFINE k == Append(run.counts, Zero)
              s == [run EXCEPT !.at = @ + 1, !.row = 1, !.counts = k]
              extent == [layer |-> Plan.layer, class |-> Plan.class, extent |-> Plan.extent,
                         track |-> run.track, copy |-> runs]
  <1>1. run \in Publishes /\ run.phase = "layers" /\ run.chunk = <<>>
    BY DEF InLayer, EndLayer
  <1>2. run' = Ended(run) \/ (run' = s /\ run.at # Len(run.plans))
    BY Zenon DEF EndLayer, Toward
  <1>3. /\ s \in Publishes /\ s.phase = "layers" /\ s.at = run.at + 1 /\ s.row = 1
        /\ s.counts = k /\ s.plans = run.plans /\ s.track = run.track /\ s.chunk = <<>>
    <2>1. Zero \in Tallies
      BY DEF Zero, Tallies
    <2>2. k \in Seq(Tallies) /\ run.at + 1 \in Nat /\ 1 \in Nat
      BY <1>1, <2>1, RunParts
    <2>. HIDE DEF k
    <2>3. s \in Publishes
      BY <1>1, <2>2, Zenon DEF Publishes
    <2>4. /\ s.phase = run.phase /\ s.at = run.at + 1 /\ s.row = 1
          /\ s.counts = k /\ s.plans = run.plans /\ s.track = run.track /\ s.chunk = run.chunk
      BY <1>1 DEF Publishes
    <2>. QED
      BY <1>1, <2>3, <2>4
  <1>4. run.at # Len(run.plans) => run.at < Len(run.plans)
    BY <1>1, RunParts DEF RunSound, Placed, InLayer
  <1>5. \/ extents' = extents
        \/ /\ extents' = extents \cup {extent}
           /\ ExtentDue(Counted, Plan.extent) /\ (~Left \/ ShortReads)
    <2>1. \/ ~(~run.cancelled /\ Plan.extent # "" /\ ExtentDue(Counted, Plan.extent))
          \/ ~run.cancelled /\ ExtentDue(Counted, Plan.extent)
      OBVIOUS
    <2>2. ~Left \/ ShortReads \/ run.cancelled
      BY DEF EndLayer
    <2>3. extents' \in {extents} \cup
             (IF ~run.cancelled /\ Plan.extent # "" /\ ExtentDue(Counted, Plan.extent)
              THEN {extents \cup {extent}} ELSE {})
      BY DEF EndLayer
    <2>. HIDE DEF extent
    <2>. QED
      BY <2>1, <2>2, <2>3
  <1>6. UNCHANGED <<viewVars, projectVars, runs, labels>>
    BY DEF EndLayer, Toward
  <1>. HIDE DEF s, k
  <1>. QED
    BY <1>1, <1>2, <1>3, <1>4, <1>5, <1>6, EndParts DEF k

-----------------------------------------------------------------------------
(* The preview.                                                              *)

Choosing(choice) ==
    \A l \in Layers : /\ choice[l].class \in Ids \cup {None}
                      /\ choice[l].extent \in Completeness /\ choice[l].skip \in BOOLEAN

\* What the preview suggests, and what the person may choose.
LEMMA PreviewParts ==
    ASSUME Preview
    PROVE  \E order \in Orders : \E choice : Choosing(choice) /\ Publish(choice, order)
  <1>1. PICK order \in Orders :
           \/ Publish([l \in Layers |-> Suggested(l)], order)
           \/ \E choice \in [Layers -> Choices] : Offers(choice) /\ Publish(choice, order)
    BY DEF Preview
  <1>2. Choosing([l \in Layers |-> Suggested(l)])
    <2>1. SUFFICES ASSUME NEW l \in Layers
                   PROVE  /\ Suggested(l).class \in Ids \cup {None}
                          /\ Suggested(l).extent \in Completeness /\ Suggested(l).skip \in BOOLEAN
      BY DEF Choosing
    <2>2. /\ Suggested(l).class = Guess(Source[l].name, Classes)
          /\ Suggested(l).extent = "" /\ Suggested(l).skip = FALSE
      BY DEF Suggested
    <2>3. \E T : T \subseteq Ids /\ Guess(Source[l].name, Classes) = The(T)
      <3>. DEFINE about(c) == Stems(c.id) \cup Stems(c.label)
                  name == Source[l].name
                  score(c) == Cardinality(Stems(name) \cap about(c))
                              + (IF <<name, c.id>> \in Mentions THEN 1 ELSE 0)
                  others(c) == Cardinality(about(c) \ Stems(name))
                  better(c, d) == score(c) > score(d) \/ (score(c) = score(d) /\ others(c) < others(d))
                  scored == {c \in Classes : c.active /\ score(c) > 0}
                  best == {d \in scored : \A e \in scored : ~better(e, d)}
      <3>1. Guess(name, Classes) = The({c.id : c \in best})
        BY Zenon DEF Guess
      <3>2. best \subseteq Classes
        BY Zenon
      <3>. HIDE DEF best
      <3>3. {c.id : c \in best} \subseteq Ids
        BY <3>2 DEF Ids
      <3>. QED
        BY <3>1, <3>3
    <2>. QED
      BY <2>2, <2>3, TheIn DEF Completeness
  <1>3. ASSUME NEW choice \in [Layers -> Choices] PROVE Choosing(choice)
    <2>1. \A l \in Layers :
             choice[l] \in [publish : BOOLEAN, class : {c.id : c \in Classes} \cup {None},
                            extent : Completeness, skip : BOOLEAN, style : BOOLEAN]
      BY BootstrapAssumption DEF BootstrapAssumption
    <2>. QED
      BY <2>1 DEF Choosing, Ids
  <1>. QED
    BY <1>1, <1>2, <1>3

\* A run begins with each layer it takes up once, under the record it has.
LEMMA PublishParts ==
    ASSUME RestTypes, NEW order \in Orders, NEW choice, Choosing(choice), Publish(choice, order)
    PROVE  /\ run = NoRun /\ run' \in Publishes /\ run'.phase = "styles" /\ run'.counts = <<>>
           /\ run'.at = 1 /\ run'.row = 1 /\ run'.chunk = <<>> /\ Len(run'.plans) >= 1
           /\ \A i, j \in DOMAIN run'.plans : run'.plans[i].layer = run'.plans[j].layer => i = j
           /\ \A i \in DOMAIN run'.plans :
                 /\ run'.plans[i].layer \in here
                 /\ run'.plans[i].previous = record[run'.plans[i].layer]
                 /\ run'.plans[i].previous # None => run'.plans[i].layer \in run'.asked
           /\ runs' = runs + 1 /\ UNCHANGED <<track, projectVars, serverVars>>
  <1>. DEFINE S == Chosen(choice)
  <1>1. PICK wish \in Wishes, plans \in InOrder(order, S) :
            /\ RoutesFor(wish) # NoRoutes
            /\ \A l \in here : ~Problem(l, choice[l], RoutesFor(wish))
            /\ plans # <<>>
            /\ run' = [phase |-> "styles", track |-> track,
                       plans |-> [i \in DOMAIN plans |->
                          LET l == plans[i]
                          IN  [layer |-> l, class |-> choice[l].class,
                               extent |-> choice[l].extent, skip |-> choice[l].skip,
                               styles |-> Proposes(l, choice[l]), previous |-> record[l],
                               to |-> CollectionFor(RoutesFor(wish), Source[l].type)]],
                       asked |-> Republished(choice),
                       styled |-> {}, at |-> 1, row |-> 1, chunk |-> <<>>,
                       counts |-> <<>>, cancelled |-> FALSE]
    BY Zenon DEF Publish
  <1>. DEFINE plan(l) == [layer |-> l, class |-> choice[l].class,
                          extent |-> choice[l].extent, skip |-> choice[l].skip,
                          styles |-> Proposes(l, choice[l]), previous |-> record[l],
                          to |-> CollectionFor(RoutesFor(wish), Source[l].type)]
              P == [i \in DOMAIN plans |-> plan(plans[i])]
              A == Republished(choice)
  <1>2. run' = [phase |-> "styles", track |-> track, plans |-> P, asked |-> A,
                styled |-> {}, at |-> 1, row |-> 1, chunk |-> <<>>,
                counts |-> <<>>, cancelled |-> FALSE]
    BY <1>1, Zenon
  <1>3. S \subseteq here /\ S \in SUBSET Layers
    BY DEF Chosen, RestTypes
  <1>4. /\ plans \in Seq(S) /\ DOMAIN plans = 1..Len(plans)
        /\ \A i, j \in DOMAIN plans : plans[i] = plans[j] => i = j
    BY <1>3, InOrderOnce
  <1>5. Len(plans) \in Nat /\ Len(plans) >= 1 /\ \A i \in DOMAIN plans : plans[i] \in S
    BY <1>1, <1>4, EmptySeq, ElementOfSeq
  <1>6. \A l \in S : plan(l) \in Plans
    <2>1. SUFFICES ASSUME NEW l \in S PROVE plan(l) \in Plans
      OBVIOUS
    <2>2. l \in Layers /\ l \in here /\ choice[l].publish /\ choice[l].class # None
      BY <1>3 DEF Chosen
    <2>3. /\ choice[l].class \in Ids /\ choice[l].extent \in Completeness
          /\ choice[l].skip \in BOOLEAN
      BY <2>2 DEF Choosing
    <2>4. CollectionFor(RoutesFor(wish), Source[l].type) \in Items(Collections)
      <3>1. CollectionFor(RoutesFor(wish), Source[l].type) # None
        BY <1>1, <2>2 DEF Problem
      <3>. QED
        BY <1>1, <3>1, RouteIn
    <2>5. record[l] \in Records \cup {None} /\ Proposes(l, choice[l]) \in BOOLEAN
      BY <2>2 DEF RestTypes, Proposes
    <2>. QED
      BY <2>2, <2>3, <2>4, <2>5, Zenon DEF Plans
  <1>7. \A i \in DOMAIN P : P[i].layer = plans[i] /\ P[i].previous = record[plans[i]]
    OBVIOUS
  <1>8. P \in [1..Len(plans) -> Plans]
    BY <1>4, <1>5, <1>6
  <1>9. A \in SUBSET Layers /\ \A l \in S : record[l] # None => l \in A
    BY <1>3 DEF Republished
  <1>. HIDE DEF P, A, S
  <1>10. P \in Seq(Plans) /\ Len(P) = Len(plans)
    BY <1>5, <1>8
  <1>11. run' \in Publishes
    <2>1. /\ "styles" \in {"styles", "layers", "ended"} /\ 1 \in Nat /\ FALSE \in BOOLEAN
          /\ {} \in SUBSET Ids /\ <<>> \in Seq(Queued) /\ <<>> \in Seq(Tallies)
          /\ track \in Tracks
      BY DEF RestTypes
    <2>. QED
      BY <1>2, <1>9, <1>10, <2>1, Zenon DEF Publishes
  <1>12. /\ run'.phase = "styles" /\ run'.counts = <<>> /\ run'.at = 1 /\ run'.row = 1
         /\ run'.chunk = <<>> /\ run'.plans = P /\ run'.asked = A
    BY <1>2
  <1>13. run = NoRun /\ runs' = runs + 1 /\ UNCHANGED <<track, projectVars, serverVars>>
    BY DEF Publish
  <1>. QED
    BY <1>3, <1>4, <1>5, <1>7, <1>8, <1>9, <1>10, <1>11, <1>12, <1>13

-----------------------------------------------------------------------------
(* The work is kept: a step of the run.                                      *)

LEMMA DisjointUnion ==
    ASSUME NEW S, NEW T, IsFiniteSet(S), IsFiniteSet(T), S \cap T = {}
    PROVE  Cardinality(S \cup T) = Cardinality(S) + Cardinality(T)
  <1>1. Cardinality(S \cup T) = Cardinality(S) + Cardinality(T) - Cardinality(S \cap T)
    BY FS_Union
  <1>2. Cardinality(S \cap T) = 0
    BY FS_EmptySet
  <1>3. Cardinality(S) \in Nat /\ Cardinality(T) \in Nat
    BY FS_CardinalityType
  <1>. QED
    BY <1>1, <1>2, <1>3

\* The labels which a step adds are of this run and of a layer it has come to.
Adds ==
    /\ labels \subseteq labels'
    /\ \A x \in labels' \ labels :
          /\ x.copy = runs
          /\ \E j \in DOMAIN run.counts :
                /\ x.layer = run.plans[j].layer /\ x.track = run.track
                /\ x.to = run.plans[j].to /\ x.class = run.plans[j].class

\* What is confirmed after the step.
ConfirmedNext(l) == {x \in labels' : x.copy = runs' /\ x.layer = l /\ x.answered}

LEMMA TallyNext ==
    Tally' <=> (Active' => \A j \in DOMAIN run'.counts :
                   run'.counts[j].published = Cardinality(ConfirmedNext(run'.plans[j].layer)))
  BY DEF Tally, Confirmed, ConfirmedNext

\* A step which counts nothing and confirms nothing.
LEMMA GoesOn ==
    ASSUME RunTypes, Active, RunSound, OfPlans, Tally, runs \in Nat,
           Goes(run, run'), runs' = runs, Adds, \A x \in labels' \ labels : ~x.answered
    PROVE  Active' /\ RunTypes' /\ PlansApart' /\ OfPlans' /\ Tally'
  <1>1. run' \in Publishes /\ run \in Publishes
    BY DEF Goes, RunTypes, Active
  <1>2. Active' /\ RunTypes'
    BY <1>1, RunParts DEF Active, RunTypes
  <1>3. /\ DOMAIN run'.plans = DOMAIN run.plans /\ DOMAIN run'.counts = DOMAIN run.counts
        /\ DOMAIN run.counts \subseteq DOMAIN run.plans /\ run'.track = run.track
        /\ \A i \in DOMAIN run.plans :
              /\ run'.plans[i].layer = run.plans[i].layer /\ run'.plans[i].class = run.plans[i].class
              /\ run'.plans[i].to = run.plans[i].to
        /\ \A j \in DOMAIN run.counts : run'.counts[j].published = run.counts[j].published
    BY <1>1, RunParts DEF Goes, Alike, RunSound, Placed
  <1>4. PlansApart'
    BY <1>3 DEF RunSound, PlansApart
  <1>5. OfPlans'
    <2>1. SUFFICES \A x \in labels' :
                      /\ x.copy <= runs
                      /\ x.copy = runs => \E j \in DOMAIN run'.counts :
                            /\ x.layer = run'.plans[j].layer /\ x.track = run'.track
                            /\ x.to = run'.plans[j].to /\ x.class = run'.plans[j].class
      BY DEF OfPlans
    <2>. TAKE x \in labels'
    <2>2. x \in labels \/ x \in labels' \ labels
      OBVIOUS
    <2>3. /\ x.copy <= runs
          /\ x.copy = runs => \E j \in DOMAIN run.counts :
                /\ x.layer = run.plans[j].layer /\ x.track = run.track
                /\ x.to = run.plans[j].to /\ x.class = run.plans[j].class
      BY <2>2 DEF OfPlans, Adds
    <2>. QED
      BY <1>3, <2>3
  <1>6. Tally'
    <2>1. \A l : ConfirmedNext(l) = Confirmed(l)
      BY DEF Confirmed, ConfirmedNext, Adds
    <2>. QED
      BY <1>3, <2>1, TallyNext DEF Tally
  <1>. QED
    BY <1>2, <1>4, <1>5, <1>6

\* The end of a run.
LEMMA EndWork ==
    ASSUME RunTypes, Active, Work, runs \in Nat, run' = Ended(run), runs' = runs, Adds,
           \A x \in labels' \ labels : ~x.answered
    PROVE  RunTypes' /\ Work'
  <1>1. run \in Publishes
    BY DEF RunTypes, Active
  <1>2. /\ Goes(run, run') /\ run'.phase = "ended" /\ run'.chunk = <<>>
        /\ Len(run'.plans) = Len(run.plans) /\ Len(run'.counts) = Len(run.counts)
    BY <1>1, EndParts, EndGoes DEF Alike
  <1>3. Active' /\ RunTypes' /\ PlansApart' /\ OfPlans' /\ Tally'
    BY <1>2, GoesOn DEF Work
  <1>4. RunSound'
    BY <1>2, <1>3 DEF Work, RunSound, Placed
  <1>. QED
    BY <1>2, <1>3, <1>4 DEF Work, Queue, Swept

\* A step which leaves the work where it is.
LEMMA SameStays ==
    ASSUME RunTypes, Active, Work, runs \in Nat, run' \in Publishes, SameWork(run, run'),
           runs' = runs, labels' = labels
    PROVE  RunTypes' /\ Work'
  <1>1. Goes(run, run') /\ Adds
    BY DEF Goes, Alike, SameWork, Adds
  <1>2. Active' /\ RunTypes' /\ PlansApart' /\ OfPlans' /\ Tally'
    BY <1>1, GoesOn DEF Work
  <1>3. /\ run'.phase = run.phase /\ run'.at = run.at /\ run'.row = run.row
        /\ run'.chunk = run.chunk /\ run'.counts = run.counts /\ run'.plans = run.plans
        /\ run'.track = run.track
    BY DEF SameWork
  <1>4. RunSound'
    BY <1>2, <1>3 DEF Work, RunSound, Placed, Plan
  <1>5. Queue'
    BY <1>3 DEF Work, Queue, Plan
  <1>6. Swept'
    BY <1>3 DEF Work, Swept, Plan, Counted
  <1>. QED
    BY <1>2, <1>4, <1>5, <1>6 DEF Work

LEMMA SaveStyleWork ==
    ASSUME Typed, Work, SaveStyle
    PROVE  RunTypes' /\ Work'
  <1>1. /\ run \in Publishes /\ run' \in Publishes
        /\ SameWork(run, run') \/ run' = Ended(run)
        /\ runs' = runs /\ labels' = labels /\ runs \in Nat /\ RunTypes
    BY SaveStyleParts DEF Typed, RestTypes, serverVars
  <1>2. Active /\ Adds
    BY <1>1, RunParts DEF Active, Adds
  <1>. QED
    BY <1>1, <1>2, SameStays, EndWork

LEMMA CancelWork ==
    ASSUME Typed, Work, Cancel
    PROVE  RunTypes' /\ Work'
  <1>1. /\ run \in Publishes /\ run' \in Publishes /\ SameWork(run, run')
        /\ runs' = runs /\ labels' = labels /\ runs \in Nat /\ RunTypes
    BY CancelParts DEF Typed, RestTypes, serverVars
  <1>2. Active
    BY <1>1, RunParts DEF Active
  <1>. QED
    BY <1>1, <1>2, SameStays

\* The first layer begins: no label of this run is there yet.
LEMMA StylesDoneWork ==
    ASSUME Typed, Work, StylesDone
    PROVE  RunTypes' /\ Work'
  <1>1. /\ run \in Publishes /\ run.phase = "styles" /\ run' \in Publishes
        /\ \/ run' = Ended(run)
           \/ /\ run'.phase = "layers" /\ run'.counts = <<Zero>> /\ run'.plans = run.plans
              /\ run'.track = run.track /\ run'.at = run.at /\ run'.row = run.row
              /\ run'.chunk = run.chunk
        /\ runs' = runs /\ labels' = labels /\ runs \in Nat /\ RunTypes
    BY StylesDoneParts DEF Typed, RestTypes, serverVars
  <1>2. Active /\ Adds /\ Active'
    BY <1>1, RunParts DEF Active, Adds
  <1>3. CASE run' = Ended(run)
    BY <1>1, <1>2, <1>3, EndWork
  <1>4. CASE /\ run'.phase = "layers" /\ run'.counts = <<Zero>> /\ run'.plans = run.plans
             /\ run'.track = run.track /\ run'.at = run.at /\ run'.row = run.row
             /\ run'.chunk = run.chunk
    <2>1. /\ run.counts = <<>> /\ run.at = 1 /\ run.row = 1 /\ run.chunk = <<>>
          /\ Len(run.plans) >= 1 /\ Len(run.plans) \in Nat /\ PlansApart /\ runs >= 1
      BY <1>1, <1>2, RunParts DEF Work, RunSound, Placed
    <2>2. \A x \in labels : x.copy # runs
      BY <1>2, <2>1 DEF Work, OfPlans
    <2>3. /\ DOMAIN run'.counts = 1..1 /\ Len(run'.counts) = 1 /\ run'.counts[1] = Zero
          /\ run'.at = 1 /\ run'.row = 1 /\ run'.chunk = <<>> /\ run'.plans = run.plans
      BY <1>4, <2>1
    <2>4. RunSound'
      <3>1. Plan' = run.plans[1] /\ run.plans[1] \in Plans
        BY <1>1, <2>1, <2>3, RunParts DEF Plan
      <3>2. Plan'.layer \in Layers /\ Len(Rows(Plan'.layer)) \in Nat
        BY <3>1, PlanParts, RowsParts
      <3>. QED
        BY <1>1, <1>4, <2>1, <2>3, <3>2 DEF RunSound, Placed, PlansApart, Plan
    <2>5. Queue'
      BY <1>1, <2>2, <2>3 DEF Queue
    <2>6. OfPlans'
      BY <1>1, <2>2 DEF Work, OfPlans
    <2>7. Tally'
      <3>1. \A l : ConfirmedNext(l) = {}
        BY <1>1, <2>2 DEF ConfirmedNext
      <3>2. Zero.published = 0
        BY DEF Zero, Counters
      <3>3. \A j \in DOMAIN run'.counts : j = 1
        BY <2>3
      <3>. QED
        BY <2>3, <3>1, <3>2, <3>3, FS_EmptySet, TallyNext
    <2>8. Swept'
      <3>1. Plan'.layer \in Layers
        BY <1>1, <2>1, <2>3, RunParts, PlanParts DEF Plan
      <3>2. \A i \in DOMAIN Rows(Plan'.layer) : ~(i < run'.row)
        BY <2>3, <3>1, RowsParts
      <3>. QED
        BY <3>2 DEF Swept
    <2>. QED
      BY <1>1, <2>4, <2>5, <2>6, <2>7, <2>8 DEF RunTypes, Work
  <1>. QED
    BY <1>1, <1>3, <1>4

LEMMA RaiseWork ==
    ASSUME Typed, Work, Raise
    PROVE  RunTypes' /\ Work' /\ Adds /\ runs' = runs /\ labels' \in SUBSET Labels /\ IsFiniteSet(labels')
  <1>1. InLayer
    BY AtLayer DEF Typed, Work, Raise
  <1>2. /\ run' = Ended(run) /\ labels' \in {labels, labels \cup Sent(FALSE)}
        /\ runs' = runs /\ runs \in Nat /\ RunTypes /\ Active /\ Queue
    BY <1>1, RaiseParts DEF Typed, RestTypes, Work, InLayer
  <1>3. Sent(FALSE) \subseteq Labels /\ IsFiniteSet(Sent(FALSE))
        /\ \A x \in Sent(FALSE) :
              /\ x.layer = Plan.layer /\ x.class = Plan.class /\ x.track = run.track
              /\ x.to = Plan.to /\ x.copy = runs /\ ~x.answered
    BY <1>1, <1>2, SentParts
  <1>4. Adds /\ \A x \in labels' \ labels : ~x.answered
    BY <1>1, <1>2, <1>3 DEF Adds, InLayer, Plan
  <1>5. labels' \in SUBSET Labels /\ IsFiniteSet(labels')
    <2>1. labels \subseteq Labels /\ IsFiniteSet(labels)
      BY DEF Typed, RestTypes
    <2>. QED
      BY <1>2, <1>3, <2>1, FS_Union
  <1>. QED
    BY <1>2, <1>4, <1>5, EndWork

\* A row was read.
LEMMA ReadRowWork ==
    ASSUME Typed, Work, ReadRow
    PROVE  RunTypes' /\ Work'
  <1>1. InLayer
    BY AtLayer DEF Typed, Work, ReadRow
  <1>2. /\ run' \in Publishes /\ run'.phase = "layers" /\ run'.at = run.at
        /\ run'.row = run.row + 1 /\ run.row \in DOMAIN Rows(Plan.layer)
        /\ run'.plans = run.plans /\ run'.track = run.track
        /\ \/ /\ run'.counts = run.counts
              /\ \E q \in Queued : q.row = run.row /\ run'.chunk = Append(run.chunk, q)
           \/ \E c \in Counters \ {"published"} :
                 /\ run'.chunk = run.chunk /\ run'.counts = Count(c, 1)
                 /\ c = "noGeometry" => Rows(Plan.layer)[run.row].shape = None
        /\ runs' = runs /\ labels' = labels /\ runs \in Nat
    BY <1>1, ReadParts DEF Typed, RestTypes, serverVars
  <1>3. /\ run \in Publishes /\ Active /\ run.phase = "layers" /\ Active' /\ Plan' = Plan
        /\ Plan.layer \in Layers /\ run.at \in DOMAIN run.counts /\ run.row \in Nat
        /\ DOMAIN run.counts \subseteq DOMAIN run.plans
        /\ DOMAIN Rows(Plan.layer) = 1..Len(Rows(Plan.layer)) /\ Len(Rows(Plan.layer)) \in Nat
    BY <1>1, <1>2, RunParts, RowsParts DEF InLayer, Active, Plan, Work, RunSound, Placed
  <1>4. /\ DOMAIN run'.counts = DOMAIN run.counts /\ Len(run'.counts) = Len(run.counts)
        /\ \A j \in DOMAIN run.counts : run'.counts[j]["published"] = run.counts[j]["published"]
    <2>1. CASE run'.counts = run.counts
      BY <2>1
    <2>2. ASSUME NEW c \in Counters \ {"published"}, run'.counts = Count(c, 1)
          PROVE  /\ DOMAIN run'.counts = DOMAIN run.counts /\ Len(run'.counts) = Len(run.counts)
                 /\ \A j \in DOMAIN run.counts :
                       run'.counts[j]["published"] = run.counts[j]["published"]
      <3>1. /\ DOMAIN Count(c, 1) = DOMAIN run.counts /\ Len(Count(c, 1)) = Len(run.counts)
            /\ \A j \in DOMAIN run.counts : j # run.at => Count(c, 1)[j] = run.counts[j]
            /\ \A d \in Counters :
                  Count(c, 1)[run.at][d] = Counted[d] + (IF d = c THEN 1 ELSE 0)
        BY <1>3, CountParts
      <3>2. "published" \in Counters /\ Counted["published"] \in Nat
        BY <1>1 DEF InLayer, Counters
      <3>3. Count(c, 1)[run.at]["published"] = run.counts[run.at]["published"]
        BY <3>1, <3>2 DEF Counted
      <3>. QED
        BY <2>2, <3>1, <3>3
    <2>. QED
      BY <1>2, <2>1, <2>2
  <1>5. RunSound'
    <2>1. run.row <= Len(Rows(Plan.layer)) /\ run.row >= 1
      BY <1>2, <1>3
    <2>2. Placed'
      <3>1. /\ Len(run.counts) <= Len(run.plans) /\ Len(run.plans) >= 1
            /\ run.at = Len(run.counts) /\ run.at >= 1
        BY <1>3 DEF Work, RunSound, Placed
      <3>2. Rows(Plan.layer)' = Rows(Plan.layer)
        BY <1>3 DEF Rows
      <3>3. run'.row >= 1 /\ run'.row <= Len(Rows(Plan'.layer)) + 1
        BY <1>2, <1>3, <2>1
      <3>. QED
        BY <1>2, <1>4, <3>1, <3>3 DEF Placed
    <2>. QED
      BY <1>2, <1>3, <2>2 DEF Work, RunSound, PlansApart
  <1>6. Queue'
    <2>1. /\ \A i \in DOMAIN run.chunk : run.chunk[i].row >= 1 /\ run.chunk[i].row < run.row
          /\ \A i, j \in DOMAIN run.chunk : run.chunk[i].row = run.chunk[j].row => i = j
          /\ \A x \in labels : x.copy = runs /\ x.layer = Plan.layer =>
                x.row < run.row /\ \A i \in DOMAIN run.chunk : x.row # run.chunk[i].row
      BY <1>3 DEF Work, Queue
    <2>2. /\ DOMAIN run.chunk = 1..Len(run.chunk) /\ Len(run.chunk) \in Nat
          /\ \A i \in DOMAIN run.chunk : run.chunk[i].row \in Nat
          /\ \A x \in labels : x.row \in Nat
      <3>1. \A y \in Queued : y.row \in Nat
        BY DEF Queued
      <3>2. \A x \in labels : x.row \in Nat
        BY DEF Typed, RestTypes, Labels
      <3>. QED
        BY <1>3, <3>1, <3>2, RunParts
    <2>. DEFINE Waits == /\ \A i \in DOMAIN run'.chunk :
                               run'.chunk[i].row >= 1 /\ run'.chunk[i].row < run'.row
                         /\ \A i, j \in DOMAIN run'.chunk :
                               run'.chunk[i].row = run'.chunk[j].row => i = j
                         /\ \A x \in labels : x.copy = runs /\ x.layer = Plan.layer =>
                               x.row < run'.row /\ \A i \in DOMAIN run'.chunk : x.row # run'.chunk[i].row
    <2>3. SUFFICES Waits
      BY <1>2, <1>3 DEF Queue
    <2>4. ASSUME run'.chunk = run.chunk PROVE Waits
      <3>1. \A i \in DOMAIN run.chunk : run.chunk[i].row < run.row + 1
        BY <1>3, <2>1, <2>2
      <3>2. \A x \in labels : x.copy = runs /\ x.layer = Plan.layer => x.row < run.row + 1
        BY <1>3, <2>1, <2>2
      <3>. QED
        BY <1>2, <2>1, <2>4, <3>1, <3>2
    <2>5. ASSUME NEW q \in Queued, q.row = run.row, run'.chunk = Append(run.chunk, q)
          PROVE  Waits
      <3>1. /\ DOMAIN run'.chunk = 1..(Len(run.chunk) + 1)
            /\ \A i \in DOMAIN run.chunk : run'.chunk[i] = run.chunk[i]
            /\ run'.chunk[Len(run.chunk) + 1] = q
        BY <1>3, <2>5, RunParts
      <3>2. \A i \in DOMAIN run'.chunk : i \in DOMAIN run.chunk \/ i = Len(run.chunk) + 1
        BY <2>2, <3>1
      <3>3. run.row >= 1
        BY <1>1 DEF InLayer
      <3>. HIDE DEF Queued
      <3>a. \A i \in DOMAIN run.chunk :
               /\ run'.chunk[i].row = run.chunk[i].row /\ run.chunk[i].row \in Nat
               /\ run.chunk[i].row >= 1 /\ run.chunk[i].row < run.row
        BY <2>1, <2>2, <3>1
      <3>b. run'.chunk[Len(run.chunk) + 1].row = run.row
        BY <2>5, <3>1
      <3>4. ASSUME NEW i \in DOMAIN run'.chunk
            PROVE  run'.chunk[i].row >= 1 /\ run'.chunk[i].row < run'.row
        <4>1. CASE i \in DOMAIN run.chunk
          BY <1>2, <1>3, <3>a, <4>1
        <4>2. CASE i = Len(run.chunk) + 1
          BY <1>2, <1>3, <3>3, <3>b, <4>2
        <4>. QED
          BY <3>2, <4>1, <4>2
      <3>5. ASSUME NEW i \in DOMAIN run'.chunk, NEW j \in DOMAIN run'.chunk,
                   run'.chunk[i].row = run'.chunk[j].row
            PROVE  i = j
        <4>1. CASE i \in DOMAIN run.chunk /\ j \in DOMAIN run.chunk
          BY <2>1, <3>5, <3>a, <4>1
        <4>2. CASE i \in DOMAIN run.chunk /\ j = Len(run.chunk) + 1
          BY <1>3, <3>5, <3>a, <3>b, <4>2
        <4>3. CASE i = Len(run.chunk) + 1 /\ j \in DOMAIN run.chunk
          BY <1>3, <3>5, <3>a, <3>b, <4>3
        <4>. QED
          BY <3>2, <4>1, <4>2, <4>3
      <3>6. ASSUME NEW x \in labels, x.copy = runs, x.layer = Plan.layer
            PROVE  x.row < run'.row /\ \A i \in DOMAIN run'.chunk : x.row # run'.chunk[i].row
        <4>1. /\ x.row \in Nat /\ x.row < run.row
              /\ \A i \in DOMAIN run.chunk : x.row # run.chunk[i].row
          BY <2>1, <2>2, <3>6
        <4>2. x.row < run'.row
          BY <1>2, <1>3, <4>1
        <4>3. ASSUME NEW i \in DOMAIN run'.chunk PROVE x.row # run'.chunk[i].row
          <5>1. CASE i \in DOMAIN run.chunk
            BY <3>a, <4>1, <5>1
          <5>2. CASE i = Len(run.chunk) + 1
            BY <1>3, <3>b, <4>1, <5>2
          <5>. QED
            BY <3>2, <4>3, <5>1, <5>2
        <4>. QED
          BY <4>2, <4>3
      <3>. QED
        BY <3>4, <3>5, <3>6
    <2>. QED
      BY <1>2, <2>4, <2>5
  <1>7. OfPlans'
    BY <1>2, <1>3, <1>4 DEF Work, OfPlans
  <1>8. Tally'
    <2>1. \A l : ConfirmedNext(l) = Confirmed(l)
      BY <1>2 DEF Confirmed, ConfirmedNext
    <2>. QED
      BY <1>2, <1>3, <1>4, <2>1, TallyNext DEF Work, Tally
  <1>9. Swept'
    <2>. DEFINE There(i) == \E x \in labels : /\ x.layer = Plan.layer /\ x.row = i /\ x.copy = runs
                                              /\ x.track = run.track /\ x.class = Plan.class
    <2>1. SUFFICES ASSUME \A c \in Counters \ {"published", "noGeometry"} : Counted'[c] = 0,
                          NEW i \in DOMAIN Rows(Plan.layer), i < run.row + 1,
                          Rows(Plan.layer)[i].shape # None
                   PROVE  (\E c \in DOMAIN run'.chunk : run'.chunk[c].row = i) \/ There(i)
      BY <1>2, <1>3 DEF Swept
    <2>2. CASE run'.counts = run.counts /\ \E q \in Queued : q.row = run.row /\ run'.chunk = Append(run.chunk, q)
      <3>1. PICK q \in Queued : q.row = run.row /\ run'.chunk = Append(run.chunk, q)
        BY <2>2
      <3>2. /\ DOMAIN run'.chunk = 1..(Len(run.chunk) + 1) /\ Len(run.chunk) \in Nat
            /\ DOMAIN run.chunk = 1..Len(run.chunk)
            /\ \A j \in DOMAIN run.chunk : run'.chunk[j] = run.chunk[j]
            /\ run'.chunk[Len(run.chunk) + 1] = q
        BY <1>3, <3>1, RunParts
      <3>3. Counted' = Counted
        BY <1>2, <2>2 DEF Counted
      <3>4. CASE i = run.row
        BY <3>1, <3>2, <3>4
      <3>5. CASE i # run.row
        <4>1. i < run.row
          BY <1>3, <2>1, <3>5
        <4>2. (\E c \in DOMAIN run.chunk : run.chunk[c].row = i) \/ There(i)
          BY <1>3, <2>1, <3>3, <4>1 DEF Work, Swept
        <4>. QED
          BY <3>2, <4>2
      <3>. QED
        BY <3>4, <3>5
    <2>3. ASSUME NEW c \in Counters \ {"published"}, run'.chunk = run.chunk,
                 run'.counts = Count(c, 1),
                 c = "noGeometry" => Rows(Plan.layer)[run.row].shape = None
          PROVE  (\E d \in DOMAIN run'.chunk : run'.chunk[d].row = i) \/ There(i)
      <3>1. \A d \in Counters : Counted'[d] = Counted[d] + (IF d = c THEN 1 ELSE 0) /\ Counted[d] \in Nat
        <4>1. \A d \in Counters :
                 Count(c, 1)[run.at][d] = Counted[d] + (IF d = c THEN 1 ELSE 0)
          BY <1>3, CountParts
        <4>. QED
          BY <1>1, <1>2, <2>3, <4>1 DEF Counted, InLayer
      <3>2. c = "noGeometry"
        BY <2>1, <2>3, <3>1
      <3>3. \A d \in Counters \ {"published", "noGeometry"} : Counted[d] = 0
        BY <2>1, <3>1, <3>2
      <3>4. i < run.row
        BY <1>3, <2>1, <2>3, <3>2
      <3>. QED
        BY <1>3, <2>1, <2>3, <3>3, <3>4 DEF Work, Swept
    <2>. QED
      BY <1>2, <2>2, <2>3
  <1>. QED
    BY <1>2, <1>5, <1>6, <1>7, <1>8, <1>9 DEF RunTypes, Work

\* A batch became labels, or some of it was left out.
LEMMA FlushWork ==
    ASSUME Typed, Work, Flush
    PROVE  RunTypes' /\ Work' /\ Adds /\ runs' = runs /\ labels' \in SUBSET Labels /\ IsFiniteSet(labels')
  <1>1. InLayer
    BY AtLayer DEF Typed, Work, Flush
  <1>2. /\ run' \in Publishes /\ run'.phase = "layers" /\ run'.at = run.at
        /\ run'.row = run.row /\ run'.plans = run.plans /\ run'.track = run.track
        /\ run'.chunk = <<>> /\ (Published \/ LeftOutSome)
        /\ runs' = runs /\ runs \in Nat /\ Queue
    BY <1>1, FlushParts DEF Typed, RestTypes, Work
  <1>3. /\ run \in Publishes /\ Active /\ run.phase = "layers" /\ Active' /\ Plan' = Plan
        /\ Plan = run.plans[run.at] /\ Counted = run.counts[run.at]
        /\ run.at \in DOMAIN run.counts /\ run.at \in DOMAIN run.plans /\ run.row \in Nat
        /\ DOMAIN run.counts \subseteq DOMAIN run.plans /\ Len(run.chunk) \in Nat
        /\ DOMAIN run.counts = 1..Len(run.counts) /\ PlansApart
    BY <1>1, <1>2, RunParts DEF InLayer, Active, Plan, Counted, Work, RunSound, Placed
  <1>. DEFINE Batch(S) ==
                /\ S \subseteq Labels /\ S \cap labels = {}
                /\ \A x \in S :
                      /\ x.layer = Plan.layer /\ x.class = Plan.class /\ x.track = run.track
                      /\ x.to = Plan.to /\ x.copy = runs
                      /\ \E i \in DOMAIN run.chunk : x.row = run.chunk[i].row
                /\ \A i \in DOMAIN run.chunk : \E x \in S : x.row = run.chunk[i].row
                /\ IsFiniteSet(S) /\ Cardinality(S) = Len(run.chunk)
  <1>4. /\ Batch(Sent(TRUE)) /\ \A x \in Sent(TRUE) : x.answered
        /\ Batch(Sent(FALSE)) /\ \A x \in Sent(FALSE) : ~x.answered
    <2>1. Batch(Sent(TRUE)) /\ \A x \in Sent(TRUE) : x.answered
      BY <1>1, <1>2, SentParts
    <2>2. Batch(Sent(FALSE)) /\ \A x \in Sent(FALSE) : ~x.answered
      BY <1>1, <1>2, SentParts
    <2>. QED
      BY <2>1, <2>2
  <1>5. /\ DOMAIN run'.counts = DOMAIN run.counts /\ Len(run'.counts) = Len(run.counts)
        /\ \A j \in DOMAIN run.counts : j # run.at => run'.counts[j] = run.counts[j]
    <2>1. CASE Published
      BY <1>2, <1>3, <2>1, CountParts DEF Published, Counters
    <2>2. CASE LeftOutSome
      BY <1>2, <1>3, <2>2, RunParts DEF LeftOutSome
    <2>. QED
      BY <1>2, <2>1, <2>2
  <1>. DEFINE T == Sent(TRUE)
  <1>t. /\ Batch(T) /\ \A x \in T : x.answered
        /\ Published => labels' = labels \cup T /\ run'.counts = Count("published", Len(run.chunk))
    BY <1>4 DEF Published
  <1>. HIDE DEF T
  <1>6. PICK S \in {Sent(TRUE), Sent(FALSE)} : Batch(S) /\ labels' \in {labels, labels \cup S}
    BY <1>2, <1>4 DEF Published, LeftOutSome
  <1>7. Adds /\ labels' \in SUBSET Labels /\ IsFiniteSet(labels')
    <2>1. labels \subseteq Labels /\ IsFiniteSet(labels)
      BY DEF Typed, RestTypes
    <2>2. S \subseteq Labels /\ IsFiniteSet(S)
      BY <1>6
    <2>3. IsFiniteSet(labels \cup S)
      BY <2>1, <2>2, FS_Union
    <2>4. labels' = labels \/ labels' = labels \cup S
      BY <1>6
    <2>5. labels' \subseteq Labels /\ IsFiniteSet(labels')
      BY <2>1, <2>2, <2>3, <2>4
    <2>. QED
      BY <1>3, <1>6, <2>5 DEF Adds
  <1>8. RunSound'
    <2>1. Placed'
      <3>1. /\ Len(run.counts) <= Len(run.plans) /\ Len(run.plans) >= 1
            /\ run.at = Len(run.counts) /\ run.at >= 1
            /\ run.row >= 1 /\ run.row <= Len(Rows(Plan.layer)) + 1
        BY <1>3 DEF Work, RunSound, Placed
      <3>2. run'.row <= Len(Rows(Plan'.layer)) + 1
        BY <1>2, <1>3, <3>1
      <3>. QED
        BY <1>2, <1>5, <3>1, <3>2 DEF Placed
    <2>. QED
      BY <1>2, <1>3, <2>1 DEF Work, RunSound, PlansApart
  <1>9. Queue'
    <2>1. ASSUME NEW x \in labels', x.copy = runs, x.layer = Plan.layer PROVE x.row < run.row
      <3>1. x \in labels \/ x \in S
        BY <1>6
      <3>2. CASE x \in labels
        BY <1>3, <2>1, <3>2 DEF Work, Queue
      <3>3. CASE x \in S
        BY <1>3, <1>6, <3>3 DEF Work, Queue
      <3>. QED
        BY <3>1, <3>2, <3>3
    <2>2. DOMAIN run'.chunk = {}
      BY <1>2
    <2>. QED
      BY <1>2, <1>3, <2>1, <2>2 DEF Queue
  <1>10. OfPlans'
    <2>1. \A x \in labels' :
             /\ x.copy <= runs
             /\ x.copy = runs => \E j \in DOMAIN run.counts :
                   /\ x.layer = run.plans[j].layer /\ x.track = run.track
                   /\ x.to = run.plans[j].to /\ x.class = run.plans[j].class
      <3>. TAKE x \in labels'
      <3>1. CASE x \in labels
        BY <1>3, <3>1 DEF Work, OfPlans
      <3>2. CASE x \notin labels
        BY <1>2, <1>7, <3>2 DEF Adds
      <3>. QED
        BY <3>1, <3>2
    <2>. QED
      BY <1>2, <1>5, <2>1 DEF OfPlans
  <1>11. Tally'
    <2>1. \A j \in DOMAIN run.counts :
             run.counts[j]["published"] = Cardinality(Confirmed(run.plans[j].layer))
      BY <1>3 DEF Work, Tally
    <2>2. SUFFICES \A j \in DOMAIN run.counts :
             run'.counts[j]["published"] = Cardinality(ConfirmedNext(run.plans[j].layer))
      BY <1>2, <1>5, TallyNext
    <2>3. CASE Published
      <3>1. ASSUME NEW j \in DOMAIN run.counts, j # run.at
            PROVE  run'.counts[j]["published"] = Cardinality(ConfirmedNext(run.plans[j].layer))
        <4>1. run.plans[j].layer # Plan.layer
          BY <1>3, <3>1 DEF PlansApart
        <4>2. ConfirmedNext(run.plans[j].layer) = Confirmed(run.plans[j].layer)
          BY <1>2, <1>t, <2>3, <4>1 DEF ConfirmedNext, Confirmed
        <4>. QED
          BY <1>5, <2>1, <3>1, <4>2
      <3>2. run'.counts[run.at]["published"] = Counted["published"] + Len(run.chunk)
        <4>1. \A d \in Counters : Count("published", Len(run.chunk))[run.at][d]
                 = Counted[d] + (IF d = "published" THEN Len(run.chunk) ELSE 0)
          BY <1>3, CountParts DEF Counters
        <4>. QED
          BY <2>3, <4>1 DEF Published, Counters
      <3>3. ConfirmedNext(Plan.layer) = Confirmed(Plan.layer) \cup T
        BY <1>2, <1>t, <2>3 DEF ConfirmedNext, Confirmed
      <3>4. IsFiniteSet(Confirmed(Plan.layer)) /\ Confirmed(Plan.layer) \cap T = {}
        <4>1. Confirmed(Plan.layer) \subseteq labels
          BY DEF Confirmed
        <4>. QED
          BY <1>t, <4>1, FS_Subset DEF Typed, RestTypes
      <3>5. Cardinality(ConfirmedNext(Plan.layer)) = Cardinality(Confirmed(Plan.layer)) + Len(run.chunk)
        <4>1. IsFiniteSet(T) /\ Cardinality(T) = Len(run.chunk)
          BY <1>t
        <4>. HIDE DEF Batch
        <4>. QED
          BY <1>3, <3>3, <3>4, <4>1, DisjointUnion
      <3>6. run'.counts[run.at]["published"] = Cardinality(ConfirmedNext(run.plans[run.at].layer))
        BY <1>3, <2>1, <3>2, <3>5
      <3>. QED
        BY <3>1, <3>6
    <2>4. CASE LeftOutSome
      <3>1. \A l : ConfirmedNext(l) = Confirmed(l)
        BY <1>2, <1>4, <2>4 DEF ConfirmedNext, Confirmed, LeftOutSome
      <3>2. run'.counts[run.at]["published"] = run.counts[run.at]["published"]
        BY <1>3, <2>4 DEF LeftOutSome
      <3>. QED
        BY <1>5, <2>1, <3>1, <3>2
    <2>. QED
      BY <1>2, <2>3, <2>4
  <1>12. Swept'
    <2>1. CASE Published
      <3>1. SUFFICES ASSUME \A c \in Counters \ {"published", "noGeometry"} : Counted'[c] = 0,
                            NEW i \in DOMAIN Rows(Plan.layer), i < run.row,
                            Rows(Plan.layer)[i].shape # None
                     PROVE  \E x \in labels' : /\ x.layer = Plan.layer /\ x.row = i /\ x.copy = runs
                                               /\ x.track = run.track /\ x.class = Plan.class
        BY <1>2, <1>3 DEF Swept
      <3>2. \A c \in Counters \ {"published", "noGeometry"} : Counted[c] = 0
        <4>1. \A d \in Counters : Count("published", Len(run.chunk))[run.at][d]
                 = Counted[d] + (IF d = "published" THEN Len(run.chunk) ELSE 0)
          BY <1>3, CountParts DEF Counters
        <4>2. \A d \in Counters : Counted[d] \in Nat
          BY <1>1 DEF InLayer
        <4>3. Counted' = Count("published", Len(run.chunk))[run.at]
          BY <1>2, <2>1 DEF Published, Counted
        <4>. QED
          BY <3>1, <4>1, <4>2, <4>3
      <3>3. \/ \E c \in DOMAIN run.chunk : run.chunk[c].row = i
            \/ \E x \in labels : /\ x.layer = Plan.layer /\ x.row = i /\ x.copy = runs
                                 /\ x.track = run.track /\ x.class = Plan.class
        BY <1>3, <3>1, <3>2 DEF Work, Swept
      <3>4. CASE \E c \in DOMAIN run.chunk : run.chunk[c].row = i
        <4>1. PICK x \in T : x.row = i
          BY <1>t, <3>4
        <4>. QED
          BY <1>t, <2>1, <4>1
      <3>. QED
        BY <1>t, <2>1, <3>3, <3>4
    <2>2. CASE LeftOutSome
      <3>1. \E c \in Counters \ {"published", "noGeometry"} : Counted'[c] # 0
        BY <1>2, <2>2 DEF LeftOutSome, Counted
      <3>. QED
        BY <3>1 DEF Swept
    <2>. QED
      BY <1>2, <2>1, <2>2
  <1>. QED
    BY <1>2, <1>7, <1>8, <1>9, <1>10, <1>11, <1>12 DEF RunTypes, Work

\* A layer ends, and another begins: no label of this run is in it yet.
LEMMA EndLayerWork ==
    ASSUME Typed, Work, EndLayer
    PROVE  RunTypes' /\ Work'
  <1>1. InLayer
    BY AtLayer DEF Typed, Work, EndLayer
  <1>2. /\ run.chunk = <<>> /\ run' \in Publishes
        /\ \/ run' = Ended(run)
           \/ /\ run'.phase = "layers" /\ run'.at = run.at + 1 /\ run'.row = 1
              /\ run'.counts = Append(run.counts, Zero) /\ run'.plans = run.plans
              /\ run'.track = run.track /\ run'.chunk = <<>> /\ run.at < Len(run.plans)
        /\ runs' = runs /\ labels' = labels /\ runs \in Nat /\ RunTypes
    BY <1>1, EndLayerParts DEF Work, Typed, RestTypes
  <1>3. Active /\ Active' /\ Adds /\ run \in Publishes
    BY <1>1, <1>2, RunParts DEF InLayer, Active, Adds
  <1>4. CASE run' = Ended(run)
    BY <1>2, <1>3, <1>4, EndWork
  <1>5. CASE /\ run'.phase = "layers" /\ run'.at = run.at + 1 /\ run'.row = 1
             /\ run'.counts = Append(run.counts, Zero) /\ run'.plans = run.plans
             /\ run'.track = run.track /\ run'.chunk = <<>> /\ run.at < Len(run.plans)
    <2>. DEFINE n == Len(run.counts)
    <2>1. /\ n \in Nat /\ run.at = n /\ n >= 1 /\ PlansApart /\ runs >= 1
          /\ DOMAIN run.counts = 1..n /\ DOMAIN run.plans = 1..Len(run.plans)
          /\ Len(run.plans) \in Nat /\ n + 1 \in DOMAIN run.plans
      BY <1>1, <1>3, <1>5, RunParts DEF InLayer, Work, RunSound, Placed
    <2>2. /\ DOMAIN run'.counts = 1..(n + 1) /\ Len(run'.counts) = n + 1
          /\ \A j \in 1..n : run'.counts[j] = run.counts[j]
          /\ run'.counts[n + 1] = Zero
      BY <1>3, <1>5, <2>1, RunParts
    <2>3. Plan' = run.plans[n + 1] /\ Plan'.layer \in Layers
          /\ DOMAIN Rows(Plan'.layer) = 1..Len(Rows(Plan'.layer)) /\ Len(Rows(Plan'.layer)) \in Nat
      <3>1. Plan' = run.plans[n + 1]
        BY <1>5, <2>1 DEF Plan
      <3>2. run.plans[n + 1].layer \in Layers
        BY <1>3, <2>1, RunParts, PlanParts
      <3>. QED
        BY <3>1, <3>2, RowsParts
    <2>4. \A x \in labels : x.copy = runs => x.layer # run.plans[n + 1].layer
      <3>1. SUFFICES ASSUME NEW x \in labels, x.copy = runs, x.layer = run.plans[n + 1].layer
                     PROVE  FALSE
        OBVIOUS
      <3>2. PICK j \in DOMAIN run.counts : x.layer = run.plans[j].layer
        BY <1>3, <3>1 DEF Work, OfPlans
      <3>3. j \in DOMAIN run.plans /\ j # n + 1
        BY <2>1, <3>2
      <3>. QED
        BY <2>1, <3>1, <3>2, <3>3 DEF PlansApart
    <2>. HIDE DEF n
    <2>5. RunSound'
      <3>1. Placed'
        <4>1. run'.row >= 1 /\ run'.row <= Len(Rows(Plan'.layer)) + 1
          BY <1>5, <2>3
        <4>. QED
          BY <1>5, <2>1, <2>2, <4>1 DEF Placed
      <3>. QED
        BY <1>2, <1>5, <2>1, <3>1 DEF RunSound, PlansApart
    <2>6. Queue'
      BY <1>2, <1>5, <2>3, <2>4 DEF Queue
    <2>7. OfPlans'
      <3>1. \A x \in labels :
               /\ x.copy <= runs
               /\ x.copy = runs => \E j \in 1..n :
                     /\ x.layer = run.plans[j].layer /\ x.track = run.track
                     /\ x.to = run.plans[j].to /\ x.class = run.plans[j].class
        BY <1>3, <2>1 DEF Work, OfPlans
      <3>2. 1..n \subseteq DOMAIN run'.counts
        BY <2>1, <2>2
      <3>. QED
        BY <1>2, <1>5, <3>1, <3>2 DEF OfPlans
    <2>8. Tally'
      <3>1. \A l : ConfirmedNext(l) = Confirmed(l)
        BY <1>2 DEF Confirmed, ConfirmedNext
      <3>2. \A j \in 1..n : run'.counts[j].published = Cardinality(ConfirmedNext(run.plans[j].layer))
        BY <1>3, <2>1, <2>2, <3>1 DEF Work, Tally
      <3>3. run'.counts[n + 1].published = Cardinality(ConfirmedNext(run.plans[n + 1].layer))
        <4>1. Zero.published = 0
          BY DEF Zero, Counters
        <4>2. Confirmed(run.plans[n + 1].layer) = {}
          BY <2>4 DEF Confirmed
        <4>. QED
          BY <2>2, <3>1, <4>1, <4>2, FS_EmptySet
      <3>4. \A j \in DOMAIN run'.counts : j \in 1..n \/ j = n + 1
        BY <2>1, <2>2
      <3>. QED
        BY <1>5, <3>2, <3>3, <3>4, TallyNext
    <2>9. Swept'
      <3>1. \A i \in DOMAIN Rows(Plan'.layer) : ~(i < run'.row)
        BY <1>5, <2>3
      <3>. QED
        BY <3>1 DEF Swept
    <2>. QED
      BY <1>2, <2>5, <2>6, <2>7, <2>8, <2>9 DEF RunTypes, Work
  <1>. QED
    BY <1>2, <1>4, <1>5

-----------------------------------------------------------------------------
(* The work is kept: the preview, the report and the project.                *)

LEMMA PreviewWork ==
    ASSUME Typed, Work, Preview
    PROVE  RunTypes' /\ Work'
  <1>0. PICK order \in Orders : \E choice : Choosing(choice) /\ Publish(choice, order)
    BY PreviewParts
  <1>1. PICK choice : Choosing(choice) /\ Publish(choice, order)
    BY <1>0
  <1>2. /\ run = NoRun /\ run' \in Publishes /\ run'.phase = "styles" /\ run'.counts = <<>>
        /\ run'.at = 1 /\ run'.row = 1 /\ run'.chunk = <<>> /\ Len(run'.plans) >= 1
        /\ \A i, j \in DOMAIN run'.plans : run'.plans[i].layer = run'.plans[j].layer => i = j
        /\ runs' = runs + 1 /\ labels' = labels /\ runs \in Nat
    BY <1>1, PublishParts DEF Typed, RestTypes, serverVars
  <1>3. \A x \in labels : x.copy <= runs /\ x.copy \in Nat
    BY DEF Work, OfPlans, Typed, RestTypes, Labels
  <1>4. \A x \in labels : x.copy <= runs + 1 /\ x.copy # runs + 1
    BY <1>2, <1>3
  <1>5. Len(run'.counts) = 0 /\ DOMAIN run'.counts = {} /\ Len(run'.plans) \in Nat
    BY <1>2, RunParts
  <1>6. RunSound'
    BY <1>2, <1>5 DEF RunSound, PlansApart, Placed
  <1>7. Queue' /\ Swept'
    BY <1>2 DEF Queue, Swept
  <1>8. OfPlans'
    BY <1>2, <1>4 DEF OfPlans
  <1>9. Tally'
    BY <1>5 DEF Tally
  <1>. QED
    BY <1>2, <1>6, <1>7, <1>8, <1>9 DEF RunTypes, Work

LEMMA IdleWork ==
    ASSUME Work, run' = NoRun, runs' = runs, labels' = labels
    PROVE  RunTypes' /\ Work'
  BY DEF RunTypes, Work, RunSound, Queue, OfPlans, Tally, Swept, Active

LEMMA StillWork ==
    ASSUME RunTypes, Work, run' = run, runs' = runs, labels' = labels
    PROVE  RunTypes' /\ Work'
  <1>1. RunTypes' /\ RunSound'
    BY DEF RunTypes, Work, RunSound, PlansApart, Placed, Plan, Active
  <1>2. Queue' /\ OfPlans'
    BY DEF Work, Queue, OfPlans, Plan, Active
  <1>3. Tally'
    BY DEF Work, Tally, Confirmed, Active
  <1>4. Swept'
    BY DEF Work, Swept, Active, Plan, Counted
  <1>. QED
    BY <1>1, <1>2, <1>3, <1>4 DEF Work

-----------------------------------------------------------------------------
(* The records are kept.                                                     *)

BeforeNext(l) == {x \in labels' : x.layer = l /\ x.answered /\ (Active' => x.copy # runs')}

LEMMA RecordsNext ==
    ASSUME Layers \ here' \subseteq forgotten',
           \A l \in Layers :
              /\ Fits(BeforeNext(l), record'[l]) /\ Fits(BeforeNext(l), saved'[l])
              /\ l \notin forgotten' => Total(BeforeNext(l), record'[l]),
           Active' => \A i \in DOMAIN run'.plans :
              /\ Fits(BeforeNext(run'.plans[i].layer), run'.plans[i].previous)
              /\ run'.plans[i].layer \notin forgotten' =>
                    Total(BeforeNext(run'.plans[i].layer), run'.plans[i].previous)
    PROVE  RecordsHold'
  BY DEF RecordsHold, Before, BeforeNext

\* A step of the run leaves the records, and what they speak of.
LEMMA RecordsKept ==
    ASSUME run \in Publishes, run' \in Publishes, runs' = runs, Alike(run, run'),
           UNCHANGED projectVars, Adds, RecordsHold
    PROVE  RecordsHold'
  <1>1. Active /\ Active'
    BY RunParts DEF Active
  <1>2. \A l : BeforeNext(l) = Before(l)
    BY <1>1 DEF BeforeNext, Before, Adds
  <1>3. here' = here /\ forgotten' = forgotten /\ record' = record /\ saved' = saved
    BY DEF projectVars
  <1>4. /\ DOMAIN run'.plans = DOMAIN run.plans
        /\ \A i \in DOMAIN run.plans : /\ run'.plans[i].layer = run.plans[i].layer
                                       /\ run'.plans[i].previous = run.plans[i].previous
    BY DEF Alike
  <1>. QED
    BY <1>1, <1>2, <1>3, <1>4, RecordsNext DEF RecordsHold

\* More labels do not make a record wrong.
LEMMA FitsMore ==
    ASSUME NEW B, NEW C, B \subseteq C, IsFiniteSet(C), NEW r \in Records \cup {None}, Fits(B, r)
    PROVE  Fits(C, r)
  <1>1. CASE r = None
    BY <1>1 DEF Fits
  <1>2. CASE r # None
    <2>1. On(B, r.track) \subseteq On(C, r.track) /\ On(C, r.track) \subseteq C
      BY DEF On
    <2>2. IsFiniteSet(On(C, r.track))
      BY <2>1, FS_Subset
    <2>3. IsFiniteSet(On(B, r.track)) /\ Cardinality(On(B, r.track)) <= Cardinality(On(C, r.track))
      BY <2>1, <2>2, FS_Subset
    <2>4. Cardinality(On(B, r.track)) \in Nat /\ Cardinality(On(C, r.track)) \in Nat
      BY <2>2, <2>3, FS_CardinalityType
    <2>. QED
      BY <1>2, <2>1, <2>3, <2>4 DEF Fits
  <1>. QED
    BY <1>1, <1>2

\* Among the labels before a run there are those before it and those of it.
LEMMA BeforeIdle ==
    ASSUME Typed, Work, Active, run' = NoRun, labels' = labels, NEW l \in Layers
    PROVE  /\ BeforeNext(l) = Before(l) \cup Confirmed(l) /\ Before(l) \cap Confirmed(l) = {}
           /\ IsFiniteSet(Before(l)) /\ IsFiniteSet(Confirmed(l))
           /\ \A i \in DOMAIN run.plans : run.plans[i].layer = l =>
                 \A x \in Confirmed(l) : x.track = run.track /\ x.to = run.plans[i].to
                                         /\ x.class = run.plans[i].class
           /\ Confirmed(l) # {} => \E i \in DOMAIN run.plans : run.plans[i].layer = l
  <1>1. BeforeNext(l) = Before(l) \cup Confirmed(l) /\ Before(l) \cap Confirmed(l) = {}
    BY DEF BeforeNext, Before, Confirmed, Active
  <1>2. IsFiniteSet(Before(l)) /\ IsFiniteSet(Confirmed(l))
    <2>1. Before(l) \subseteq labels /\ Confirmed(l) \subseteq labels
      BY DEF Before, Confirmed
    <2>. QED
      BY <2>1, FS_Subset DEF Typed, RestTypes
  <1>3. run \in Publishes /\ DOMAIN run.counts \subseteq DOMAIN run.plans /\ PlansApart
    BY RunParts DEF Typed, RunTypes, Active, Work, RunSound, Placed
  <1>4. \A x \in Confirmed(l) : \E j \in DOMAIN run.counts :
           /\ run.plans[j].layer = l /\ x.track = run.track
           /\ x.to = run.plans[j].to /\ x.class = run.plans[j].class
    BY DEF Confirmed, Work, OfPlans
  <1>5. \A i \in DOMAIN run.plans : run.plans[i].layer = l =>
           \A x \in Confirmed(l) : x.track = run.track /\ x.to = run.plans[i].to
                                   /\ x.class = run.plans[i].class
    BY <1>3, <1>4 DEF PlansApart
  <1>6. Confirmed(l) # {} => \E i \in DOMAIN run.plans : run.plans[i].layer = l
    BY <1>3, <1>4
  <1>. QED
    BY <1>1, <1>2, <1>5, <1>6

RunSteps == SaveStyle \/ StylesDone \/ ReadRow \/ Flush \/ EndLayer \/ Raise \/ Cancel

\* Each step of the run keeps its work, its plans and the labels there are.
LEMMA RunStep ==
    ASSUME Typed, Work, RunSteps
    PROVE  /\ RunTypes' /\ Work' /\ run \in Publishes /\ run' \in Publishes /\ Alike(run, run')
           /\ UNCHANGED <<viewVars, projectVars, runs>> /\ Adds
           /\ labels' \in SUBSET Labels /\ IsFiniteSet(labels')
           /\ ~EndLayer => extents' = extents
  <1>. DEFINE Same == labels' = labels
              Goal == /\ RunTypes' /\ Work' /\ run \in Publishes /\ run' \in Publishes /\ Alike(run, run')
                      /\ UNCHANGED <<viewVars, projectVars, runs>> /\ Adds
                      /\ labels' \in SUBSET Labels /\ IsFiniteSet(labels')
                      /\ ~EndLayer => extents' = extents
  <1>1. RunTypes /\ runs \in Nat /\ RunSound /\ Queue /\ labels \in SUBSET Labels /\ IsFiniteSet(labels)
    BY DEF Typed, RestTypes, Work
  <1>2. Same => Adds /\ labels' \in SUBSET Labels /\ IsFiniteSet(labels')
    BY <1>1 DEF Adds
  <1>3. \A r \in Publishes : Alike(r, Ended(r)) /\ Ended(r) \in Publishes
    BY EndParts
  <1>4. \A s : s.plans = run.plans /\ s.track = run.track => Alike(run, s)
    BY DEF Alike
  <1>5. CASE SaveStyle
    <2>1. Alike(run, run') /\ Same /\ extents' = extents
      BY <1>1, <1>3, <1>4, <1>5, SaveStyleParts DEF SameWork, serverVars
    <2>. QED
      BY <1>1, <1>2, <1>5, <2>1, SaveStyleParts, SaveStyleWork
  <1>6. CASE StylesDone
    <2>1. Alike(run, run') /\ Same /\ extents' = extents
      BY <1>1, <1>3, <1>4, <1>6, StylesDoneParts DEF serverVars
    <2>. QED
      BY <1>1, <1>2, <1>6, <2>1, StylesDoneParts, StylesDoneWork
  <1>7. CASE Cancel
    <2>1. Alike(run, run') /\ Same /\ extents' = extents
      BY <1>1, <1>4, <1>7, CancelParts DEF SameWork, serverVars
    <2>. QED
      BY <1>1, <1>2, <1>7, <2>1, CancelParts, CancelWork
  <1>8. CASE ReadRow
    <2>1. InLayer /\ run \in Publishes
      BY <1>1, <1>8, AtLayer DEF ReadRow, InLayer
    <2>2. Alike(run, run') /\ Same /\ extents' = extents /\ run' \in Publishes
      BY <1>4, <1>8, <2>1, ReadParts DEF serverVars
    <2>. QED
      BY <1>2, <1>8, <2>1, <2>2, ReadParts, ReadRowWork
  <1>9. CASE Flush
    <2>1. InLayer /\ run \in Publishes
      BY <1>1, <1>9, AtLayer DEF Flush, InLayer
    <2>2. /\ Alike(run, run') /\ run' \in Publishes /\ extents' = extents
          /\ UNCHANGED <<viewVars, projectVars, runs>>
      BY <1>4, <1>9, <2>1, FlushParts
    <2>. QED
      BY <1>9, <2>1, <2>2, FlushWork
  <1>10. CASE EndLayer
    <2>1. InLayer /\ run \in Publishes
      BY <1>1, <1>10, AtLayer DEF EndLayer, InLayer
    <2>2. /\ Alike(run, run') /\ run' \in Publishes /\ Same
          /\ UNCHANGED <<viewVars, projectVars, runs>>
      BY <1>1, <1>3, <1>4, <1>10, <2>1, EndLayerParts
    <2>. QED
      BY <1>2, <1>10, <2>1, <2>2, EndLayerWork
  <1>11. CASE Raise
    <2>1. InLayer /\ run \in Publishes
      BY <1>1, <1>11, AtLayer DEF Raise, InLayer
    <2>2. /\ Alike(run, run') /\ run' \in Publishes /\ extents' = extents
          /\ UNCHANGED <<viewVars, projectVars, runs>>
      BY <1>3, <1>11, <2>1, RaiseParts
    <2>. QED
      BY <1>11, <2>1, <2>2, RaiseWork
  <1>. QED
    BY <1>5, <1>6, <1>7, <1>8, <1>9, <1>10, <1>11 DEF RunSteps

\* A run begins with what the records say.
LEMMA PreviewRecords ==
    ASSUME Typed, Work, RecordsHold, Preview
    PROVE  RecordsHold' /\ RestTypes'
  <1>0. PICK order \in Orders : \E choice : Choosing(choice) /\ Publish(choice, order)
    BY PreviewParts
  <1>1. PICK choice : Choosing(choice) /\ Publish(choice, order)
    BY <1>0
  <1>2. /\ run = NoRun /\ run' \in Publishes
        /\ \A i \in DOMAIN run'.plans :
              /\ run'.plans[i].layer \in here
              /\ run'.plans[i].previous = record[run'.plans[i].layer]
        /\ runs' = runs + 1 /\ UNCHANGED <<track, projectVars, serverVars>> /\ runs \in Nat
    BY <1>1, PublishParts DEF Typed, RestTypes
  <1>3. \A x \in labels : x.copy # runs + 1
    <2>1. \A x \in labels : x.copy <= runs /\ x.copy \in Nat
      BY DEF Work, OfPlans, Typed, RestTypes, Labels
    <2>. QED
      BY <1>2, <2>1
  <1>4. \A l : BeforeNext(l) = Before(l)
    BY <1>2, <1>3 DEF BeforeNext, Before, Active, serverVars
  <1>5. /\ here' = here /\ forgotten' = forgotten /\ record' = record /\ saved' = saved
        /\ labels' = labels /\ losses' = losses /\ here \subseteq Layers
    BY <1>2 DEF projectVars, serverVars, Typed, RestTypes
  <1>6. RecordsHold'
    BY <1>2, <1>4, <1>5, RecordsNext DEF RecordsHold
  <1>7. RestTypes'
    BY <1>2, <1>5 DEF Typed, RestTypes
  <1>. QED
    BY <1>6, <1>7

\* What the report writes on a layer: nothing, or what the labels of the run add.
LEMMA StampedParts ==
    ASSUME Typed, Work, Active, NEW l \in Layers
    PROVE  \/ Stamped(l) = record[l] /\ (l \notin here \/ Confirmed(l) = {})
           \/ /\ l \in here
              /\ \E i \in DOMAIN run.counts :
                    /\ run.plans[i].layer = l /\ i \in DOMAIN run.plans
                    /\ run.counts[i].published = Cardinality(Confirmed(l))
                    /\ Cardinality(Confirmed(l)) \in Nat /\ Cardinality(Confirmed(l)) >= 1
                    /\ Stamped(l) = [track |-> run.track, to |-> run.plans[i].to,
                                     class |-> run.plans[i].class,
                                     count |-> Carried(run.plans[i]) + run.counts[i].published]
  <1>. DEFINE mine == {i \in DOMAIN run.counts : run.plans[i].layer = l /\ run.counts[i].published > 0}
  <1>1. Stamped(l) = IF mine = {} \/ l \notin here THEN record[l]
                     ELSE [track |-> run.track, to |-> run.plans[The(mine)].to,
                           class |-> run.plans[The(mine)].class,
                           count |-> Carried(run.plans[The(mine)]) + run.counts[The(mine)].published]
    BY DEF Stamped
  <1>2. /\ run \in Publishes /\ DOMAIN run.counts \subseteq DOMAIN run.plans /\ PlansApart
        /\ \A j \in DOMAIN run.counts :
              run.counts[j].published = Cardinality(Confirmed(run.plans[j].layer))
    BY RunParts DEF Typed, RunTypes, Active, Work, RunSound, Placed, Tally
  <1>3. CASE l \notin here
    BY <1>1, <1>3
  <1>4. CASE mine = {}
    <2>1. \A x \in Confirmed(l) : \E j \in DOMAIN run.counts :
             run.plans[j].layer = l /\ run.counts[j].published > 0
      <3>1. Confirmed(l) \subseteq labels /\ IsFiniteSet(labels)
        BY DEF Confirmed, Typed, RestTypes
      <3>2. IsFiniteSet(Confirmed(l))
        BY <3>1, FS_Subset
      <3>3. SUFFICES ASSUME NEW x \in Confirmed(l)
                     PROVE  \E j \in DOMAIN run.counts :
                               run.plans[j].layer = l /\ run.counts[j].published > 0
        OBVIOUS
      <3>4. PICK j \in DOMAIN run.counts : run.plans[j].layer = l
        BY DEF Confirmed, Work, OfPlans
      <3>5. Cardinality(Confirmed(l)) \in Nat /\ Cardinality(Confirmed(l)) # 0
        BY <3>2, <3>3, FS_CardinalityType, FS_EmptySet
      <3>. QED
        BY <1>2, <3>4, <3>5
    <2>. QED
      BY <1>1, <1>4, <2>1
  <1>5. CASE mine # {} /\ l \in here
    <2>1. PICK i \in mine : TRUE
      BY <1>5
    <2>2. mine = {i}
      BY <1>2, <2>1 DEF PlansApart
    <2>3. The(mine) = i
      BY <2>2, TheIn
    <2>4. i \in DOMAIN run.counts /\ run.plans[i].layer = l /\ run.counts[i].published > 0
      BY <2>1
    <2>5. run.counts[i].published = Cardinality(Confirmed(l)) /\ run.counts[i].published \in Nat
      BY <1>2, <2>4, RunParts DEF Tallies, Counters
    <2>. HIDE DEF mine
    <2>. QED
      BY <1>1, <1>2, <1>5, <2>3, <2>4, <2>5
  <1>. QED
    BY <1>3, <1>4, <1>5

\* What it writes is of the labels there are now.
LEMMA StampedTrue ==
    ASSUME Typed, Work, RecordsHold, Active, run' = NoRun, labels' = labels, NEW l \in Layers
    PROVE  /\ Stamped(l) \in Records \cup {None} /\ Fits(BeforeNext(l), Stamped(l))
           /\ l \notin forgotten => Total(BeforeNext(l), Stamped(l))
  <1>. DEFINE B == Before(l)
              C == Confirmed(l)
              r == Stamped(l)
  <1>1. /\ BeforeNext(l) = B \cup C /\ B \cap C = {} /\ IsFiniteSet(B) /\ IsFiniteSet(C)
        /\ \A i \in DOMAIN run.plans : run.plans[i].layer = l =>
              \A x \in C : x.track = run.track /\ x.to = run.plans[i].to /\ x.class = run.plans[i].class
    BY BeforeIdle
  <1>2. /\ Fits(B, record[l]) /\ record[l] \in Records \cup {None}
        /\ l \notin forgotten => l \in here /\ Total(B, record[l])
    BY DEF RecordsHold, Typed, RestTypes
  <1>3. ASSUME r = record[l] /\ (l \notin here \/ C = {})
        PROVE  /\ r \in Records \cup {None} /\ Fits(B \cup C, r)
               /\ l \notin forgotten => Total(B \cup C, r)
    <2>1. IsFiniteSet(B \cup C)
      BY <1>1, FS_Union
    <2>2. Fits(B \cup C, r)
      BY <1>2, <1>3, <2>1, FitsMore
    <2>3. l \notin forgotten => B \cup C = B
      BY <1>2, <1>3
    <2>. HIDE DEF B, C, r
    <2>. QED
      BY <1>1, <1>2, <1>3, <2>2, <2>3
  <1>4. ASSUME l \in here, NEW i \in DOMAIN run.counts,
               run.plans[i].layer = l, i \in DOMAIN run.plans,
               run.counts[i].published = Cardinality(C),
               Cardinality(C) \in Nat, Cardinality(C) >= 1,
               r = [track |-> run.track, to |-> run.plans[i].to, class |-> run.plans[i].class,
                    count |-> Carried(run.plans[i]) + run.counts[i].published]
        PROVE  /\ r \in Records \cup {None} /\ Fits(B \cup C, r)
               /\ l \notin forgotten => Total(B \cup C, r)
    <2>. DEFINE p == run.plans[i]
                q == p.previous
                n == Cardinality(C)
                T == On(B, run.track)
    <2>1. p \in Plans /\ run.track \in Tracks
      BY <1>4, RunParts DEF Typed, RunTypes, Active
    <2>2. q \in Records \cup {None} /\ p.to \in Items(Collections) /\ p.class \in Ids
      BY <2>1, PlanParts
    <2>3. Fits(B, q) /\ (l \notin forgotten => Total(B, q))
      BY <1>4 DEF RecordsHold
    <2>4. /\ r # None /\ r.track = run.track /\ r.to = p.to /\ r.class = p.class
          /\ r.count = Carried(p) + n
      <3>1. Carried(p) = IF q = None \/ q.track # run.track THEN 0 ELSE q.count
        BY DEF Carried
      <3>2. Carried(p) \in Nat
        BY <2>2, <3>1 DEF Records
      <3>3. r \in Records
        BY <1>4, <2>1, <2>2, <3>2 DEF Records, Ids
      <3>4. r # None
        BY <3>3, BootstrapAssumption DEF BootstrapAssumption
      <3>. QED
        BY <1>4, <3>4
    <2>5. Carried(p) = (IF q = None \/ q.track # run.track THEN 0 ELSE q.count) /\ Carried(p) \in Nat
      BY <2>2 DEF Carried, Records
    <2>6. r \in Records
      BY <1>4, <2>1, <2>2, <2>5 DEF Records, Ids
    <2>7. /\ On(B \cup C, run.track) = T \cup C /\ T \cap C = {} /\ T \subseteq B
      BY <1>1, <1>4 DEF On
    <2>8. /\ IsFiniteSet(T) /\ Cardinality(T) \in Nat
          /\ Cardinality(T \cup C) = Cardinality(T) + n
      <3>1. IsFiniteSet(T)
        BY <1>1, <2>7, FS_Subset
      <3>. HIDE DEF T, C
      <3>2. Cardinality(T \cup C) = Cardinality(T) + Cardinality(C)
        BY <1>1, <2>7, <3>1, DisjointUnion
      <3>. QED
        BY <3>1, <3>2, FS_CardinalityType
    <2>9. PICK x \in C : TRUE
      <3>1. C # {}
        <4>. HIDE DEF C
        <4>. QED
          BY <1>1, <1>4, FS_EmptySet
      <3>. QED
        BY <3>1
    <2>10. x \in T \cup C /\ x.to = p.to /\ x.class = p.class
      BY <1>1, <1>4
    <2>11. q # None /\ q.track = run.track => q.count \in 1..Cardinality(T)
      BY <2>3 DEF Fits
    <2>12. r.count \in 1..Cardinality(T \cup C)
      <3>. HIDE DEF T, C, p, q, r
      <3>. QED
        BY <1>4, <2>4, <2>5, <2>8, <2>11 DEF n
    <2>13. Fits(B \cup C, r)
      BY <2>4, <2>7, <2>10, <2>12 DEF Fits
    <2>14. ASSUME l \notin forgotten, On(B \cup C, run.track) = B \cup C
           PROVE  r.count = Cardinality(B \cup C)
      <3>1. T = B
        BY <1>1, <2>7, <2>14 DEF On
      <3>2. Total(B, q)
        BY <2>3, <2>14
      <3>3. CASE q = None
        <4>1. T = {}
          BY <3>1, <3>2, <3>3 DEF Total
        <4>2. Cardinality(T) = 0
          BY <4>1, FS_EmptySet
        <4>. QED
          BY <2>4, <2>5, <2>7, <2>8, <2>14, <3>3, <4>2
      <3>4. CASE q # None /\ q.track = run.track
        <4>1. q.count = Cardinality(T)
          BY <3>1, <3>2, <3>4 DEF Total
        <4>. QED
          BY <2>4, <2>5, <2>7, <2>8, <2>14, <3>4, <4>1
      <3>5. CASE q # None /\ q.track # run.track
        <4>1. PICK y \in On(B, q.track) : TRUE
          BY <2>3, <3>5 DEF Fits
        <4>2. y \in T /\ y.track = q.track
          BY <3>1, <4>1 DEF On
        <4>. QED
          BY <3>5, <4>2 DEF On
      <3>. QED
        BY <3>3, <3>4, <3>5
    <2>. QED
      BY <2>4, <2>6, <2>13, <2>14 DEF Total
  <1>5. \/ r = record[l] /\ (l \notin here \/ C = {})
        \/ /\ l \in here
           /\ \E i \in DOMAIN run.counts :
                 /\ run.plans[i].layer = l /\ i \in DOMAIN run.plans
                 /\ run.counts[i].published = Cardinality(C)
                 /\ Cardinality(C) \in Nat /\ Cardinality(C) >= 1
                 /\ r = [track |-> run.track, to |-> run.plans[i].to, class |-> run.plans[i].class,
                         count |-> Carried(run.plans[i]) + run.counts[i].published]
    BY StampedParts
  <1>. HIDE DEF B, C, r
  <1>6. /\ r \in Records \cup {None} /\ Fits(B \cup C, r)
        /\ l \notin forgotten => Total(B \cup C, r)
    BY <1>1, <1>2, <1>3, <1>4, <1>5
  <1>. QED
    BY <1>1, <1>6 DEF r

LEMMA ReportRecords ==
    ASSUME Typed, Work, RecordsHold, OnPublished
    PROVE  RecordsHold' /\ RestTypes'
  <1>1. /\ Active /\ run' = NoRun /\ labels' = labels /\ here' = here /\ saved' = saved
        /\ forgotten' = forgotten /\ runs' = runs /\ losses' = losses /\ track' = track
        /\ record' = [l \in Layers |-> Stamped(l)] /\ ~Active'
    BY WorkingParts DEF OnPublished, Typed, serverVars, Active
  <1>2. \A l \in Layers : /\ Stamped(l) \in Records \cup {None} /\ Fits(BeforeNext(l), Stamped(l))
                          /\ l \notin forgotten => Total(BeforeNext(l), Stamped(l))
    BY <1>1, StampedTrue
  <1>3. ASSUME NEW l \in Layers PROVE Fits(BeforeNext(l), saved[l])
    <2>1. BeforeNext(l) = Before(l) \cup Confirmed(l) /\ IsFiniteSet(Before(l)) /\ IsFiniteSet(Confirmed(l))
      BY <1>1, BeforeIdle
    <2>2. Fits(Before(l), saved[l]) /\ saved[l] \in Records \cup {None}
      BY DEF RecordsHold, Typed, RestTypes
    <2>3. IsFiniteSet(Before(l) \cup Confirmed(l))
      BY <2>1, FS_Union
    <2>. QED
      BY <2>1, <2>2, <2>3, FitsMore
  <1>4. RecordsHold'
    BY <1>1, <1>2, <1>3, RecordsNext DEF RecordsHold
  <1>5. RestTypes'
    BY <1>1, <1>2 DEF Typed, RestTypes
  <1>. QED
    BY <1>4, <1>5

\* Nothing but the project, or the view, changes.
LEMMA StillRecords ==
    ASSUME Typed, Work, RecordsHold, run' = run, runs' = runs, labels' = labels,
           track' \in Tracks, losses' \in Nat, here' \subseteq Layers,
           forgotten \subseteq forgotten', forgotten' \subseteq Layers,
           Layers \ here' \subseteq forgotten',
           record' \in [Layers -> Records \cup {None}],
           saved' \in [Layers -> Records \cup {None}],
           \A l \in Layers : \/ record'[l] = record[l]
                             \/ l \in forgotten' /\ record'[l] \in {None, saved[l]},
           \A l \in Layers : saved'[l] \in {saved[l], record[l]}
    PROVE  RunTypes' /\ Work' /\ RestTypes' /\ RecordsHold'
  <1>1. RunTypes' /\ Work' /\ RestTypes'
    <2>1. RunTypes' /\ Work'
      BY StillWork DEF Typed
    <2>2. RestTypes'
      BY DEF Typed, RestTypes
    <2>. QED
      BY <2>1, <2>2
  <1>2. \A l : BeforeNext(l) = Before(l)
    BY DEF BeforeNext, Before, Active
  <1>3. ASSUME NEW l \in Layers
        PROVE  /\ Fits(Before(l), record'[l]) /\ Fits(Before(l), saved'[l])
               /\ l \notin forgotten' => Total(Before(l), record'[l])
    <2>1. /\ Fits(Before(l), record[l]) /\ Fits(Before(l), saved[l])
          /\ l \notin forgotten => Total(Before(l), record[l])
      BY DEF RecordsHold
    <2>2. Fits(Before(l), None)
      BY DEF Fits
    <2>. QED
      BY <2>1, <2>2
  <1>4. Active => \A i \in DOMAIN run.plans :
              /\ Fits(Before(run.plans[i].layer), run.plans[i].previous)
              /\ run.plans[i].layer \notin forgotten' =>
                    Total(Before(run.plans[i].layer), run.plans[i].previous)
    BY DEF RecordsHold
  <1>5. Active' = Active
    BY DEF Active
  <1>. QED
    BY <1>1, <1>2, <1>3, <1>4, <1>5, RecordsNext

ProjectSteps ==
    \/ Decline \/ SaveProject \/ (\E t \in Tracks : ChooseTrack(t))
    \/ (\E l \in Layers : RemoveLayer(l)) \/ (\E quit \in BOOLEAN : Reopen(quit))

\* The answers of a run are lost with QGIS: what it added may never be recorded.
LEMMA QuitRecords ==
    ASSUME Typed, Work, RecordsHold, Active, Reopen(TRUE)
    PROVE  RunTypes' /\ Work' /\ RestTypes' /\ RecordsHold'
  <1>1. /\ losses' = losses + 1 /\ here' = Layers /\ record' = saved /\ run' = NoRun /\ ~Active'
        /\ saved' = saved /\ runs' = runs /\ labels' = labels /\ track' = track
        /\ forgotten' = forgotten \cup {l \in Layers : record[l] # saved[l]}
                           \cup {p.layer : p \in Items(run.plans)}
    BY DEF Reopen, Active, viewVars, serverVars
  <1>2. run \in Publishes /\ \A i \in DOMAIN run.plans : run.plans[i].layer \in Layers
    BY RunParts, PlanParts DEF Typed, RunTypes, Active
  <1>3. /\ forgotten' \subseteq Layers
        /\ \A i \in DOMAIN run.plans : run.plans[i].layer \in forgotten'
    BY <1>1, <1>2 DEF Items, Typed, RestTypes
  <1>4. RunTypes' /\ Work'
    BY <1>1, IdleWork
  <1>5. RestTypes'
    BY <1>1, <1>3 DEF Typed, RestTypes
  <1>6. ASSUME NEW l \in Layers
        PROVE  /\ Fits(BeforeNext(l), saved[l])
               /\ l \notin forgotten' => Total(BeforeNext(l), saved[l])
    <2>1. /\ BeforeNext(l) = Before(l) \cup Confirmed(l)
          /\ IsFiniteSet(Before(l)) /\ IsFiniteSet(Confirmed(l))
          /\ Confirmed(l) # {} => \E i \in DOMAIN run.plans : run.plans[i].layer = l
      BY <1>1, BeforeIdle
    <2>2. Fits(Before(l), saved[l]) /\ saved[l] \in Records \cup {None}
      BY DEF RecordsHold, Typed, RestTypes
    <2>3. IsFiniteSet(Before(l) \cup Confirmed(l))
      BY <2>1, FS_Union
    <2>4. Fits(BeforeNext(l), saved[l])
      BY <2>1, <2>2, <2>3, FitsMore
    <2>5. ASSUME l \notin forgotten' PROVE Total(BeforeNext(l), saved[l])
      <3>1. record[l] = saved[l] /\ l \notin forgotten
        BY <1>1, <2>5
      <3>2. BeforeNext(l) = Before(l)
        BY <1>3, <2>1, <2>5
      <3>. QED
        BY <3>1, <3>2 DEF RecordsHold
    <2>. QED
      BY <2>4, <2>5
  <1>7. RecordsHold'
    BY <1>1, <1>6, RecordsNext
  <1>. QED
    BY <1>4, <1>5, <1>7

LEMMA ProjectRecords ==
    ASSUME Typed, Work, RecordsHold, ProjectSteps
    PROVE  RunTypes' /\ Work' /\ RestTypes' /\ RecordsHold'
  <1>1. /\ track \in Tracks /\ here \subseteq Layers /\ forgotten \subseteq Layers
        /\ record \in [Layers -> Records \cup {None}] /\ saved \in [Layers -> Records \cup {None}]
        /\ losses \in Nat /\ Layers \ here \subseteq forgotten
    BY DEF Typed, RestTypes, RecordsHold
  <1>2. CASE Decline
    BY <1>1, <1>2, StillRecords DEF Decline, projectVars, serverVars
  <1>3. CASE SaveProject
    BY <1>1, <1>3, StillRecords DEF SaveProject, viewVars, serverVars
  <1>4. ASSUME NEW t \in Tracks, ChooseTrack(t)
        PROVE  RunTypes' /\ Work' /\ RestTypes' /\ RecordsHold'
    BY <1>1, <1>4, StillRecords DEF ChooseTrack, projectVars, serverVars
  <1>5. ASSUME NEW l \in Layers, RemoveLayer(l)
        PROVE  RunTypes' /\ Work' /\ RestTypes' /\ RecordsHold'
    <2>1. /\ losses' = losses + 1 /\ here' = here \ {l} /\ record' = [record EXCEPT ![l] = None]
          /\ forgotten' = forgotten \cup {l} /\ saved' = saved /\ track' = track
          /\ run' = run /\ runs' = runs /\ labels' = labels
      BY <1>5 DEF RemoveLayer, viewVars, serverVars
    <2>. QED
      BY <1>1, <2>1, StillRecords
  <1>6. ASSUME NEW quit \in BOOLEAN, Reopen(quit), run' = run
        PROVE  RunTypes' /\ Work' /\ RestTypes' /\ RecordsHold'
    <2>1. /\ losses' = losses + 1 /\ here' = Layers /\ record' = saved /\ saved' = saved
          /\ track' = track /\ runs' = runs /\ labels' = labels
          /\ forgotten \cup {l \in Layers : record[l] # saved[l]} \subseteq forgotten'
          /\ forgotten' \subseteq Layers
      <3>1. /\ losses' = losses + 1 /\ here' = Layers /\ record' = saved /\ saved' = saved
            /\ track' = track /\ runs' = runs /\ labels' = labels
            /\ forgotten' = forgotten \cup {l \in Layers : record[l] # saved[l]}
                     \cup (IF quit /\ run # NoRun THEN {p.layer : p \in Items(run.plans)} ELSE {})
            /\ run' = IF quit THEN NoRun ELSE run
        BY <1>6 DEF Reopen, viewVars, serverVars
      <3>2. ~(quit /\ run # NoRun)
        BY <1>6, <3>1
      <3>. QED
        BY <1>1, <3>1, <3>2
    <2>. QED
      BY <1>1, <1>6, <2>1, StillRecords
  <1>7. ASSUME NEW quit \in BOOLEAN, Reopen(quit), run' # run
        PROVE  RunTypes' /\ Work' /\ RestTypes' /\ RecordsHold'
    <2>1. run' = IF quit THEN NoRun ELSE run
      BY <1>7 DEF Reopen
    <2>2. Active /\ quit = TRUE
      BY <1>7, <2>1 DEF Active
    <2>. QED
      BY <1>7, <2>2, QuitRecords
  <1>. QED
    BY <1>2, <1>3, <1>4, <1>5, <1>6, <1>7 DEF ProjectSteps

-----------------------------------------------------------------------------
(* The theorems.                                                             *)

BootstrapInv == Typed /\ Work /\ RecordsHold

LEMMA BootstrapStarts == Init => BootstrapInv
  <1>. SUFFICES ASSUME Init PROVE BootstrapInv
    OBVIOUS
  <1>1. /\ run = NoRun /\ runs = 0 /\ losses = 0 /\ forgotten = {} /\ labels = {} /\ here = Layers
        /\ record = [l \in Layers |-> None] /\ saved = record /\ track \in Tracks
    BY DEF Init
  <1>2. Typed
    BY <1>1, FS_EmptySet DEF Typed, RunTypes, RestTypes
  <1>3. Work
    BY <1>1 DEF Work, RunSound, Queue, OfPlans, Tally, Swept, Active
  <1>4. RecordsHold
    <2>1. \A l : Before(l) = {}
      BY <1>1 DEF Before
    <2>2. Fits({}, None) /\ Total({}, None)
      BY DEF Fits, Total
    <2>. QED
      BY <1>1, <2>1, <2>2 DEF RecordsHold, Active
  <1>. QED
    BY <1>2, <1>3, <1>4 DEF BootstrapInv

LEMMA NextParts == Next <=> Preview \/ OnPublished \/ RunSteps \/ ProjectSteps
  BY DEF Next, RunSteps, ProjectSteps

LEMMA BootstrapKeeps == BootstrapInv /\ [Next]_vars => BootstrapInv'
  <1>. SUFFICES ASSUME BootstrapInv, [Next]_vars PROVE BootstrapInv'
    OBVIOUS
  <1>0. Typed /\ Work /\ RecordsHold
    BY DEF BootstrapInv
  <1>1. CASE Preview
    BY <1>0, <1>1, PreviewWork, PreviewRecords DEF BootstrapInv, Typed
  <1>2. CASE OnPublished
    <2>1. RunTypes' /\ Work'
      BY <1>0, <1>2, IdleWork DEF OnPublished, serverVars
    <2>. QED
      BY <1>0, <1>2, <2>1, ReportRecords DEF BootstrapInv, Typed
  <1>3. CASE RunSteps
    <2>1. /\ RunTypes' /\ Work' /\ run \in Publishes /\ run' \in Publishes /\ Alike(run, run')
          /\ UNCHANGED <<viewVars, projectVars, runs>> /\ Adds
          /\ labels' \in SUBSET Labels /\ IsFiniteSet(labels')
      BY <1>0, <1>3, RunStep
    <2>2. RecordsHold'
      BY <1>0, <2>1, RecordsKept
    <2>3. RestTypes'
      BY <1>0, <2>1 DEF Typed, RestTypes, viewVars, projectVars
    <2>. QED
      BY <2>1, <2>2, <2>3 DEF BootstrapInv, Typed
  <1>4. CASE ProjectSteps
    BY <1>0, <1>4, ProjectRecords DEF BootstrapInv, Typed
  <1>5. CASE UNCHANGED vars
    <2>1. /\ run' = run /\ runs' = runs /\ labels' = labels /\ track' = track /\ losses' = losses
          /\ here' = here /\ forgotten' = forgotten /\ record' = record /\ saved' = saved
      BY <1>5 DEF vars, viewVars, projectVars, serverVars
    <2>2. /\ track \in Tracks /\ here \subseteq Layers /\ forgotten \subseteq Layers
          /\ record \in [Layers -> Records \cup {None}] /\ saved \in [Layers -> Records \cup {None}]
          /\ losses \in Nat /\ Layers \ here \subseteq forgotten
      BY <1>0 DEF Typed, RestTypes, RecordsHold
    <2>. QED
      BY <1>0, <2>1, <2>2, StillRecords DEF BootstrapInv, Typed
  <1>. QED
    BY <1>1, <1>2, <1>3, <1>4, <1>5, NextParts

LEMMA BootstrapHolds == Spec => []BootstrapInv
  BY BootstrapStarts, BootstrapKeeps, PTL DEF Spec

\* The record on a layer names a collection and a class under which the layer has labels
\* on the track it names, and never more of them than there are; and all of them, as long
\* as no record was lost and only that track was published to: whatever the layers, the
\* sizes of the batches and the ways in which runs end (stamp_published, _on_published).
THEOREM RecordsTrue == Spec => []RecordsAreTrue
  <1>1. BootstrapInv => RecordsAreTrue
    <2>1. SUFFICES ASSUME BootstrapInv, NEW l \in Layers, record[l] # None
                   PROVE  LET there == {x \in Before(l) : x.track = record[l].track}
                          IN  /\ record[l].count \in 1..Cardinality(there)
                              /\ \E x \in there : x.to = record[l].to /\ x.class = record[l].class
                              /\ l \notin forgotten /\ there = Before(l) =>
                                    record[l].count = Cardinality(there)
      BY DEF RecordsAreTrue, Before, Active
    <2>2. /\ Fits(Before(l), record[l])
          /\ l \notin forgotten => Total(Before(l), record[l])
      BY <2>1 DEF BootstrapInv, RecordsHold
    <2>. QED
      BY <2>1, <2>2 DEF Fits, Total, On
  <1>. QED
    BY <1>1, BootstrapHolds, PTL

\* A layer some of whose features were confirmed created, on any track and in a run that
\* ended in any way, is not published again unless the warning named it and was accepted,
\* as long as no record was thrown away (_confirm_republish, stamp_published).
THEOREM CopiesAsked == Spec => CopiesAreAsked
  <1>. DEFINE Asked == runs' > runs => \A p \in Items(run'.plans) :
                          \/ p.layer \in forgotten \cup run'.asked
                          \/ \A x \in labels : x.layer = p.layer => ~x.answered
  <1>1. BootstrapInv /\ [Next]_vars => Asked
    <2>. SUFFICES ASSUME BootstrapInv, [Next]_vars PROVE Asked
      OBVIOUS
    <2>0. Typed /\ Work /\ RecordsHold /\ runs \in Nat
      BY DEF BootstrapInv, Typed, RestTypes
    <2>1. CASE Preview
      <3>0. PICK order \in Orders : \E choice : Choosing(choice) /\ Publish(choice, order)
        BY <2>1, PreviewParts
      <3>1. PICK choice : Choosing(choice) /\ Publish(choice, order)
        BY <3>0
      <3>2. /\ run = NoRun
            /\ \A i \in DOMAIN run'.plans :
                  /\ run'.plans[i].layer \in here
                  /\ run'.plans[i].previous = record[run'.plans[i].layer]
                  /\ run'.plans[i].previous # None => run'.plans[i].layer \in run'.asked
        BY <2>0, <3>1, PublishParts DEF Typed
      <3>3. SUFFICES ASSUME NEW i \in DOMAIN run'.plans,
                            run'.plans[i].layer \notin forgotten \cup run'.asked
                     PROVE  \A x \in labels : x.layer = run'.plans[i].layer => ~x.answered
        BY DEF Items
      <3>4. run'.plans[i].layer \in Layers /\ record[run'.plans[i].layer] = None
        BY <2>0, <3>2, <3>3 DEF Typed, RestTypes
      <3>5. Before(run'.plans[i].layer) = {}
        BY <2>0, <3>3, <3>4 DEF RecordsHold, Total
      <3>. QED
        BY <3>2, <3>5 DEF Before, Active
    <2>2. CASE OnPublished
      BY <2>0, <2>2 DEF OnPublished
    <2>3. CASE RunSteps
      BY <2>0, <2>3, RunStep
    <2>4. CASE ProjectSteps
      BY <2>0, <2>4 DEF ProjectSteps, Decline, SaveProject, ChooseTrack, RemoveLayer, Reopen
    <2>5. CASE UNCHANGED vars
      BY <2>0, <2>5 DEF vars
    <2>. QED
      BY <2>1, <2>2, <2>3, <2>4, <2>5, NextParts
  <1>2. BootstrapInv /\ [Next]_vars => [Asked]_vars
    BY <1>1
  <1>. QED
    BY <1>2, BootstrapHolds, PTL DEF Spec, CopiesAreAsked

\* Labels are not taken back, and an extent is declared for a layer that was swept.
LEMMA SweptKeeps ==
    ASSUME ~ShortReads
    PROVE  BootstrapInv /\ ExhaustiveIsSwept /\ [Next]_vars => ExhaustiveIsSwept'
  <1>. SUFFICES ASSUME BootstrapInv, ExhaustiveIsSwept, [Next]_vars PROVE ExhaustiveIsSwept'
    OBVIOUS
  <1>0. Typed /\ Work /\ RecordsHold
    BY DEF BootstrapInv
  <1>1. ASSUME labels \subseteq labels', extents' = extents PROVE ExhaustiveIsSwept'
    BY <1>1 DEF ExhaustiveIsSwept
  <1>2. CASE Preview
    <2>0. PICK order \in Orders : \E choice : Choosing(choice) /\ Publish(choice, order)
      BY <1>2, PreviewParts
    <2>1. PICK choice : Choosing(choice) /\ Publish(choice, order)
      BY <2>0
    <2>2. UNCHANGED serverVars
      BY <2>1 DEF Publish
    <2>. QED
      BY <1>1, <2>2 DEF serverVars
  <1>3. CASE OnPublished
    BY <1>1, <1>3 DEF OnPublished, serverVars
  <1>4. CASE RunSteps
    <2>1. CASE ~EndLayer
      BY <1>0, <1>1, <1>4, <2>1, RunStep DEF Adds
    <2>2. CASE EndLayer
      <3>1. InLayer
        BY <1>0, <2>2, AtLayer DEF Typed, Work, EndLayer
      <3>. DEFINE e == [layer |-> Plan.layer, class |-> Plan.class, extent |-> Plan.extent,
                        track |-> run.track, copy |-> runs]
      <3>2. /\ run.chunk = <<>> /\ labels' = labels
            /\ \/ extents' = extents
               \/ extents' = extents \cup {e} /\ ExtentDue(Counted, Plan.extent) /\ ~Left
        BY <1>0, <2>2, <3>1, EndLayerParts DEF Work
      <3>3. CASE extents' = extents \cup {e} /\ ExtentDue(Counted, Plan.extent) /\ ~Left
        <4>1. ASSUME Plan.extent = "exhaustive", NEW i \in DOMAIN Rows(Plan.layer),
                     Rows(Plan.layer)[i].shape # None
              PROVE  \E x \in labels : /\ x.layer = Plan.layer /\ x.row = i /\ x.copy = runs
                                       /\ x.track = run.track /\ x.class = Plan.class
          <5>1. \A c \in Counters \ {"published", "noGeometry"} : Counted[c] = 0
            BY <3>3, <4>1 DEF ExtentDue
          <5>2. i < run.row
            <6>1. DOMAIN Rows(Plan.layer) = 1..Len(Rows(Plan.layer)) /\ Len(Rows(Plan.layer)) \in Nat
              BY <3>1, RowsParts DEF InLayer
            <6>2. run.row \in Nat /\ ~(run.row <= Len(Rows(Plan.layer)))
              BY <3>1, <3>3, RunParts DEF InLayer, Left
            <6>. QED
              BY <4>1, <6>1, <6>2
          <5>3. DOMAIN run.chunk = {}
            BY <3>2
          <5>. QED
            BY <1>0, <3>1, <4>1, <5>1, <5>2, <5>3 DEF Work, Swept, InLayer
        <4>2. /\ e.layer = Plan.layer /\ e.class = Plan.class /\ e.extent = Plan.extent
              /\ e.track = run.track /\ e.copy = runs
          OBVIOUS
        <4>. HIDE DEF e
        <4>3. SUFFICES ASSUME NEW d \in extents', d.extent = "exhaustive",
                              NEW i \in DOMAIN Rows(d.layer), Rows(d.layer)[i].shape # None
                       PROVE  \E x \in labels : /\ x.layer = d.layer /\ x.row = i /\ x.copy = d.copy
                                                /\ x.track = d.track /\ x.class = d.class
          BY <3>2 DEF ExhaustiveIsSwept
        <4>4. CASE d \in extents
          BY <4>3, <4>4 DEF ExhaustiveIsSwept
        <4>5. CASE d = e
          BY <4>1, <4>2, <4>3, <4>5
        <4>. QED
          BY <3>3, <4>3, <4>4, <4>5
      <3>. QED
        BY <1>1, <3>2, <3>3
    <2>. QED
      BY <2>1, <2>2
  <1>5. CASE ProjectSteps
    BY <1>1, <1>5
       DEF ProjectSteps, Decline, SaveProject, ChooseTrack, RemoveLayer, Reopen, serverVars
  <1>6. CASE UNCHANGED vars
    BY <1>1, <1>6 DEF vars, serverVars
  <1>. QED
    BY <1>2, <1>3, <1>4, <1>5, <1>6, NextParts

\* A survey extent declared exhaustive has a label of the same run, track and class for
\* each row of its layer that has a geometry, where sources are read to their ends
\* (_extent_refusal, _publish_layer).
THEOREM ExtentsSwept ==
    ASSUME ~ShortReads
    PROVE  Spec => []ExhaustiveIsSwept
  <1>1. Init => ExhaustiveIsSwept
    BY DEF Init, ExhaustiveIsSwept
  <1>2. BootstrapInv /\ ExhaustiveIsSwept /\ [Next]_vars => ExhaustiveIsSwept'
    BY SweptKeeps
  <1>. QED
    BY <1>1, <1>2, BootstrapHolds, PTL DEF Spec
=============================================================================
