------------------------------- MODULE Drafts -------------------------------
(* What a publish makes of a local layer and of a row in it: the class its    *)
(* name resembles and the attribute each column fills (core/legacy.py), the   *)
(* collection its geometry goes to (core/routing.py), and the label a row     *)
(* becomes (core/publish.py, core/names.py). Operators only.                  *)
(*                                                                            *)
(* A name, of a column, an attribute, a class, a layer or a collection, is    *)
(* known by its words; a value is what Python finds it to be (is) and how it  *)
(* reads (as).                                                                *)
EXTENDS Integers, Sequences, FiniteSets

CONSTANTS
    WordsOf,    \* the words of each name, split and in lower case
    Stem,       \* the first letters of each word
    Quantity,   \* words which say that a column counts: "no", "qty"
    LanguageOf, \* the language which a word stands for: "zh", "en"
    FamilyOf,   \* the geometry family which a word of a collection stands for
    Rank,       \* alphabetical order of names
    Mentions,   \* pairs of a layer and a class whose Chinese label its name contains
    Chinese,    \* texts with Chinese characters
    Damaged,    \* those which may have lost their last one
    Cleaned,    \* texts with padding, and what is left without it
    Archive,    \* the attribute source_attributes
    Name,       \* the stem of "name"
    None        \* no class, no attribute, no collection, no geometry

Items(s) == {s[i] : i \in DOMAIN s}
First(s, S) == s[CHOOSE i \in DOMAIN s : s[i] \in S /\ \A j \in 1..(i - 1) : s[j] \notin S]
Words(name) == Items(WordsOf[name])
The(S) == IF Cardinality(S) = 1 THEN CHOOSE x \in S : TRUE ELSE None

-----------------------------------------------------------------------------
(* Names (core/legacy.py).                                                   *)

\* Words for numbers and languages are not part of what a name is about.
\* concept_of, tokenise
Stems(name) == {Stem[w] : w \in Words(name) \ (Quantity \cup DOMAIN LanguageOf)}
Counts(name) == Words(name) \cap Quantity # {}
Language(name) ==
    LET said == SelectSeq(WordsOf[name], LAMBDA w : w \in DOMAIN LanguageOf)
    IN  IF said = <<>> THEN "auto" ELSE LanguageOf[said[Len(said)]]

\* The one active class which shares most stems with the layer's name, and of those has
\* fewest others; None when there is no such class, or several.
\* guess_class
Guess(name, classes) ==
    LET about(c) == Stems(c.id) \cup Stems(c.label)
        score(c) == Cardinality(Stems(name) \cap about(c))
                    + (IF <<name, c.id>> \in Mentions THEN 1 ELSE 0)
        others(c) == Cardinality(about(c) \ Stems(name))
        better(c, d) == score(c) > score(d) \/ (score(c) = score(d) /\ others(c) < others(d))
        scored == {c \in classes : c.active /\ score(c) > 0}
    IN  The({c.id : c \in {d \in scored : \A e \in scored : ~better(e, d)}})

\* The declared attribute of the same words; otherwise the one with the same sense of
\* counting which has all stems of the column and fewest others.
\* _attribute_match
AttributeFor(column, class) ==
    LET names == Items(class.declared)
        same == {n \in names : WordsOf[n] = WordsOf[column]}
        like == {n \in names : /\ Stems(column) # {} /\ Stems(column) \subseteq Stems(n)
                               /\ Counts(n) = Counts(column)}
    IN  IF same # {} THEN First(class.declared, same)
        ELSE The({n \in like : \A m \in like : Cardinality(Stems(n)) <= Cardinality(Stems(m))})

\* map_field, _name_match
MapField(column, class) ==
    LET attribute == AttributeFor(column, class)
        declared == \E n \in Items(class.declared) : WordsOf[n] = WordsOf[column]
    IN  IF ~declared /\ Stems(column) = {Name}
        THEN [role |-> "name", target |-> Language(column)]
        ELSE IF attribute # None THEN [role |-> "attribute", target |-> attribute]
        ELSE IF class.open THEN [role |-> "source", target |-> column]
        ELSE [role |-> "unmapped", target |-> None]

-----------------------------------------------------------------------------
(* Values (core/legacy.py).                                                  *)

Wholes == {"0", "1", "7"}
Numbers == Wholes \cup {"0.5"}
TrueWords == {"yes", "1"}
FalseWords == {"no", "0"}
Unreadable == [is |-> "unreadable", as |-> ""]
Clean(text) == IF text \in DOMAIN Cleaned THEN Cleaned[text] ELSE text

\* is_blank
Blank(v) == v.is = "null" \/ (v.is = "text" /\ Clean(v.as) = "")
\* is_json_native
JsonNative(v) == v.is # "opaque" /\ (v.is = "float" => v.as \in Numbers)

\* A type that is none of the four is not looked at.
\* coerce, _as_integer, _as_string, _as_boolean
Coerce(v, type) ==
    LET read == Clean(v.as)
        scalar == v.is \in {"int", "float", "text"}
        number == v.is \in {"int", "float"} /\ v.as \in Numbers
    IN  CASE type = "integer" /\ scalar /\ read \in Wholes -> [is |-> "int", as |-> read]
          [] type = "number" /\ scalar /\ read \in Numbers -> [is |-> "float", as |-> read]
          [] type = "string" /\ (v.is = "text" \/ number) -> [is |-> "text", as |-> read]
          [] type = "boolean" /\ v.is = "bool" -> v
          [] type = "boolean" /\ scalar /\ read \in TrueWords -> [is |-> "bool", as |-> "yes"]
          [] type = "boolean" /\ scalar /\ read \in FalseWords -> [is |-> "bool", as |-> "no"]
          [] type \notin {"integer", "number", "string", "boolean"} /\ JsonNative(v) -> v
          [] OTHER -> Unreadable

\* Enumeration, bounds and length, as the values which they refuse.
\* schema_problem
Allowed(v, spec) == v.as \notin spec.barred
Accepted(v, spec) == Coerce(v, spec.type) # Unreadable /\ Allowed(Coerce(v, spec.type), spec)

\* The class has room for the values as they were.
\* source_archive_problem
ArchiveProblem(class) ==
    IF Archive \in Items(class.declared)
    THEN class.spec[Archive].type \notin {"any", "object"} ELSE ~class.open

-----------------------------------------------------------------------------
(* The attributes of a row (core/legacy.py: build_attrs).                    *)

\* A row is not published where the values as they were cannot be kept with it.
Blocked(row, class) ==
    /\ DOMAIN row # {}
    /\ \/ ArchiveProblem(class)
       \/ \E c \in DOMAIN row : ~JsonNative(row[c])
       \/ \E c \in DOMAIN row : /\ c # Archive
                                /\ MapField(c, class) = [role |-> "attribute", target |-> Archive]

\* The columns with an acceptable value for attribute n, and the one whose value it gets.
Claims(row, class, n) ==
    {c \in DOMAIN row : /\ c # Archive /\ MapField(c, class) = [role |-> "attribute", target |-> n]
                        /\ ~Blank(row[c]) /\ Accepted(row[c], class.spec[n])
                        /\ ~Blank(Coerce(row[c], class.spec[n].type))}
Owner(claims, n) ==
    IF n \in claims THEN n ELSE CHOOSE c \in claims : \A d \in claims : Rank[c] <= Rank[d]

\* The attributes that columns were found for.
Canonical(row, class) ==
    LET filled == {n \in Items(class.declared) : Claims(row, class, n) # {}}
    IN  [n \in filled |-> Coerce(row[Owner(Claims(row, class, n), n)], class.spec[n].type)]

\* Mutant: a value is kept under its column's name whatever the class says of that name.
KeptAnyway(row, class) ==
    LET canonical == Canonical(row, class)
    IN  {c \in DOMAIN row \ (DOMAIN canonical \cup {Archive}) :
            LET map == MapField(c, class)
                given == map.role = "attribute" /\ map.target \in DOMAIN canonical
            IN  /\ map.role # "name"
                /\ given => canonical[map.target] # Coerce(row[c], class.spec[map.target].type)}

\* The columns kept beside them under their own names: those that filled no attribute,
\* unless the class declares the name and the value needs a conversion, or admits no
\* attributes it does not declare.
Kept(row, class) ==
    LET canonical == Canonical(row, class)
        given(c) == /\ MapField(c, class).role = "attribute"
                    /\ c \in Claims(row, class, MapField(c, class).target)
                    /\ canonical[MapField(c, class).target]
                       = Coerce(row[c], class.spec[MapField(c, class).target].type)
    IN  {c \in DOMAIN row \ (DOMAIN canonical \cup {Archive}) :
            /\ MapField(c, class).role # "name" /\ ~given(c)
            /\ IF c \in Items(class.declared)
               THEN Accepted(row[c], class.spec[c]) /\ Coerce(row[c], class.spec[c].type) = row[c]
               ELSE class.open}

Attributes(row, class) ==
    LET canonical == Canonical(row, class)
    IN  [n \in DOMAIN canonical \cup Kept(row, class) |->
            IF n \in DOMAIN canonical THEN canonical[n] ELSE row[n]]

\* looks_chinese
LanguageBy(text) == IF text \in Chinese THEN "zh" ELSE "en"

\* What has lost its end looks like names that have not; leaving those out is a choice.
\* is_damaged
LeftOut(text, skipDamaged) == skipDamaged /\ text \in Damaged

\* One name per language: of the first column that declares the language, or else of the
\* first whose text was taken to be in it.
\* build_names, name_entries
NamesOf(columns, row, class, skipDamaged) ==
    LET texts == SelectSeq(columns, LAMBDA c :
                    /\ MapField(c, class).role = "name" /\ ~Blank(row[c])
                    /\ ~LeftOut(row[c].as, skipDamaged))
        said(l) == {c \in Items(texts) : MapField(c, class).target = l}
        taken(l) == {c \in said("auto") : LanguageBy(row[c].as) = l}
        chosen(l) == IF said(l) # {} THEN said(l) ELSE taken(l)
    IN  [l \in {k \in {"zh", "en"} : chosen(k) # {}} |-> Clean(row[First(texts, chosen(l))].as)]

-----------------------------------------------------------------------------
(* Geometry (core/publish.py).                                               *)

Types == {"Point", "LineString", "Polygon", "MultiPoint", "MultiLineString", "MultiPolygon"}
Multi == [t \in {"Point", "LineString", "Polygon"} |->
            CASE t = "Point" -> "MultiPoint" [] t = "LineString" -> "MultiLineString"
              [] OTHER -> "MultiPolygon"]
MultiOf(t) == IF t \in DOMAIN Multi THEN Multi[t] ELSE None
\* geometry_family
Family(t) == IF t \in DOMAIN Multi THEN t
             ELSE The({s \in DOMAIN Multi : Multi[s] = t})

\* geometry_mismatch: could no feature of the layer become one of the class?
Mismatch(type, want) ==
    type \in Types /\ want \notin {"Any", type, MultiOf(type)} /\ type # MultiOf(want)

\* In the type of the class, if that loses no part.
\* conform_geometry
Conform(g, want) ==
    IF want \in {"Any", g.type} THEN g
    ELSE IF want = MultiOf(g.type) \/ (g.type = MultiOf(want) /\ g.parts = 1)
    THEN [g EXCEPT !.type = want] ELSE None

\* A position keeps two of its numbers.
\* strip_elevation
Flat(g) == [g EXCEPT !.flat = TRUE]

\* Why a row becomes no label, or "drafted".
\* _draft_feature, build_draft
Fate(row, class) ==
    IF row.shape = None THEN "noGeometry"
    ELSE IF ~row.valid THEN "invalid"
    ELSE IF Conform(row.shape, class.geom) = None THEN "unshapeable"
    ELSE IF Blocked(row.values, class) THEN "failed"
    ELSE "drafted"

\* The label which it becomes.
\* build_draft
Draft(row, columns, class, skipDamaged) ==
    [class |-> class.id,
     shape |-> Flat(Conform(row.shape, class.geom)),
     names |-> NamesOf(columns, row.values, class, skipDamaged),
     attrs |-> Attributes(row.values, class), archive |-> row.values]

-----------------------------------------------------------------------------
(* Destinations (core/routing.py).                                           *)

\* A collection is typed by the one word which stands for a geometry family; the other
\* words are its stem.
\* typed, stem_of
TypedBy(words) ==
    LET found == SelectSeq(words, LAMBDA w : w \in DOMAIN FamilyOf)
    IN  IF Len(found) = 1 THEN FamilyOf[found[1]] ELSE None
StemOf(words) ==
    IF TypedBy(words) = None THEN words ELSE SelectSeq(words, LAMBDA w : w \notin DOMAIN FamilyOf)

NoRoutes == [families |-> <<>>, untyped |-> None, stem |-> <<>>]

\* One set of typed collections: those of the preferred stem, or the only one offered,
\* with the untyped collection of its stem for what is neither point, line nor polygon. An
\* untyped preference is the one destination of everything. Otherwise nothing is guessed.
\* Of several the first one listed is taken.
\* build_routes
Routes(listed, offered, preferred) ==
    LET words(c) == WordsOf[c]
        typed == {c \in offered : TypedBy(words(c)) # None}
        stems == {StemOf(words(c)) : c \in typed}
        known == StemOf(preferred) # <<>> /\ StemOf(preferred) \in stems
        plain == {c \in offered \ typed : words(c) = preferred}
        stem == The(IF known THEN {StemOf(preferred)} ELSE stems)
        group == {c \in typed : StemOf(words(c)) = stem}
        rest == {c \in offered \ typed : words(c) = stem}
    IN  IF ~known /\ plain # {}
        THEN [families |-> <<>>, untyped |-> First(listed, plain), stem |-> preferred]
        ELSE IF stem = None THEN NoRoutes
        ELSE [families |-> [f \in {TypedBy(words(c)) : c \in group} |->
                              First(listed, {c \in group : TypedBy(words(c)) = f})],
              untyped |-> IF rest = {} THEN None ELSE First(listed, rest),
              stem |-> stem]

\* The collection for a layer of this geometry type, None if there is none.
\* CollectionRoutes.collection_for, CollectionRoutes.refusal
CollectionFor(routes, type) ==
    IF Family(type) \in DOMAIN routes.families THEN routes.families[Family(type)]
    ELSE routes.untyped
=============================================================================
