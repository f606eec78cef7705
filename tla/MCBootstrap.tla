----------------------------- MODULE MCBootstrap -----------------------------
EXTENDS Bootstrap, TLC

CONSTANTS p, q, a, b

\* A pair of label collections, one for points alone, and the layer of a class.
MCCollections == <<"label_point", "class_tower", "audit_point", "label_polygon">>
MCServed == {"label_point", "label_polygon", "audit_point"}
Fields == {"name", "name_zh", "height", "no_units", "units", "unit_count", "kind", "extra",
           "source_attributes"}
Names == Items(MCCollections) \cup Fields \cup {"towers", "tower", "unit yard", "yard"}

MCWordsOf ==
    [n \in Names |->
        CASE n = "label_point" -> <<"label", "point">> [] n = "label_polygon" -> <<"label", "polygon">>
          [] n = "audit_point" -> <<"audit", "point">> [] n = "name_zh" -> <<"name", "zh">>
          [] n = "no_units" -> <<"no", "units">> [] n = "unit_count" -> <<"unit", "count">>
          [] n = "class_tower" -> <<"class", "tower">>
          [] n = "unit yard" -> <<"unit", "yard">> [] n = "source_attributes" -> <<"source", "attributes">>
          [] OTHER -> <<n>>]
MCStem == [w \in UNION {Items(MCWordsOf[n]) : n \in Names} |->
              CASE w \in {"unit", "units"} -> "unit" [] w \in {"tower", "towers"} -> "towe" [] OTHER -> w]
MCLanguageOf == "zh" :> "zh" @@ "en" :> "en"
MCFamilyOf == "point" :> "Point" @@ "polygon" :> "Polygon"
Alphabet == <<"extra", "height", "kind", "name", "name_zh", "no_units", "towers", "units", "unit yard">>
MCRank == [n \in Items(Alphabet) |-> CHOOSE i \in DOMAIN Alphabet : Alphabet[i] = n]
MCCleaned == " " :> "" @@ "tall " :> "tall"

Text(t) == [is |-> "text", as |-> t]
Whole(n) == [is |-> "int", as |-> n]
Declared(type, barred) == [type |-> type, barred |-> barred]

\* Classes that store points, open to other attributes, and single polygons, not open.
Towers ==
    [id |-> "tower", label |-> "tower", geom |-> "Point", active |-> TRUE, open |-> TRUE,
     declared |-> <<"height", "unit_count", "kind">>,
     spec |-> "height" :> Declared("number", {"7"}) @@ "unit_count" :> Declared("integer", {})
              @@ "kind" :> Declared("string", {})]
Yards ==
    [id |-> "yard", label |-> "unit yard", geom |-> "Polygon", active |-> TRUE, open |-> FALSE,
     declared |-> <<"source_attributes", "kind">>,
     spec |-> "source_attributes" :> Declared("object", {}) @@ "kind" :> Declared("string", {})]
MCClasses == {Towers, Yards}

Shape(type, parts, flat) == [type |-> type, parts |-> parts, flat |-> flat]
Row(shape, valid, values) == [shape |-> shape, valid |-> valid, values |-> values]

MCSource ==
    p :> [name |-> "towers", type |-> "Point", crs |-> TRUE, counted |-> TRUE, style |-> "red",
            columns |-> <<"name", "name_zh", "height", "no_units", "extra">>,
            rows |-> <<Row(Shape("Point", 1, FALSE), TRUE,
                           "name" :> Text("tall ") @@ "name_zh" :> Text("cut") @@ "height" :> Text("0.5")
                           @@ "no_units" :> Whole("7") @@ "extra" :> Text("x")),
                       Row(Shape("Point", 1, TRUE), TRUE,
                           "name" :> Text("cut") @@ "name_zh" :> Text(" ") @@ "height" :> Text("7")
                           @@ "no_units" :> Text("yes") @@ "extra" :> [is |-> "null", as |-> ""]),
                       Row(Shape("MultiPoint", 1, TRUE), TRUE,
                           "name" :> Text("") @@ "name_zh" :> Text("") @@ "height" :> Text("tall ")
                           @@ "no_units" :> Text("1") @@ "extra" :> Whole("1"))>>]
 @@ q :> [name |-> "unit yard", type |-> "MultiPolygon", crs |-> TRUE, counted |-> FALSE, style |-> NoStyle,
            columns |-> <<"kind", "units">>,
            rows |-> <<Row(Shape("MultiPolygon", 1, TRUE), TRUE, "kind" :> Whole("7") @@ "units" :> Whole("1")),
                       Row(None, TRUE, "kind" :> Text("x") @@ "units" :> Whole("1"))>>]

\* What the preview suggests leaves no damaged name out, and sends styles.
Choice(publish, class, extent) ==
    [publish |-> publish, class |-> class, extent |-> extent, skip |-> TRUE, style |-> FALSE]
MCChoices == {Choice(FALSE, "tower", ""), Choice(TRUE, "tower", "exhaustive"),
              Choice(TRUE, "yard", "exhaustive")}
MCPanel == <<p, q>>
TrackSymmetry == Permutations(Tracks)
=============================================================================
