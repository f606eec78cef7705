------------------------------ MODULE MCCatalog ------------------------------
EXTENDS Catalog, TLC

CONSTANTS now, then, a, b, here, there, x, y

Rec(track, url, view, provider) ==
    [track |-> track, url |-> url, date |-> now, edit |-> "no", view |-> view,
     state |-> "open", provider |-> provider, readOnly |-> view # "live", locked |-> FALSE]

\* One backend with class layers and two tracks, and one with neither.
Served == {[url |-> here, offer |-> [names |-> {a, b}, archived |-> {a}, default |-> b],
            native |-> TRUE],
           [url |-> there, offer |-> [names |-> {a}, archived |-> {a}, default |-> a],
            native |-> FALSE]}

\* A layer which the first would upgrade.
OneLayer == {x :> Rec(a, here, "live", "oapif")}

\* One which was saved on a track that is not the selected one.
StrayLayer == {x :> Rec(b, here, "live", "class")}

\* Two tracks to look at, and none to publish into.
Archived == {[url |-> here, offer |-> [names |-> {a, b}, archived |-> {a, b}, default |-> b],
              native |-> TRUE]}

\* A layer, and a place for a second one.
TwoPlaces == {x :> Rec(a, here, "live", "class") @@ y :> Absent}
SwapFaults == {"check", "repoint", "store", "restore", "disable", "unstore"}
=============================================================================
