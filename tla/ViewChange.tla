------------------------------ MODULE ViewChange ------------------------------
(* What a change of the view promises (transitions.py): the settings name one  *)
(* view, and the layers of the project never show half of an old one and half  *)
(* of a new one. Either every layer which follows the view shows the new one   *)
(* and the settings name it, or the settings keep the old one and each layer   *)
(* shows what it showed, or nothing. Only when the program has said that the   *)
(* recovery is incomplete are both free.                                       *)
CONSTANTS
    Layers,  \* places for layers in the project
    Dates,   \* valid-time views
    Nothing  \* no layer, or one which was disabled

VARIABLES
    date,    \* the valid-time view which the settings name
    shown,   \* what each layer shows: Nothing, or [track, date, follows]
    warned   \* "View recovery is incomplete" has been said

vars == <<date, shown, warned>>

Shows(l) == shown[l] # Nothing
Follower(l) == Shows(l) /\ shown[l].follows

Init ==
    /\ date \in Dates
    /\ warned = FALSE
    /\ \A l \in Layers : Follower(l) => shown[l].date = date

\* Every layer which a change reaches shows the new date, on one track. A change of
\* track leaves the layers of other connections alone; they keep their date.
Follow ==
    /\ date' \in Dates
    /\ \E moved \in SUBSET Layers :
          /\ \A l \in moved : Shows(l) => Follower(l)
          /\ \A l \in moved : shown'[l] # Nothing /\ shown'[l].follows
          /\ \A l, m \in moved : shown'[l].track = shown'[m].track
          /\ \A l \in Layers \ moved : shown'[l] = shown[l]
    /\ \A l \in Layers : (shown'[l] # Nothing /\ shown'[l].follows) => shown'[l].date = date'
    /\ UNCHANGED warned

\* The view stays: layers come and go, open again without naming a track, or are
\* taken from the canvas because they could not be restored.
Stay ==
    /\ UNCHANGED <<date, warned>>
    /\ \A l \in Layers :
          \/ shown'[l] \in {shown[l], Nothing}
          \/ ~Shows(l) /\ (shown'[l].follows => shown'[l].date = date)
          \/ /\ Shows(l) /\ shown'[l] # Nothing
             /\ shown'[l] = [track |-> shown'[l].track, date |-> shown[l].date,
                             follows |-> shown[l].follows]

\* The recovery itself failed, and the person was told to reconnect: nothing is
\* promised from here on.
Break == warned' = TRUE /\ date' \in Dates

Next == Follow \/ Stay \/ Break

Spec == Init /\ [][Next]_vars
=============================================================================
