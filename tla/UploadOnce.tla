------------------------------ MODULE UploadOnce ------------------------------
(* What a journal written before sending promises of uploads that a server     *)
(* cannot recognise as repeated: a key is only ever sent while it is held, it  *)
(* is released only when nothing sent for it can still land, and so it lands   *)
(* at most once, whatever is lost and whoever dies.                            *)
EXTENDS Naturals

CONSTANT Keys

VARIABLES
    held,    \* keys with an entry in the journal
    flying,  \* keys of requests which may still be applied
    landed   \* how often each key was created by an upload

onceVars == <<held, flying, landed>>

Landed == {k \in Keys : landed[k] > 0}

OnceInit ==
    /\ held = {}
    /\ flying = {}
    /\ landed = [k \in Keys |-> 0]

\* Keys are entered before they are sent, or because the server is seen to have them.
Enter(S) ==
    /\ S \cap held = {}
    /\ held' = held \cup S
    /\ UNCHANGED <<flying, landed>>

Depart(S) ==
    /\ S \subseteq held \ (flying \cup Landed)
    /\ flying' = flying \cup S
    /\ UNCHANGED <<held, landed>>

Land(S) ==
    /\ S \subseteq flying
    /\ flying' = flying \ S
    /\ landed' = [k \in Keys |-> IF k \in S THEN landed[k] + 1 ELSE landed[k]]
    /\ UNCHANGED held

Vanish(S) ==
    /\ S \subseteq flying
    /\ flying' = flying \ S
    /\ UNCHANGED <<held, landed>>

Release(S) ==
    /\ S \subseteq held \ (flying \cup Landed)
    /\ held' = held \ S
    /\ UNCHANGED <<flying, landed>>

OnceNext ==
    \E S \in SUBSET Keys : Enter(S) \/ Depart(S) \/ Land(S) \/ Vanish(S) \/ Release(S)

OnceSpec == OnceInit /\ [][OnceNext]_onceVars
=============================================================================
