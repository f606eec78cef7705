---------------------------- MODULE MCLocalUpload ----------------------------
EXTENDS LocalUpload, TLC

CONSTANTS f1, f2, k1, k2, k3, a, b

\* k1 and k2 are one geometry and class with different attributes.
MCSpot == [k \in Keys |-> IF k = k3 THEN 2 ELSE 1]

=============================================================================
