-------------------------- MODULE MCClassProvider --------------------------
(* Two drawn features, so that a create can succeed before another fails;  *)
(* one change and one deletion, so that every group of the commit occurs.  *)
EXTENDS ClassProvider, TLC

CONSTANTS c1, c2, u1, x1

MCCreates == {c1, c2}
MCChanges == {u1}
MCDeletes == {x1}
=============================================================================
