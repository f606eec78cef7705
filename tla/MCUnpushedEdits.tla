-------------------------- MODULE MCUnpushedEdits --------------------------
(* The recovery journal on small instances. A create, and a change or a     *)
(* deletion beside it, are enough for a Save to succeed in part.            *)
EXTENDS UnpushedEdits, TLC

CONSTANTS c1, c2, u1, x1, ann, bob

MCOneCreate == {c1}
MCTwoCreates == {c1, c2}
MCChange == {u1}
MCDelete == {x1}
MCNothing == {}
MCAnn == {ann}
MCAnnAndBob == {ann, bob}
MCNoFaults == {}
MCAllFaults == FaultKinds
=============================================================================
