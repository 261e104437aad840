----------------------------- MODULE MCDeliver -----------------------------
(* Deliver for TLC.                                                          *)
EXTENDS Deliver, TLC

Symmetry == Permutations(Instance)
=============================================================================
