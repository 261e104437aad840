------------------------------ MODULE MCIngest ------------------------------
(* Ingest for TLC.                                                           *)
EXTENDS Ingest, TLC

Symmetry == Permutations(App)
=============================================================================
