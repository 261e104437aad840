------------------------------ MODULE MCConsole ------------------------------
(* Console for TLC.                                                          *)
EXTENDS Console, TLC

\* The pages of root and of everybody; a first click leads to any other page.
StartPages == {"chains", "ingestors"}
=============================================================================
