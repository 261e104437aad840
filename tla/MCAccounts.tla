----------------------------- MODULE MCAccounts -----------------------------
(* Accounts for TLC.                                                         *)
EXTENDS Accounts, TLC

Symmetry == Permutations(User) \cup Permutations(Invite) \cup Permutations(Slot)
=============================================================================
