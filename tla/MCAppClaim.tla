----------------------------- MODULE MCAppClaim -----------------------------
(* AppClaim for TLC: the symmetry of the model values the cfgs use, and the  *)
(* liveness properties for one instance and one application.                 *)
EXTENDS AppClaim, TLC

Symmetry == Permutations(Instance) \cup Permutations(App)

\* The specification treats all instances and all applications alike, so where
\* there are many of them one stands for each.
SomeInstance == CHOOSE i \in Instance : TRUE
SomeApp      == CHOOSE a \in App : TRUE

\* StaleClaimNoticed for one claim: after the admin API deleted its key.
RevocationNoticed == StaleIsNoticed(SomeInstance, SomeApp)

\* ApplicationsAreHeld for one application: after the admin API deleted its key.
RevokedIsHeldAgain == HeldWhileUp(SomeInstance, SomeApp)
=============================================================================
