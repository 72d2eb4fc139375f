--------------------------- MODULE MCManagedMihomo ---------------------------
(***************************************************************************)
(* Two subscriptions, to go from one to the other and back, and two        *)
(* passwords, the one before a change and the one after it.                *)
(***************************************************************************)
EXTENDS ManagedMihomo
=============================================================================
