------------------------- MODULE MCOnDemandRefresher -------------------------
(***************************************************************************)
(* One tick is 20 seconds.  As many channels as requests are enough: a     *)
(* leader needs a channel that none of the others still holds.             *)
(***************************************************************************)
EXTENDS OnDemandRefresher, TLC

CONSTANTS a, b

MCConfigured == {1, 2}

MCLists == {<<a>>, <<a, b>>}

Symmetry == Permutations(Requests) \cup Permutations(Channels)
=============================================================================
