------------------------------- MODULE HubMC -------------------------------
(***************************************************************************)
(* Model checking of Hub and of its refinement of Room: which identities   *)
(* are interchangeable.                                                    *)
(***************************************************************************)
EXTENDS HubRoom, TLC

HubSymmetry == Permutations(Hubs) \cup Permutations(Clients)
=============================================================================
