---------------------------- MODULE EventQueueMC ----------------------------
(***************************************************************************)
(* Model checking of EventQueue: ann and bob watch; ann taps twice.        *)
(***************************************************************************)
EXTENDS EventQueue, TLC

CONSTANTS ann, bob, v1, v2, v3

Callers == [q \in Requests |-> IF q = v3 THEN bob ELSE ann]
=============================================================================
