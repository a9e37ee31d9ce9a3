--------------------------- MODULE DeviceScreenMC ---------------------------
(***************************************************************************)
(* Model checking of DeviceScreen, and of WsClient under every screen.     *)
(***************************************************************************)
EXTENDS DeviceScreen
=============================================================================
