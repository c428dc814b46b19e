---------------------------- MODULE MCRelayDial ----------------------------
(* Instances of RelayDial for TLC. *)
EXTENDS RelayDial
=============================================================================
