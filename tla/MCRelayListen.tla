--------------------------- MODULE MCRelayListen ---------------------------
(* Instances of RelayListen for TLC. *)
EXTENDS RelayListen, TLC

(* The relays are interchangeable: the order they are tried in is open.    *)
RelaySymmetry == Permutations(Relays)
=============================================================================
