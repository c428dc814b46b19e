----------------------------- MODULE MCPairing ------------------------------
(* Pairing on small instances for TLC. *)
EXTENDS Pairing, TLC

SessionSymmetry == Permutations(Sessions)
=============================================================================
