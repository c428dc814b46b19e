----------------------------- MODULE MCExchange -----------------------------
(* Exchange on small instances for TLC. *)
EXTENDS Exchange, TLC

SessionSymmetry == Permutations(Sessions) \cup Permutations(Challenges)
=============================================================================
