---------------------------- MODULE MCMultiRace ----------------------------
(* Instances of MultiRace for TLC. *)
EXTENDS MultiRace, TLC

=============================================================================
