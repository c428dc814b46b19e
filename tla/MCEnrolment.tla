---------------------------- MODULE MCEnrolment ----------------------------
(* Instances of Enrolment for TLC. *)
EXTENDS Enrolment, TLC

(* Holders, keys and commands are interchangeable. *)
NameSymmetry == Permutations(Holders) \cup Permutations(Keys) \cup Permutations(Commands)

(* What a command has read matters while it runs, and goes with it. *)
LiveState ==
  <<header, cmd, pc, revoked, gapped,
    [c \in Commands |-> IF pc[c] \in Running THEN <<mem[c], copied[c]>> ELSE <<>>]>>
=============================================================================
