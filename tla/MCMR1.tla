-------------------------------- MODULE MCMR1 --------------------------------
(* Instances of MR1 for TLC: the multiples of a generator modulo a prime,  *)
(* of which P and -P have the same x-coordinate.                           *)
EXTENDS MR1

CONSTANT Prime

PlusMod(P, Q) == (P + Q) % Prime
TimesMod(k, P) == (k * P) % Prime
XMod(P) == {P, Prime - P}

Numbers == 0..(2 ^ 3 - 1)
Five == <<1, 0, 1>>
Residues == 0..(Prime - 1)
=============================================================================
