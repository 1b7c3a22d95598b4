------------------------- MODULE MCSessionRegistry -------------------------
(* Instances of SessionRegistry for TLC.                                   *)
EXTENDS SessionRegistry, TLC

CONSTANTS r1, r2, r3, r4, i1, i2

Symmetry == Permutations(Requests)
============================================================================
