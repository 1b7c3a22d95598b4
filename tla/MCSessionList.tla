--------------------------- MODULE MCSessionList ---------------------------
(* The instance of SessionList for TLC.                                    *)
EXTENDS SessionList, TLC

CONSTANTS r1, r2, r3, i1, i2

Symmetry == Permutations(Requests)
============================================================================
