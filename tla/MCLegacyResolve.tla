--------------------------- MODULE MCLegacyResolve ---------------------------
(* Instances of LegacyResolve for TLC. *)
EXTENDS LegacyResolve, TLC

CONSTANTS e1, e2, r1, r2, r3

Edited   == {<<e1, e1>>, <<e1, e2>>}
Symmetry == Permutations(Login)
================================================================================
