------------------------------- MODULE MCRollout -------------------------------
(* Small instances of Rollout for TLC. *)
EXTENDS Rollout, TLC

CONSTANTS p1, p2, kid1, kid2, key1, key2

MCFirstKey == [kid |-> kid1, key |-> key1]
================================================================================
