----------------------------- MODULE MCOwnIdentity -----------------------------
(* Small instances of OwnIdentity for TLC. *)
EXTENDS OwnIdentity, TLC

CONSTANTS p1, p2

\* The instances satisfy the hypothesis of OwnIdentityProofs!NeverExpires.
ASSUME InstanceHasRoom == RoomForTrouble

ReplicaSymmetry == Permutations(Replica)
================================================================================
