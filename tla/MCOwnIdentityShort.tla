--------------------------- MODULE MCOwnIdentityShort ---------------------------
(* A small instance of OwnIdentity whose certificates may expire before authn    *)
(* looks at them again: the wait is floored at MinSleep.                         *)
EXTENDS OwnIdentity

CONSTANTS p1

\* Whatever the signer grants is over by the end of the floored wait.
ASSUME InstanceIsShort == Longest <= MinSleep
================================================================================
