------------------------------ MODULE MCIssuance ------------------------------
(* Small instances of Issuance for TLC. *)
EXTENDS Issuance, TLC

CONSTANTS alice, r1, r2, ca1, ca2

\* The logins are one user's: a login and a step-up, or two tabs.
MCUserOf == [r \in Req |-> alice]

LoginSymmetry == Permutations(Req)
================================================================================
