---------------------------- MODULE MCLoginContract ----------------------------
(* Small instances of LoginContract for TLC. *)
EXTENDS LoginContract

AllStrategies == {"basic", "ldap", "oauth", "oidc", "stepup", "serviceaccount"}
================================================================================
