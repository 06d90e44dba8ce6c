------------------------------- MODULE MCPortal -------------------------------
(* Small instances of Portal for TLC. *)
EXTENDS Portal, TLC

CONSTANTS user, oidc1, oidc2, ldap, oauth1, oauth2, here

MCKind ==
  [o \in Object |->
    IF o = user THEN "user" ELSE IF o = ldap THEN "ldap"
    ELSE IF o \in {oauth1, oauth2} THEN "oauth" ELSE "oidc"]

MCRank ==
  LET rank == user :> 0 @@ oidc1 :> 1 @@ oidc2 :> 2 @@ ldap :> 3 @@ oauth1 :> 4 @@ oauth2 :> 5
  IN  [o \in Object |-> rank[o]]
================================================================================
