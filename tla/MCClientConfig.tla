---------------------------- MODULE MCClientConfig ----------------------------
(* Small instances of ClientConfig for TLC. *)
EXTENDS ClientConfig, TLC

CONSTANTS alice, bob, authn, staff, loa, bad, a, b, z, r1, r2, r3, w1, w2

MCDnsName == [u \in User |-> CASE u = alice -> a [] u = bob -> b [] u = authn -> z]

\* A session login whose source asserts the reserved group, another strategy's
\* session login, a step-up, and groups that can't be recorded.
BasicLogin == [user |-> alice, strategy |-> "basic", groups |-> {staff, loa}, stepUp |-> FALSE]
LdapLogin  == [user |-> alice, strategy |-> "ldap", groups |-> {staff}, stepUp |-> FALSE]
StepUp     == [user |-> alice, strategy |-> "oidc", groups |-> {staff}, stepUp |-> TRUE]
BadGroups  == [user |-> alice, strategy |-> "oidc", groups |-> {bad}, stepUp |-> FALSE]

\* Another user's step-up, under a Secret of its own.
BobStepUp == [StepUp EXCEPT !.user = bob]

LoginIdentities == {BasicLogin, StepUp, BobStepUp}
FillIdentities  == {BasicLogin, LdapLogin, BadGroups}

FillLeftover == {ClientConfigSecretName(alice), ClientConfigSecretName(authn)}
================================================================================
