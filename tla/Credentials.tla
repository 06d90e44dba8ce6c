------------------------------ MODULE Credentials ------------------------------
(***************************************************************************)
(* The data every credential module speaks about: the client certificate   *)
(* authn obtains for an identity, the name of the Secret that stores it,   *)
(* and the annotations recorded beside it.                                 *)
(*                                                                         *)
(* Constant-level only.  Key material, CA data, server URL and the string  *)
(* forms are abstracted away: no property distinguishes their values.      *)
(***************************************************************************)
EXTENDS Integers

CONSTANTS
  User,         \* usernames (the certificate's CN=)
  Group,        \* group names (the certificate's O=)
  Reserved,     \* the groups named krateo:loa:<n>, authn's to grant
  Multiline,    \* the group names that contain a newline
  Dns,          \* DNS-1123 forms of usernames
  DnsName,      \* MakeDNS1123Compatible; two usernames may share a form
  Issuance,     \* identifies one run of the issuer: who minted a certificate
  Unreadable    \* what client-certificate-data holds when no certificate parses

(***************************************************************************)
(* identity.go: the strategies a login can have, "self" for authn's own    *)
(* identity and "unknown", which only the backfill writes.  "" stands for  *)
(* an absent annotation.                                                   *)
(***************************************************************************)
LoginStrategy == {"basic", "ldap", "oauth", "oidc", "serviceaccount"}
Strategy      == LoginStrategy \cup {"self", "unknown"}

(***************************************************************************)
(* A certificate: subject, groups and expiry are in it.  strategy (the     *)
(* login strategy that asked for it) and by (the issuance that minted it,  *)
(* none for one that predates the model) are not in the certificate: they  *)
(* are what the annotations are judged against.                            *)
(***************************************************************************)
Cert == [user: User, groups: SUBSET Group, notAfter: Nat,
         strategy: LoginStrategy \cup {"self"}, by: SUBSET Issuance]

ASSUME CredentialsAssumption ==
  /\ Reserved \subseteq Group
  /\ Multiline \subseteq Group
  /\ DnsName \in [User -> Dns]
  /\ Unreadable \notin Cert

IsReserved(g) == g \in Reserved

(***************************************************************************)
(* storage.go: the two Secrets of a username.  They end in "-clientconfig" *)
(* and "-clientconfig-stepup", so the two kinds of names are disjoint.     *)
(***************************************************************************)
Name == [dns: Dns, stepUp: BOOLEAN]
ClientConfigSecretName(u) == [dns |-> DnsName[u], stepUp |-> FALSE]
StepUpSecretName(u)       == [ClientConfigSecretName(u) EXCEPT !.stepUp = TRUE]
StepUpNames       == {n \in Name : n.stepUp}    \* IsStepUpSecretName
ClientConfigNames == {n \in Name : ~n.stepUp}   \* the "-clientconfig" suffix

(***************************************************************************)
(* The annotations of a Secret: strategy "" / groups {} / notAfter 0 when  *)
(* absent; groups is otherwise {G}, G being the recorded set of groups.    *)
(***************************************************************************)
Annotations == [strategy: Strategy \cup {""}, groups: SUBSET SUBSET Group, notAfter: Nat]
NoAnnotations == [strategy |-> "", groups |-> {}, notAfter |-> 0]

\* ValidateGroups: a newline would make the groups annotation ambiguous.
ValidateGroups(G) == G \cap Multiline = {}

\* What a login records beside certificate c: IdentityAnnotations merged with
\* CertValidityAnnotations.
LoginAnnotations(s, c) == [strategy |-> s, groups |-> {c.groups}, notAfter |-> c.notAfter]

\* The identity annotations both present (missingAnnotations' early return).
HasIdentity(a) == a.strategy # "" /\ a.groups # {}

\* missingAnnotations merged over what the Secret has: only absent keys change.
Backfilled(a, s, c) ==
  [a EXCEPT !.strategy = IF @ = "" THEN s ELSE @,
            !.groups   = IF @ = {} THEN {c.groups} ELSE @]
================================================================================
