-------------------------- MODULE CredentialLifecycle --------------------------
(***************************************************************************)
(* What authn promises about a stored credential, whoever writes it and in *)
(* whatever order: a session credential is replaced by a newer login of a  *)
(* user the Secret is named after and never removed; a step-up credential  *)
(* is replaced likewise and removed only once it is useless.               *)
(***************************************************************************)
EXTENDS Credentials

CONSTANT Grace

VARIABLES
  held,    \* per Secret name, the certificate it holds: none or one
  clock

lifecycleVars == <<held, clock>>

\* A login may store c under n: n is its user's Secret of that kind, and
\* the certificate carries a reserved group exactly when it is a step-up's.
MayHold(n, c) ==
  /\ n.dns = DnsName[c.user]
  /\ n.stepUp = (\E g \in c.groups : IsReserved(g))

\* Only certificates minted by logins are added; one that was there before is
\* never put back.
Rotate(n) ==
  /\ \E c \in held'[n] \ held[n] :
       /\ MayHold(n, c) /\ c.by # {}
       /\ held' = [held EXCEPT ![n] = {c}]
  /\ UNCHANGED clock

Remove(n) ==
  /\ n.stepUp
  /\ \E c \in held[n] : clock >= c.notAfter + Grace
  /\ held' = [held EXCEPT ![n] = {}]
  /\ UNCHANGED clock

Advance == clock' = clock + 1 /\ UNCHANGED held

LifecycleInit ==
  /\ held \in [Name -> SUBSET Cert]
  /\ \A n \in Name : \A c \in held[n] : MayHold(n, c)
  /\ clock = 0

LifecycleNext == Advance \/ \E n \in Name : Rotate(n) \/ Remove(n)

Lifecycle == LifecycleInit /\ [][LifecycleNext]_lifecycleVars
================================================================================
