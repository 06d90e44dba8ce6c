-------------------------------- MODULE Minting --------------------------------
(***************************************************************************)
(* What authn promises about minting, however many calls it takes and      *)
(* whatever becomes of the others: a login gets one certificate, while it  *)
(* waits for it and for no longer than it asked; it stores and answers     *)
(* only what it got, and a login that is over stays so.                    *)
(***************************************************************************)
EXTENDS Integers

CONSTANT Req   \* the logins, each of them once

VARIABLES
  clock,
  asked,   \* per login, the duration it asks for, 0 before it does
  phase,   \* how far each is
  expiry   \* per login that is not over, the expiry of its certificate, 0 for none

mintingVars == <<clock, asked, phase, expiry>>

Over == {"answered", "refused"}

Advance == clock' = clock + 1 /\ UNCHANGED <<asked, phase, expiry>>

Ask(r) ==
  /\ phase[r] = "asking" /\ asked[r] = 0
  /\ asked' = [asked EXCEPT ![r] = asked'[r]]
  /\ UNCHANGED <<clock, phase, expiry>>

\* The certificate is valid now, and expires within what was asked for.
Mint(r) ==
  /\ phase[r] = "asking"
  /\ phase' = [phase EXCEPT ![r] = "minted"]
  /\ expiry' = [expiry EXCEPT ![r] = expiry'[r]]
  /\ expiry'[r] \in (clock + 1)..(clock + asked[r])
  /\ UNCHANGED <<clock, asked>>

Keep(r) ==
  /\ phase[r] = "minted"
  /\ phase' = [phase EXCEPT ![r] = "stored"]
  /\ UNCHANGED <<clock, asked, expiry>>

\* R is over: one login, or all those a process was serving.
Finish(R, how) ==
  /\ phase' = [r \in Req |-> IF r \in R THEN how ELSE phase[r]]
  /\ expiry' = [r \in Req |-> IF r \in R THEN 0 ELSE expiry[r]]
  /\ UNCHANGED <<clock, asked>>

Answer(r) == phase[r] = "stored" /\ Finish({r}, "answered")
Refuse(R) == (\A r \in R : phase[r] \notin Over) /\ Finish(R, "refused")

MintingInit ==
  /\ clock = 0
  /\ asked \in [Req -> Nat]
  /\ phase = [r \in Req |-> "asking"]
  /\ expiry = [r \in Req |-> 0]

MintingNext ==
  \/ Advance
  \/ \E r \in Req : Ask(r) \/ Mint(r) \/ Keep(r) \/ Answer(r)
  \/ \E R \in SUBSET Req : Refuse(R)

MintingSpec == MintingInit /\ [][MintingNext]_mintingVars
================================================================================
