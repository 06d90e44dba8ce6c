-------------------------------- MODULE Rollout --------------------------------
(***************************************************************************)
(* A rotation of the signing key, as docs/jwt-jwks.md prescribes it: an    *)
(* upgrade that retires the current key to the previous ones, and another  *)
(* that removes it once its tokens have expired, each a rolling update of  *)
(* authn's pods (Process) while logins are answered and a validator checks *)
(* their tokens by the key set authn publishes.                            *)
(*                                                                         *)
(* The Deployment, the administrator and the validator (plumbing's         *)
(* JWKSKeySource) are external.                                            *)
(***************************************************************************)
EXTENDS Process, SigningKeys, FiniteSets

CONSTANTS
  First,       \* the pods authn runs in at first, as many as its replicas
  FirstKey,    \* the key it signs with at first, and its key ID
  MaxLife,     \* the longest token lifetime
  TTL,         \* the validator's cache TTL
  MinRefresh,  \* the validator's floor between fetch attempts
  MaxTokens,   \* bound on the unexpired tokens
  MaxCrashes   \* bound on the crashes

ASSUME RolloutAssumption ==
  /\ First \subseteq Pod /\ First # {} /\ IsFiniteSet(Pod)
  /\ FirstKey \in PublicKey
  /\ MaxLife \in Nat /\ Grace < MaxLife /\ TTL \in Nat /\ MinRefresh \in Nat \ {0}
  /\ MaxTokens \in Nat /\ MaxCrashes \in Nat

VARIABLES
  release,    \* the configurations deployed so far
  gen,        \* per pod, the one it was created with
  rolledOut,  \* when the upgrade to the last one was seen to be complete: none or one
  tokens,     \* the unexpired tokens handed out
  cache,      \* the validator's key set
  crashes     \* the crashes so far

vars == <<now, process, release, gen, rolledOut, tokens, cache, crashes>>

deployment == <<release, gen, rolledOut, crashes>>
validation == <<tokens, cache>>

Replicas  == Cardinality(First)
Desired   == Len(release)
Serving   == {p \in Pod : listener[p] = "open"}
PodKeys(p) == Published(release[gen[p]])

\* signed: the key and its key ID; exp: expiry; by: the signer's configuration.
Token == [signed: PublicKey, exp: Nat, by: Nat]

\* from: the configuration that answered the last fetch, 0 when none did.
Cache == [keys: SUBSET PublicKey, fetched: SUBSET Nat, tried: SUBSET Nat, from: Nat]

TypeOK ==
  /\ ProcessTypeOK
  /\ release \in Seq(Config)
  /\ gen \in [Pod -> 1..Desired]
  /\ rolledOut \in SUBSET Nat
  /\ tokens \subseteq Token
  /\ cache \in Cache
  /\ crashes \in 0..MaxCrashes

\* authn serves with its first key, and nothing is being rolled out.
Init ==
  /\ now = 0
  /\ phase = [p \in Pod |-> IF p \in First THEN "serve" ELSE "gone"]
  /\ listener = [p \in Pod |-> IF p \in First THEN "open" ELSE "none"]
  /\ healthy = [p \in Pod |-> p \in First]
  /\ deadline = [p \in Pod |-> 0]
  /\ busy = {}
  /\ release = <<[kid |-> FirstKey.kid, key |-> FirstKey.key, previous |-> <<>>]>>
  /\ gen = [p \in Pod |-> 1]
  /\ rolledOut = {0}
  /\ tokens = {}
  /\ cache = [keys |-> {}, fetched |-> {}, tried |-> {}, from |-> 0]
  /\ crashes = 0

Tick ==
  /\ Pass
  /\ tokens' = {t \in tokens : t.exp > now'}
  /\ UNCHANGED <<deployment, cache>>

--------------------------------------------------------------------------------
(* The administrator *)

Deploy(c) ==
  /\ release' = Append(release, c)
  /\ rolledOut' = {}
  /\ UNCHANGED <<now, process, gen, validation, crashes>>

Current == release[Desired]

\* A previous key that authn can't use: no kid, an unreadable file, the new kid,
\* or the new key under the old one.
Mistakes(kid, key) ==
  {[kid |-> NoKid, key |-> Current.key], [kid |-> Current.kid, key |-> Unusable],
   [kid |-> kid, key |-> Current.key], [kid |-> Current.kid, key |-> key]}

\* A key ID belongs to one key, and is used for no other.
Rotate(kid, key) ==
  /\ rolledOut # {} /\ Current.previous = <<>>
  /\ \A i \in 1..Desired : release[i].kid # kid /\ release[i].key # key
  /\ \E e \in {SigningKey(Current)} \cup Mistakes(kid, key) :
       Deploy([kid |-> kid, key |-> key, previous |-> <<e>>])

\* The new pod exits at boot, and the setting is corrected.
Fix ==
  /\ ~Starts(Current)
  /\ Deploy([Current EXCEPT !.previous = <<SigningKey(release[Desired - 1])>>])

\* helm upgrade --wait returns: every pod that is not leaving has the last
\* configuration, and enough of them are ready.
RolledOut ==
  /\ rolledOut = {}
  /\ \A p \in Pod : phase[p] \in {"boot", "serve"} => gen[p] = Desired
  /\ Cardinality({p \in Pod : Ready(p)}) >= Replicas
  /\ rolledOut' = {now}
  /\ UNCHANGED <<now, process, release, gen, validation, crashes>>

\* The longest token lifetime has passed since.
Retire ==
  /\ Current.previous # <<>>
  /\ \E t \in rolledOut : now >= t + MaxLife
  /\ Deploy([Current EXCEPT !.previous = <<>>])

--------------------------------------------------------------------------------
(* The Deployment: a rolling update with one pod more than the replicas *)

Staying == {p \in Pod : phase[p] \in {"boot", "serve"}}

Schedule(p) ==
  /\ phase[p] = "gone"
  /\ Cardinality(Staying) <= Replicas
  /\ Cardinality({q \in Staying : gen[q] = Desired}) < Replicas
  /\ phase' = [phase EXCEPT ![p] = "boot"]
  /\ gen' = [gen EXCEPT ![p] = Desired]
  /\ UNCHANGED <<now, listener, healthy, deadline, busy, release, rolledOut, validation, crashes>>

\* A pod that is not ready costs nothing; one that is leaves when another is.
Terminate(p) ==
  /\ gen[p] # Desired
  /\ Ready(p) => Cardinality({q \in Pod : Ready(q)}) > Replicas
  /\ \/ Signal(p)
     \/ phase[p] = "boot" /\ Gone(p, "gone")
  /\ UNCHANGED <<deployment, validation>>

--------------------------------------------------------------------------------
(* The pods *)

\* main's checks: with any other configuration the process exits at boot.
Boot(p) == Start(p) /\ Starts(release[gen[p]]) /\ UNCHANGED <<deployment, validation>>

ProcessStep(p) ==
  /\ MarkHealthy(p) \/ Listen(p) \/ BeginLogin(p) \/ Flush(p) \/ Drained(p) \/ Forced(p)
  /\ UNCHANGED <<deployment, validation>>

Die(p) ==
  /\ crashes < MaxCrashes
  /\ Crash(p)
  /\ crashes' = crashes + 1
  /\ UNCHANGED <<release, gen, rolledOut, validation>>

\* A login is answered with a token signed with the pod's current key.
Sign(p, life) ==
  /\ EndLogin(p)
  /\ Cardinality(tokens) < MaxTokens
  /\ tokens' = tokens \cup {[signed |-> SigningKey(release[gen[p]]), exp |-> now + life, by |-> gen[p]]}
  /\ UNCHANGED <<deployment, cache>>

\* Or with none: the login failed, or its answer was lost.
Refuse(p) == EndLogin(p) /\ UNCHANGED <<deployment, validation>>

--------------------------------------------------------------------------------
(* The validator: a key set fetched when a token needs it *)

Known(t)  == {k \in cache.keys : k.kid = t.signed.kid}
Fresh     == \E f \in cache.fetched : now < f + TTL
Throttled == \E f \in cache.tried : now < f + MinRefresh

\* A token is judged by what is in the cache, and no fetch comes first, when its
\* key is known and fresh, or the last attempt too recent.
Settled(t) == Throttled \/ (Known(t) # {} /\ Fresh)

Verdict(t) ==
  IF Known(t) = {} THEN "unavailable"
  ELSE IF \E k \in Known(t) : k.key # t.signed.key THEN "invalid" ELSE "accepted"

\* Any pod that serves may answer the fetch.
Fetch(t, p) ==
  /\ ~Settled(t)
  /\ cache' = [keys |-> PodKeys(p), fetched |-> {now}, tried |-> {now}, from |-> gen[p]]
  /\ UNCHANGED <<now, process, deployment, tokens>>

\* No answer: what the cache holds still serves.
FetchUnanswered(t) ==
  /\ ~Settled(t)
  /\ cache' = [cache EXCEPT !.tried = {now}, !.from = 0]
  /\ UNCHANGED <<now, process, deployment, tokens>>

--------------------------------------------------------------------------------
PodStep(p) ==
  \/ Schedule(p) \/ Terminate(p) \/ Boot(p) \/ ProcessStep(p) \/ Die(p)
  \/ \E life \in 1..MaxLife : Sign(p, life)
  \/ Refuse(p)

Administer ==
  \/ \E kid \in Kid, key \in Key : Rotate(kid, key)
  \/ Fix \/ RolledOut \/ Retire

Validate ==
  \E t \in tokens : FetchUnanswered(t) \/ \E p \in Serving : Fetch(t, p)

Next == Tick \/ Administer \/ (\E p \in Pod : PodStep(p)) \/ Validate

Spec == Init /\ [][Next]_vars

(***************************************************************************)
(* The controllers and the processes keep going, and a request ends.       *)
(***************************************************************************)
Fairness ==
  \A p \in Pod :
    /\ WF_vars(Schedule(p)) /\ WF_vars(Terminate(p)) /\ WF_vars(Boot(p))
    /\ WF_vars((MarkHealthy(p) \/ Listen(p) \/ Flush(p) \/ Drained(p) \/ Forced(p)) /\ UNCHANGED <<deployment, validation>>)
    /\ WF_vars(Refuse(p))

FairSpec == Spec /\ Fairness

--------------------------------------------------------------------------------
(* Properties *)

\* A key stays published as long as the tokens it signed live, whatever the
\* rotation, its mistakes, crashes and the pods that are leaving: every pod that
\* serves and is as new as a token's signer publishes the token's key, but for
\* a token signed while its pod was leaving, in its last Grace of life.
KeysOutliveTokens ==
  \A t \in tokens, p \in Serving :
    gen[p] >= t.by /\ t.exp > now + Grace => t.signed \in PodKeys(p)

\* A validator never takes a token authn signed for a forged one: no key ID is
\* published for two keys (ParsePreviousKeys), by whichever pods.
NeverInvalid == \A t \in tokens : Verdict(t) # "invalid"

\* A token is refused as unverifiable only for the moment: the last attempt to
\* fetch the keys was not answered, or was answered by a pod older than the
\* token's signer, and is less than MinRefresh ago; or the token is about to expire.
RefusedOnlyMeanwhile ==
  \A t \in tokens : Settled(t) /\ Verdict(t) = "unavailable" =>
    (Throttled /\ cache.from < t.by) \/ t.exp <= now + Grace

\* Whatever is deployed in the end is rolled out, unless it can't start.
Complete == \A p \in Pod : phase[p] # "gone" => gen[p] = Desired /\ Ready(p)
RolloutCompletes == []<>(Starts(Current) => Complete)
================================================================================
