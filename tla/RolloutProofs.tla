----------------------------- MODULE RolloutProofs -----------------------------
(***************************************************************************)
(* What a key rotation keeps, proved for any pods, keys and durations: the *)
(* keys outlive the tokens they signed, and a validator never takes a      *)
(* token of authn's for a forged one.                                      *)
(***************************************************************************)
EXTENDS Rollout, FiniteSetTheorems, TLAPS

Releases == 1..Desired

\* A key that every configuration that starts, from the i-th on, publishes.
Covered(k, i) == \A j \in Releases : j >= i /\ Starts(release[j]) => k \in Published(release[j])

\* A key ID belongs to one key, and a configuration retires one key at most.
KeysMatch ==
  /\ \A i \in Releases :
       /\ SigningKey(release[i]) \in PublicKey
       /\ release[i].previous = <<>> \/ \E e \in Entry : release[i].previous = <<e>>
       /\ Starts(release[i]) =>
            \A k \in Published(release[i]) : \E j \in Releases : k = SigningKey(release[j])
  /\ \A i, j \in Releases : release[i].kid = release[j].kid <=> release[i].key = release[j].key

\* A mistaken upgrade replaced a configuration with no previous key.
Correctable ==
  ~Starts(Current) =>
    /\ Desired > 1
    /\ release[Desired - 1].previous = <<>>
    /\ release[Desired - 1].kid # Current.kid

\* A process that runs was able to start; nothing of it is left when it is gone.
Running ==
  \A p \in Pod :
    /\ phase[p] \in {"serve"} \cup Leaving => Starts(release[gen[p]])
    /\ listener[p] # "none" => phase[p] \in {"serve"} \cup Leaving
    /\ phase[p] \in Leaving => deadline[p] <= now + Grace
    /\ phase[p] # "gone" => Covered(SigningKey(release[gen[p]]), gen[p])

\* Once an upgrade is rolled out, what others than its pods sign ends in time.
Settling ==
  \A since \in rolledOut :
    /\ since <= now
    /\ Starts(Current)
    /\ \A p \in Pod : gen[p] # Desired =>
         /\ phase[p] \notin {"boot", "serve"}
         /\ phase[p] \in Leaving => deadline[p] <= since + Grace
    /\ \A t \in tokens : t.by # Desired => t.exp <= since + Grace + MaxLife

Signed ==
  \A t \in tokens :
    /\ t.by \in Releases /\ Starts(release[t.by]) /\ t.signed = SigningKey(release[t.by])
    /\ t.exp <= now + MaxLife
    /\ t.exp > now + Grace => Covered(t.signed, t.by)

Fetched ==
  /\ \A k \in cache.keys : \E j \in Releases : k = SigningKey(release[j])
  /\ cache.from # 0 =>
       /\ cache.from \in Releases /\ Starts(release[cache.from])
       /\ cache.keys = Published(release[cache.from])

IInv ==
  /\ TypeOK /\ Desired > 0
  /\ KeysMatch /\ Correctable /\ Running /\ Settling /\ Signed /\ Fetched

--------------------------------------------------------------------------------
(* Configurations *)

LEMMA PublishedNone ==
  ASSUME NEW c \in Config, c.previous = <<>>
  PROVE  Published(c) = {SigningKey(c)}
PROOF BY DEF Published, Config

LEMMA PublishedOne ==
  ASSUME NEW c \in Config, NEW e, c.previous = <<e>>
  PROVE  Published(c) = {SigningKey(c), e}
PROOF
<1>1. DOMAIN c.previous = {1} /\ c.previous[1] = e
  OBVIOUS
<1> QED
  BY <1>1 DEF Published

LEMMA StartsNone ==
  ASSUME NEW c \in Config, c.previous = <<>>, SigningKey(c) \in PublicKey
  PROVE  Starts(c)
PROOF
<1>1. c.kid \in Kid /\ c.key \in Key
  BY DEF SigningKey, PublicKey, Config
<1> QED
  BY <1>1, KeysAssumption DEF Starts, UsablePreviousKeys, Config

LEMMA StartsOne ==
  ASSUME NEW c \in Config, NEW e \in Entry, c.previous = <<e>>, SigningKey(c) \in PublicKey
  PROVE  Starts(c) <=> e.kid \notin {NoKid, c.kid} /\ e.key \notin {Unusable, c.key}
PROOF
<1>1. c.kid \in Kid /\ c.key \in Key
  BY DEF SigningKey, PublicKey, Config
<1>2. DOMAIN c.previous = {1} /\ c.previous[1] = e
  OBVIOUS
<1>3. UsablePreviousKeys(c) <=> e.kid \notin {NoKid, c.kid} /\ e.key \notin {Unusable, c.key}
  BY <1>2 DEF UsablePreviousKeys
<1> QED
  BY <1>1, <1>3, KeysAssumption DEF Starts

LEMMA PreviousSet ==
  ASSUME NEW c \in Config, NEW s \in Seq(Entry)
  PROVE  /\ [c EXCEPT !.previous = s] \in Config
         /\ [c EXCEPT !.previous = s].previous = s
         /\ [c EXCEPT !.previous = s].kid = c.kid
         /\ [c EXCEPT !.previous = s].key = c.key
PROOF BY DEF Config

LEMMA CurrentTyped ==
  ASSUME IInv
  PROVE  /\ Desired \in Nat /\ Desired \in Releases
         /\ Current \in Config /\ SigningKey(Current) \in PublicKey
         /\ Current.kid \in Kid /\ Current.key \in Key
PROOF
<1>1. Desired \in Nat /\ Desired \in Releases /\ Current \in Config
  BY DEF IInv, TypeOK, Desired, Releases, Current
<1>2. SigningKey(Current) \in PublicKey
  BY <1>1 DEF IInv, KeysMatch, Current
<1> QED
  BY <1>1, <1>2 DEF SigningKey, PublicKey

--------------------------------------------------------------------------------
(* Every deployment *)

LEMMA Appended ==
  ASSUME release \in Seq(Config), NEW c \in Config, release' = Append(release, c)
  PROVE  /\ Desired \in Nat /\ Desired' = Desired + 1
         /\ release' \in Seq(Config)
         /\ Current' = c
         /\ \A i \in Releases : release'[i] = release[i]
         /\ Releases' = Releases \cup {Desired + 1}
         /\ release'[Desired + 1] = c
PROOF BY DEF Desired, Current, Releases

\* What a new configuration must satisfy for the invariant to survive it.
LEMMA DeployKeeps ==
  ASSUME IInv, NEW c \in Config, Deploy(c),
         SigningKey(c) \in PublicKey,
         c.previous = <<>> \/ \E e \in Entry : c.previous = <<e>>,
         \A j \in Releases : release[j].kid = c.kid <=> release[j].key = c.key,
         Starts(c) => \A k \in Published(c) :
                        k = SigningKey(c) \/ \E j \in Releases : k = SigningKey(release[j]),
         Correctable',
         Starts(c) => \A p \in Pod : phase[p] # "gone" => SigningKey(release[gen[p]]) \in Published(c),
         Starts(c) => \A t \in tokens : t.exp > now + Grace => t.signed \in Published(c)
  PROVE  IInv'
PROOF
<1> USE DEF IInv
<1>1. /\ Desired \in Nat /\ Desired' = Desired + 1
      /\ release' \in Seq(Config)
      /\ \A i \in Releases : release'[i] = release[i]
      /\ Releases' = Releases \cup {Desired + 1}
      /\ release'[Desired + 1] = c
  BY Appended DEF Deploy, TypeOK
<1>2. UNCHANGED <<now, process, gen, tokens, cache, crashes>> /\ rolledOut' = {}
  BY DEF Deploy, validation
<1>3. TypeOK'
  <2>1. gen' \in [Pod -> 1..Desired']
    BY <1>1, <1>2 DEF TypeOK
  <2>2. ProcessTypeOK'
    BY <1>2 DEF TypeOK, ProcessTypeOK, process
  <2> QED
    BY <1>1, <1>2, <2>1, <2>2 DEF TypeOK
<1>4. KeysMatch'
  <2>1. \A i \in Releases' : SigningKey(release'[i]) \in PublicKey
    BY <1>1 DEF KeysMatch
  <2>2. \A i \in Releases' : release'[i].previous = <<>> \/ \E e \in Entry : release'[i].previous = <<e>>
    BY <1>1 DEF KeysMatch
  <2>3. ASSUME NEW i \in Releases', Starts(release'[i]), NEW k \in Published(release'[i])
        PROVE  \E j \in Releases' : k = SigningKey(release'[j])
    <3>1. CASE i = Desired + 1
      BY <1>1, <2>3, <3>1
    <3>2. CASE i \in Releases
      <4>1. PICK j \in Releases : k = SigningKey(release[j])
        BY <1>1, <2>3, <3>2 DEF KeysMatch
      <4> QED
        BY <1>1, <4>1
    <3> QED
      BY <1>1, <3>1, <3>2
  <2>4. \A i, j \in Releases' : release'[i].kid = release'[j].kid <=> release'[i].key = release'[j].key
    BY <1>1 DEF KeysMatch
  <2> QED
    BY <2>1, <2>2, <2>3, <2>4 DEF KeysMatch
<1>5. ASSUME NEW k, NEW i \in Releases, Covered(k, i), Starts(c) => k \in Published(c)
      PROVE  Covered(k, i)'
  BY <1>1, <1>5 DEF Covered
<1>6. Running'
  <2>1. ASSUME NEW p \in Pod PROVE gen[p] \in Releases /\ release'[gen'[p]] = release[gen[p]]
    BY <1>1, <1>2 DEF TypeOK, Releases
  <2>2. ASSUME NEW p \in Pod, phase[p] # "gone" PROVE Covered(SigningKey(release[gen[p]]), gen[p])'
    <3>1. Covered(SigningKey(release[gen[p]]), gen[p])
      BY <2>2 DEF Running
    <3>2. \A j \in Releases' : j >= gen[p] /\ Starts(release'[j]) => SigningKey(release[gen[p]]) \in Published(release'[j])
      BY <1>1, <2>1, <2>2, <3>1 DEF Covered
    <3> QED
      BY <1>2, <2>1, <3>2 DEF Covered
  <2> QED
    BY <1>2, <2>1, <2>2 DEF Running, process
<1>7. Settling'
  BY <1>2 DEF Settling
<1>8. Signed'
  <2> SUFFICES ASSUME NEW t \in tokens
               PROVE  /\ t.by \in Releases' /\ Starts(release'[t.by]) /\ t.signed = SigningKey(release'[t.by])
                      /\ t.exp <= now + MaxLife
                      /\ t.exp > now + Grace =>
                           \A j \in Releases' : j >= t.by /\ Starts(release'[j]) => t.signed \in Published(release'[j])
    BY <1>2 DEF Signed, Covered
  <2> QED
    BY <1>1 DEF Signed, Covered
<1>9. Fetched'
  <2>1. ASSUME NEW k \in cache.keys PROVE \E j \in Releases' : k = SigningKey(release'[j])
    BY <1>1 DEF Fetched
  <2> QED
    BY <1>1, <1>2, <2>1 DEF Fetched
<1> QED
  BY <1>1, <1>3, <1>4, <1>6, <1>7, <1>8, <1>9

--------------------------------------------------------------------------------
(* The administrator's steps *)

LEMMA InitKeeps == Init => IInv
PROOF
<1> SUFFICES ASSUME Init PROVE IInv
  OBVIOUS
<1> DEFINE c == [kid |-> FirstKey.kid, key |-> FirstKey.key, previous |-> <<>>]
<1>1. /\ c \in Config /\ SigningKey(c) \in PublicKey /\ c.previous = <<>>
      /\ release = <<c>>
  BY RolloutAssumption DEF Init, Config, SigningKey, PublicKey
<1>2. Starts(c) /\ Published(c) = {SigningKey(c)}
  BY <1>1, StartsNone, PublishedNone
<1> HIDE DEF c
<1>3. Desired = 1 /\ Releases = {1} /\ release[1] = c /\ Current = c
  BY <1>1 DEF Desired, Releases, Current
<1>4. TypeOK
  BY <1>1, <1>3, RolloutAssumption, ProcessAssumption
  DEF Init, TypeOK, ProcessTypeOK, Leaving, Cache, Token
<1>5. KeysMatch /\ Correctable
  BY <1>1, <1>2, <1>3 DEF KeysMatch, Correctable
<1>6. Running
  BY <1>2, <1>3 DEF Init, Running, Covered, Leaving
<1>7. Settling /\ Signed /\ Fetched
  BY <1>2, <1>3 DEF Init, Settling, Signed, Fetched
<1> QED
  BY <1>3, <1>4, <1>5, <1>6, <1>7 DEF IInv

\* What a retired configuration covers is published by the current one.
LEMMA CurrentCovers ==
  ASSUME IInv, Starts(Current)
  PROVE  /\ \A p \in Pod : phase[p] # "gone" => SigningKey(release[gen[p]]) \in Published(Current)
         /\ \A t \in tokens : t.exp > now + Grace => t.signed \in Published(Current)
PROOF
<1>1. Desired \in Releases /\ \A i \in Releases : Desired >= i
  BY DEF IInv, TypeOK, Desired, Releases
<1>2. \A p \in Pod : gen[p] \in Releases
  BY DEF IInv, TypeOK, Releases
<1> QED
  BY <1>1, <1>2 DEF IInv, Running, Signed, Covered, Current

LEMMA RotateKeeps ==
  ASSUME IInv, NEW kid \in Kid, NEW key \in Key, Rotate(kid, key)
  PROVE  IInv'
PROOF
<1> DEFINE old == SigningKey(Current)
<1>1. /\ Current \in Config /\ old \in PublicKey /\ Current.previous = <<>>
      /\ Desired \in Releases
      /\ Current.kid \in Kid /\ Current.key \in Key
  BY CurrentTyped DEF Rotate
<1>2. Starts(Current) /\ Published(Current) = {old}
  BY <1>1, StartsNone, PublishedNone
<1>3. PICK e \in {old} \cup Mistakes(kid, key) : Deploy([kid |-> kid, key |-> key, previous |-> <<e>>])
  BY DEF Rotate
<1> DEFINE c == [kid |-> kid, key |-> key, previous |-> <<e>>]
<1>4. e \in Entry
  BY <1>1 DEF Mistakes, Entry, SigningKey
<1>5. c \in Config /\ SigningKey(c) \in PublicKey /\ c.previous = <<e>> /\ c.kid = kid /\ c.key = key
  BY <1>4 DEF Config, SigningKey, PublicKey
<1>6. \A j \in Releases : release[j].kid # kid /\ release[j].key # key
  BY DEF Rotate, Releases
<1>7. Starts(c) <=> e.kid \notin {NoKid, kid} /\ e.key \notin {Unusable, key}
  BY <1>4, <1>5, StartsOne
<1>8. Starts(c) => e = old
  <2>1. e \in Mistakes(kid, key) => e.kid \in {NoKid, kid} \/ e.key \in {Unusable, key}
    BY DEF Mistakes
  <2> QED
    BY <1>7, <2>1
<1>9. Published(c) = {SigningKey(c), e}
  BY <1>5, PublishedOne
<1>10. Starts(c) => \A k \in Published(c) : k = SigningKey(c) \/ \E j \in Releases : k = SigningKey(release[j])
  BY <1>1, <1>8, <1>9 DEF Current
<1>11. Correctable'
  <2>1. /\ Current' = c /\ Desired' = Desired + 1 /\ Desired \in Nat /\ Desired > 0
        /\ release'[Desired] = Current
    BY <1>1, <1>3, <1>5, Appended DEF Deploy, IInv, TypeOK, Current
  <2>2. release'[Desired' - 1] = Current /\ Desired' > 1
    BY <2>1
  <2> QED
    BY <1>1, <1>5, <1>6, <2>1, <2>2 DEF Correctable, Current
<1>12. /\ \A p \in Pod : phase[p] # "gone" => SigningKey(release[gen[p]]) = old
       /\ \A t \in tokens : t.exp > now + Grace => t.signed = old
  BY <1>2, CurrentCovers
<1> HIDE DEF c, old
<1> QED
  BY <1>3, <1>5, <1>4, <1>6, <1>8, <1>9, <1>10, <1>11, <1>12, DeployKeeps DEF c

LEMMA FixKeeps ==
  ASSUME IInv, Fix
  PROVE  IInv'
PROOF
<1> DEFINE last == release[Desired - 1]
           old  == SigningKey(last)
           c    == [Current EXCEPT !.previous = <<old>>]
<1>1. /\ Desired > 1 /\ last.previous = <<>> /\ last.kid # Current.kid
      /\ Desired \in Nat /\ Desired \in Releases /\ Desired - 1 \in Releases
      /\ Current \in Config /\ last \in Config
  BY DEF IInv, Correctable, Fix, TypeOK, Desired, Releases, Current
<1>2. /\ old \in PublicKey /\ SigningKey(Current) \in PublicKey
      /\ last.key # Current.key
  BY <1>1 DEF IInv, KeysMatch, Current
<1>3. /\ c \in Config /\ old \in Entry /\ c.previous = <<old>>
      /\ c.kid = Current.kid /\ c.key = Current.key /\ SigningKey(c) = SigningKey(Current)
  <2>1. old \in Entry /\ <<old>> \in Seq(Entry)
    BY <1>2 DEF Entry, PublicKey
  <2> HIDE DEF old
  <2> QED
    BY <1>1, <2>1, PreviousSet DEF SigningKey
<1>4. Published(c) = {SigningKey(c), old}
  BY <1>3, PublishedOne
<1>5. Starts(last) /\ Published(last) = {old}
  BY <1>1, <1>2, StartsNone, PublishedNone
<1>6. old.kid \in Kid /\ old.key \in Key /\ old.kid = last.kid /\ old.key = last.key
  BY <1>2 DEF SigningKey, PublicKey
<1>7. Starts(c)
  BY <1>1, <1>2, <1>3, <1>6, StartsOne, KeysAssumption
<1>8. \A j \in Releases : release[j].kid = c.kid <=> release[j].key = c.key
  BY <1>1, <1>3 DEF IInv, KeysMatch, Current
<1>9. \A k \in Published(c) : k = SigningKey(c) \/ \E j \in Releases : k = SigningKey(release[j])
  BY <1>1, <1>4
<1>10. Deploy(c)
  BY DEF Fix
<1>11. Correctable'
  <2>1. Current' = c
    BY <1>3, <1>10, Appended DEF Deploy, IInv, TypeOK
  <2> QED
    BY <1>7, <2>1 DEF Correctable
<1>12. ASSUME NEW p \in Pod, phase[p] # "gone" PROVE SigningKey(release[gen[p]]) \in Published(c)
  <2>1. gen[p] \in Releases /\ Covered(SigningKey(release[gen[p]]), gen[p])
    BY <1>12 DEF IInv, TypeOK, Running, Releases
  <2>2. CASE gen[p] = Desired
    BY <1>3, <1>4, <2>2 DEF Current
  <2>3. CASE gen[p] # Desired
    <3>1. Desired - 1 >= gen[p]
      BY <1>1, <2>1, <2>3 DEF Releases
    <3> QED
      BY <1>1, <1>4, <1>5, <2>1, <3>1 DEF Covered
  <2> QED
    BY <2>2, <2>3
<1>13. ASSUME NEW t \in tokens, t.exp > now + Grace PROVE t.signed \in Published(c)
  <2>1. t.by \in Releases /\ Starts(release[t.by]) /\ Covered(t.signed, t.by)
    BY <1>13 DEF IInv, Signed
  <2>2. t.by # Desired
    BY <2>1 DEF Fix, Current
  <2>3. Desired - 1 >= t.by
    BY <1>1, <2>1, <2>2 DEF Releases
  <2> QED
    BY <1>1, <1>4, <1>5, <2>1, <2>3 DEF Covered
<1> HIDE DEF c, old, last
<1> QED
  BY <1>2, <1>3, <1>8, <1>9, <1>10, <1>11, <1>12, <1>13, DeployKeeps

LEMMA RetireKeeps ==
  ASSUME IInv, Retire
  PROVE  IInv'
PROOF
<1> DEFINE c == [Current EXCEPT !.previous = <<>>]
<1>1. PICK since \in rolledOut : now >= since + MaxLife
  BY DEF Retire
<1>2. /\ Desired \in Nat /\ Desired \in Releases /\ Current \in Config
      /\ now \in Nat /\ since \in Nat /\ MaxLife \in Nat /\ Grace \in Nat /\ Grace < MaxLife
  BY RolloutAssumption, ProcessAssumption DEF IInv, TypeOK, ProcessTypeOK, Desired, Releases, Current
<1>3. SigningKey(Current) \in PublicKey
  BY <1>2 DEF IInv, KeysMatch, Current
<1>4. /\ c \in Config /\ c.previous = <<>> /\ c.kid = Current.kid /\ c.key = Current.key
      /\ SigningKey(c) = SigningKey(Current)
  <2>1. <<>> \in Seq(Entry)
    OBVIOUS
  <2> QED
    BY <1>2, <2>1, PreviousSet DEF SigningKey
<1>5. Starts(c) /\ Published(c) = {SigningKey(c)}
  BY <1>3, <1>4, StartsNone, PublishedNone
<1>6. Deploy(c)
  BY DEF Retire
<1>7. Correctable'
  <2>1. Current' = c
    BY <1>4, <1>6, Appended DEF Deploy, IInv, TypeOK
  <2> QED
    BY <1>5, <2>1 DEF Correctable
<1>8. \A j \in Releases : release[j].kid = c.kid <=> release[j].key = c.key
  BY <1>2, <1>4 DEF IInv, KeysMatch, Current
<1>9. ASSUME NEW p \in Pod, phase[p] # "gone" PROVE SigningKey(release[gen[p]]) \in Published(c)
  <2>1. gen[p] = Desired
    <3> SUFFICES ASSUME gen[p] # Desired PROVE FALSE
      OBVIOUS
    <3>1. phase[p] \in Leaving /\ deadline[p] <= since + Grace
      BY <1>9 DEF IInv, Settling, TypeOK, ProcessTypeOK, Leaving
    <3>2. now <= deadline[p] /\ deadline[p] \in Nat
      BY <3>1 DEF IInv, TypeOK, ProcessTypeOK
    <3> QED
      BY <1>1, <1>2, <3>1, <3>2
  <2> QED
    BY <1>4, <1>5, <2>1 DEF Current
<1>10. ASSUME NEW t \in tokens, t.exp > now + Grace PROVE t.signed \in Published(c)
  <2>1. t.by = Desired
    <3> SUFFICES ASSUME t.by # Desired PROVE FALSE
      OBVIOUS
    <3>1. t.exp <= since + Grace + MaxLife /\ t.exp \in Nat
      BY DEF IInv, Settling, TypeOK, Token
    <3> QED
      BY <1>1, <1>2, <1>10, <3>1
  <2> QED
    BY <1>4, <1>5, <2>1 DEF IInv, Signed, Current
<1> HIDE DEF c
<1> QED
  BY <1>3, <1>4, <1>5, <1>6, <1>7, <1>8, <1>9, <1>10, DeployKeeps

LEMMA RolledOutKeeps ==
  ASSUME IInv, RolledOut
  PROVE  IInv'
PROOF
<1>1. /\ UNCHANGED <<now, process, release, gen, tokens, cache, crashes>> /\ rolledOut' = {now}
      /\ UNCHANGED <<Desired, Releases, Current>>
  BY DEF RolledOut, validation, Desired, Releases, Current
<1>2. TypeOK'
  BY <1>1 DEF IInv, TypeOK, ProcessTypeOK, process
<1>3. Starts(Current)
  <2>1. PICK p \in Pod : Ready(p)
    <3>1. Cardinality({p \in Pod : Ready(p)}) >= Cardinality(First)
      BY DEF RolledOut, Replicas
    <3>2. IsFiniteSet(First) /\ Cardinality(First) \in Nat /\ Cardinality(First) # 0
      BY RolloutAssumption, FS_Subset, FS_CardinalityType, FS_EmptySet
    <3>3. {p \in Pod : Ready(p)} # {}
      BY <3>1, <3>2, FS_EmptySet
    <3> QED
      BY <3>3
  <2>2. phase[p] = "serve" /\ gen[p] = Desired
    BY <2>1 DEF Ready, RolledOut
  <2> QED
    BY <2>2 DEF IInv, Running, Current
<1>4. Settling'
  <2> SUFFICES /\ now <= now
               /\ \A p \in Pod : gen[p] # Desired =>
                    /\ phase[p] \notin {"boot", "serve"}
                    /\ phase[p] \in Leaving => deadline[p] <= now + Grace
               /\ \A t \in tokens : t.by # Desired => t.exp <= now + Grace + MaxLife
    BY <1>1, <1>3 DEF Settling, process
  <2>1. now \in Nat /\ Grace \in Nat /\ MaxLife \in Nat
    BY RolloutAssumption, ProcessAssumption DEF IInv, TypeOK, ProcessTypeOK
  <2>2. \A p \in Pod : phase[p] \in Leaving => deadline[p] <= now + Grace
    BY DEF IInv, Running
  <2>3. \A t \in tokens : t.exp \in Nat /\ t.exp <= now + MaxLife
    BY DEF IInv, TypeOK, Token, Signed
  <2> QED
    BY <2>1, <2>2, <2>3 DEF RolledOut
<1>5. KeysMatch' /\ Correctable' /\ Running' /\ Signed' /\ Fetched'
  BY <1>1 DEF IInv, KeysMatch, Correctable, Running, Signed, Fetched, Covered, process
<1> QED
  BY <1>1, <1>2, <1>4, <1>5 DEF IInv

--------------------------------------------------------------------------------
(* The pods' steps *)

\* A step of the pods alone keeps the invariant if no pod comes back, what runs
\* could start, and an outdated pod only leaves.
LEMMA PodsKeep ==
  ASSUME IInv, UNCHANGED <<now, release, gen, rolledOut, tokens, cache>>, TypeOK',
         \A p \in Pod :
           /\ phase'[p] \in {"serve"} \cup Leaving => Starts(release[gen[p]])
           /\ listener'[p] # "none" => phase'[p] \in {"serve"} \cup Leaving
           /\ phase'[p] # "gone" => phase[p] # "gone"
           /\ phase'[p] \in Leaving => deadline'[p] <= now + Grace
           /\ phase'[p] \in {"boot", "serve"} => phase[p] \in {"boot", "serve"}
           /\ phase'[p] \in Leaving =>
                \/ phase[p] \in Leaving /\ deadline'[p] = deadline[p]
                \/ phase[p] = "serve"
  PROVE  IInv'
PROOF
<1>1. UNCHANGED <<Desired, Releases, Current>>
  BY DEF Desired, Releases, Current
<1>2. KeysMatch' /\ Correctable' /\ Signed' /\ Fetched'
  BY <1>1 DEF IInv, KeysMatch, Correctable, Signed, Fetched, Covered
<1>3. Running'
  BY <1>1 DEF IInv, Running, Covered
<1>4. Settling'
  BY <1>1 DEF IInv, Settling
<1> QED
  BY <1>1, <1>2, <1>3, <1>4 DEF IInv

\* What a pod's step changes, it changes of that pod.
LEMMA BootKeeps == ASSUME IInv, NEW p \in Pod, Boot(p) PROVE IInv'
PROOF
<1>1. TypeOK'
  <2>1. p \notin busy
    BY DEF IInv, Boot, Start, Running, TypeOK, ProcessTypeOK, Leaving
  <2> QED
    BY <2>1 DEF IInv, Boot, Start, TypeOK, ProcessTypeOK, Leaving, deployment, validation, Desired
<1> QED
  BY <1>1, PodsKeep DEF IInv, Boot, Start, TypeOK, ProcessTypeOK, Running, Leaving, deployment, validation

LEMMA MarkHealthyKeeps ==
  ASSUME IInv, NEW p \in Pod, MarkHealthy(p), UNCHANGED <<deployment, validation>> PROVE IInv'
PROOF
<1>1. TypeOK'
  BY DEF IInv, MarkHealthy, TypeOK, ProcessTypeOK, Leaving, deployment, validation, Desired
<1> QED
  BY <1>1, PodsKeep DEF IInv, MarkHealthy, TypeOK, ProcessTypeOK, Running, Leaving, deployment, validation

LEMMA ListenKeeps ==
  ASSUME IInv, NEW p \in Pod, Listen(p), UNCHANGED <<deployment, validation>> PROVE IInv'
PROOF
<1>1. TypeOK'
  BY DEF IInv, Listen, TypeOK, ProcessTypeOK, Leaving, deployment, validation, Desired
<1> QED
  BY <1>1, PodsKeep DEF IInv, Listen, TypeOK, ProcessTypeOK, Running, Leaving, deployment, validation

LEMMA BeginLoginKeeps ==
  ASSUME IInv, NEW p \in Pod, BeginLogin(p), UNCHANGED <<deployment, validation>> PROVE IInv'
PROOF
<1>1. TypeOK'
  BY DEF IInv, BeginLogin, TypeOK, ProcessTypeOK, Leaving, deployment, validation, Desired
<1> QED
  BY <1>1, PodsKeep DEF IInv, BeginLogin, TypeOK, ProcessTypeOK, Running, Leaving, deployment, validation

LEMMA RefuseKeeps == ASSUME IInv, NEW p \in Pod, Refuse(p) PROVE IInv'
PROOF
<1>1. TypeOK'
  BY DEF IInv, Refuse, EndLogin, TypeOK, ProcessTypeOK, Leaving, deployment, validation, Desired
<1> QED
  BY <1>1, PodsKeep DEF IInv, Refuse, EndLogin, TypeOK, ProcessTypeOK, Running, Leaving, deployment, validation

LEMMA FlushKeeps ==
  ASSUME IInv, NEW p \in Pod, Flush(p), UNCHANGED <<deployment, validation>> PROVE IInv'
PROOF
<1>1. TypeOK'
  BY DEF IInv, Flush, TypeOK, ProcessTypeOK, Leaving, deployment, validation, Desired
<1> QED
  BY <1>1, PodsKeep DEF IInv, Flush, TypeOK, ProcessTypeOK, Running, Leaving, deployment, validation

LEMMA SignalKeeps ==
  ASSUME IInv, NEW p \in Pod, Signal(p), UNCHANGED <<deployment, validation>> PROVE IInv'
PROOF
<1>1. now \in Nat /\ Grace \in Nat
  BY ProcessAssumption DEF IInv, TypeOK, ProcessTypeOK
<1>2. TypeOK'
  BY <1>1 DEF IInv, Signal, TypeOK, ProcessTypeOK, Leaving, deployment, validation, Desired
<1> QED
  BY <1>1, <1>2, PodsKeep DEF IInv, Signal, TypeOK, ProcessTypeOK, Running, Leaving, deployment, validation

\* The pod is gone, or its container starts again.
LEMMA GoneKeeps ==
  ASSUME IInv, NEW p \in Pod, NEW next \in {"gone", "boot"}, Gone(p, next),
         UNCHANGED <<release, gen, rolledOut, tokens, cache>>, crashes' \in 0..MaxCrashes,
         next = "boot" => phase[p] \in {"boot", "serve"}
  PROVE  IInv'
PROOF
<1>1. TypeOK'
  BY DEF IInv, Gone, TypeOK, ProcessTypeOK, Leaving, Desired
<1> QED
  BY <1>1, PodsKeep DEF IInv, Gone, TypeOK, ProcessTypeOK, Running, Leaving

LEMMA ScheduleKeeps ==
  ASSUME IInv, NEW p \in Pod, Schedule(p)
  PROVE  IInv'
PROOF
<1>1. /\ UNCHANGED <<now, listener, healthy, deadline, busy, release, rolledOut, tokens, cache, crashes>>
      /\ UNCHANGED <<Desired, Releases, Current>>
      /\ phase[p] = "gone" /\ phase' = [phase EXCEPT ![p] = "boot"]
      /\ gen' = [gen EXCEPT ![p] = Desired]
  BY DEF Schedule, validation, Desired, Releases, Current
<1>2. Desired \in Nat /\ Desired \in Releases
  BY CurrentTyped
<1>3. TypeOK'
  BY <1>1, <1>2 DEF IInv, TypeOK, ProcessTypeOK, Leaving, Desired, Releases
<1>4. KeysMatch' /\ Correctable' /\ Signed' /\ Fetched'
  BY <1>1 DEF IInv, KeysMatch, Correctable, Signed, Fetched, Covered
<1>5. Running'
  <2>1. Covered(SigningKey(release[Desired]), Desired)
    BY <1>2 DEF Covered, Published, Releases
  <2> QED
    BY <1>1, <2>1 DEF IInv, Running, Covered, Leaving, TypeOK, ProcessTypeOK
<1>6. Settling'
  BY <1>1 DEF IInv, Settling, TypeOK, ProcessTypeOK
<1> QED
  BY <1>1, <1>3, <1>4, <1>5, <1>6 DEF IInv

LEMMA SignKeeps ==
  ASSUME IInv, NEW p \in Pod, NEW life \in 1..MaxLife, Sign(p, life)
  PROVE  IInv'
PROOF
<1> DEFINE t == [signed |-> SigningKey(release[gen[p]]), exp |-> now + life, by |-> gen[p]]
<1>1. /\ UNCHANGED <<now, phase, listener, healthy, deadline, release, gen, rolledOut, cache, crashes>>
      /\ UNCHANGED <<Desired, Releases, Current>>
      /\ p \in busy /\ busy' = busy \ {p} /\ tokens' = tokens \cup {t}
  BY DEF Sign, EndLogin, deployment, Desired, Releases, Current
<1>2. now \in Nat /\ life \in Nat /\ MaxLife \in Nat /\ Grace \in Nat /\ life <= MaxLife
  BY RolloutAssumption, ProcessAssumption DEF IInv, TypeOK, ProcessTypeOK
<1>3. /\ gen[p] \in Releases /\ gen[p] \in Nat
      /\ phase[p] \in {"serve"} \cup Leaving
      /\ Starts(release[gen[p]])
      /\ Covered(SigningKey(release[gen[p]]), gen[p])
      /\ SigningKey(release[gen[p]]) \in PublicKey
  <2>1. gen[p] \in Releases /\ gen[p] \in Nat
    BY DEF IInv, TypeOK, Releases
  <2>2. listener[p] # "none"
    BY <1>1 DEF IInv, TypeOK, ProcessTypeOK
  <2>3. phase[p] \in {"serve"} \cup Leaving /\ phase[p] # "gone"
    BY <2>2 DEF IInv, Running, Leaving
  <2> QED
    BY <2>1, <2>3 DEF IInv, Running, KeysMatch
<1>4. t \in Token /\ t.by = gen[p] /\ t.exp = now + life /\ t.signed = SigningKey(release[gen[p]])
  BY <1>2, <1>3 DEF Token
<1> HIDE DEF t
<1>5. TypeOK'
  BY <1>1, <1>4 DEF IInv, TypeOK, ProcessTypeOK, Leaving, Desired
<1>6. KeysMatch' /\ Correctable' /\ Fetched' /\ Running'
  BY <1>1 DEF IInv, KeysMatch, Correctable, Fetched, Running, Covered
<1>7. Signed'
  <2>1. t.exp <= now + MaxLife
    BY <1>2, <1>4
  <2>2. ASSUME NEW u \in tokens'
        PROVE  /\ u.by \in Releases /\ Starts(release[u.by]) /\ u.signed = SigningKey(release[u.by])
               /\ u.exp <= now + MaxLife
               /\ u.exp > now + Grace => Covered(u.signed, u.by)
    BY <1>1, <1>3, <1>4, <2>1 DEF IInv, Signed
  <2> QED
    BY <1>1, <2>2 DEF Signed, Covered
<1>8. Settling'
  <2>1. ASSUME NEW since \in rolledOut, gen[p] # Desired PROVE t.exp <= since + Grace + MaxLife
    <3>1. phase[p] \in Leaving /\ deadline[p] <= since + Grace
      BY <1>3, <2>1 DEF IInv, Settling
    <3>2. now <= deadline[p] /\ deadline[p] \in Nat /\ since \in Nat
      BY <3>1 DEF IInv, TypeOK, ProcessTypeOK
    <3> QED
      BY <1>2, <1>4, <3>1, <3>2
  <2>2. ASSUME NEW since \in rolledOut, NEW u \in tokens', u.by # Desired
        PROVE  u.exp <= since + Grace + MaxLife
    BY <1>1, <1>4, <2>1, <2>2 DEF IInv, Settling
  <2> QED
    BY <1>1, <2>2 DEF IInv, Settling
<1> QED
  BY <1>1, <1>5, <1>6, <1>7, <1>8 DEF IInv

--------------------------------------------------------------------------------
(* The clock's and the validator's steps *)

LEMMA TickKeeps ==
  ASSUME IInv, Tick
  PROVE  IInv'
PROOF
<1>1. /\ UNCHANGED <<phase, listener, healthy, deadline, busy, release, gen, rolledOut, cache, crashes>>
      /\ UNCHANGED <<Desired, Releases, Current>>
      /\ now' = now + 1 /\ tokens' \subseteq tokens
      /\ \A p \in Pod : phase[p] \in Leaving => now < deadline[p]
  BY DEF Tick, Pass, process, deployment, Desired, Releases, Current
<1>2. now \in Nat /\ Grace \in Nat /\ MaxLife \in Nat
  BY RolloutAssumption, ProcessAssumption DEF IInv, TypeOK, ProcessTypeOK
<1>3. TypeOK'
  <2>1. \A p \in Pod : phase[p] \in Leaving => now + 1 <= deadline[p]
    BY <1>1, <1>2 DEF IInv, TypeOK, ProcessTypeOK
  <2> QED
    BY <1>1, <1>2, <2>1 DEF IInv, TypeOK, ProcessTypeOK, Leaving, Desired
<1>4. KeysMatch' /\ Correctable' /\ Fetched'
  BY <1>1 DEF IInv, KeysMatch, Correctable, Fetched
<1>5. Running'
  <2>1. \A p \in Pod : phase[p] \in Leaving => deadline[p] <= now' + Grace
    BY <1>1, <1>2 DEF IInv, Running, TypeOK, ProcessTypeOK
  <2> QED
    BY <1>1, <2>1 DEF IInv, Running, Covered
<1>6. Settling'
  <2>1. \A since \in rolledOut : since <= now'
    BY <1>1, <1>2 DEF IInv, Settling, TypeOK
  <2> QED
    BY <1>1, <2>1 DEF IInv, Settling
<1>7. Signed'
  <2> SUFFICES ASSUME NEW t \in tokens'
               PROVE  /\ t.by \in Releases /\ Starts(release[t.by]) /\ t.signed = SigningKey(release[t.by])
                      /\ t.exp <= now' + MaxLife
                      /\ t.exp > now' + Grace =>
                           \A j \in Releases : j >= t.by /\ Starts(release[j]) => t.signed \in Published(release[j])
    BY <1>1 DEF Signed, Covered
  <2>1. t \in tokens
    BY <1>1
  <2>2. t.exp \in Nat
    BY <2>1 DEF IInv, TypeOK, Token
  <2>3. /\ t.by \in Releases /\ Starts(release[t.by]) /\ t.signed = SigningKey(release[t.by])
        /\ t.exp <= now + MaxLife
        /\ t.exp > now + Grace => Covered(t.signed, t.by)
    BY <2>1 DEF IInv, Signed
  <2>4. t.exp <= now' + MaxLife /\ (t.exp > now' + Grace => t.exp > now + Grace)
    BY <1>1, <1>2, <2>2, <2>3
  <2> QED
    BY <2>3, <2>4 DEF Covered
<1> QED
  BY <1>1, <1>3, <1>4, <1>5, <1>6, <1>7 DEF IInv

LEMMA FetchKeeps ==
  ASSUME IInv, NEW t \in tokens, FetchUnanswered(t) \/ \E p \in Serving : Fetch(t, p)
  PROVE  IInv'
PROOF
<1>1. /\ UNCHANGED <<now, phase, listener, healthy, deadline, busy, release, gen, rolledOut, tokens, crashes>>
      /\ UNCHANGED <<Desired, Releases, Current>>
  BY DEF Fetch, FetchUnanswered, process, deployment, Desired, Releases, Current
<1>2. KeysMatch' /\ Correctable' /\ Running' /\ Settling' /\ Signed'
  BY <1>1 DEF IInv, KeysMatch, Correctable, Running, Settling, Signed, Covered
<1>3. now \in Nat
  BY DEF IInv, TypeOK, ProcessTypeOK
<1>4. CASE FetchUnanswered(t)
  <2>1. cache' = [cache EXCEPT !.tried = {now}, !.from = 0]
    BY <1>4 DEF FetchUnanswered
  <2>2. cache' \in Cache /\ cache'.keys = cache.keys /\ cache'.from = 0
    BY <1>3, <2>1 DEF IInv, TypeOK, Cache
  <2> QED
    BY <1>1, <1>2, <2>2 DEF IInv, TypeOK, ProcessTypeOK, Desired, Fetched
<1>5. ASSUME NEW p \in Serving, Fetch(t, p) PROVE IInv'
  <2>1. cache' = [keys |-> PodKeys(p), fetched |-> {now}, tried |-> {now}, from |-> gen[p]]
    BY <1>5 DEF Fetch
  <2>2. p \in Pod /\ gen[p] \in Releases /\ gen[p] \in Nat /\ Starts(release[gen[p]])
    BY DEF Serving, IInv, TypeOK, Running, Releases
  <2>3. \A k \in PodKeys(p) : \E j \in Releases : k = SigningKey(release[j])
    BY <2>2 DEF PodKeys, IInv, KeysMatch
  <2>4. PodKeys(p) \subseteq PublicKey
    BY <2>3 DEF IInv, KeysMatch
  <2>5. cache' \in Cache
    BY <1>3, <2>1, <2>2, <2>4 DEF Cache
  <2>6. TypeOK'
    BY <1>1, <2>5 DEF IInv, TypeOK, ProcessTypeOK, Desired
  <2>7. Fetched'
    BY <1>1, <2>1, <2>2, <2>3 DEF Fetched, PodKeys
  <2> QED
    BY <1>1, <1>2, <2>6, <2>7 DEF IInv
<1> QED
  BY <1>4, <1>5

--------------------------------------------------------------------------------
(* The theorems *)

\* The inductive invariant holds in every reachable state.
THEOREM Invariance == Spec => []IInv
PROOF
<1>1. IInv /\ [Next]_vars => IInv'
  <2> SUFFICES ASSUME IInv, [Next]_vars PROVE IInv'
    OBVIOUS
  <2>1. CASE Tick
    BY <2>1, TickKeeps
  <2>2. CASE Administer
    BY <2>2, RotateKeeps, FixKeeps, RolledOutKeeps, RetireKeeps DEF Administer
  <2>3. ASSUME NEW p \in Pod, PodStep(p) PROVE IInv'
    <3>1. CASE Schedule(p)
      BY <3>1, ScheduleKeeps
    <3>2. CASE Terminate(p)
      <4>1. CASE Signal(p)
        BY <3>2, <4>1, SignalKeeps DEF Terminate
      <4>2. CASE phase[p] = "boot" /\ Gone(p, "gone")
        BY <3>2, <4>2, GoneKeeps DEF Terminate, deployment, validation, IInv, TypeOK
      <4> QED
        BY <3>2, <4>1, <4>2 DEF Terminate
    <3>3. CASE Boot(p)
      BY <3>3, BootKeeps
    <3>4. CASE ProcessStep(p)
      <4>1. UNCHANGED <<deployment, validation>>
        BY <3>4 DEF ProcessStep
      <4>2. CASE Drained(p) \/ Forced(p)
        BY <4>1, <4>2, GoneKeeps DEF Drained, Forced, deployment, validation, IInv, TypeOK
      <4> QED
        BY <3>4, <4>1, <4>2, MarkHealthyKeeps, ListenKeeps, BeginLoginKeeps, FlushKeeps DEF ProcessStep
    <3>5. CASE Die(p)
      <4>1. crashes' \in 0..MaxCrashes
        BY <3>5, RolloutAssumption DEF Die, IInv, TypeOK
      <4> QED
        BY <3>5, <4>1, GoneKeeps DEF Die, Crash, validation
    <3>6. CASE \E life \in 1..MaxLife : Sign(p, life)
      BY <3>6, SignKeeps
    <3>7. CASE Refuse(p)
      BY <3>7, RefuseKeeps
    <3> QED
      BY <2>3, <3>1, <3>2, <3>3, <3>4, <3>5, <3>6, <3>7 DEF PodStep
  <2>4. CASE Validate
    BY <2>4, FetchKeeps DEF Validate
  <2>5. CASE UNCHANGED vars
    <3>1. UNCHANGED <<Desired, Releases, Current>>
      BY <2>5 DEF vars, Desired, Releases, Current
    <3>2. TypeOK'
      BY <2>5, <3>1 DEF vars, process, IInv, TypeOK, ProcessTypeOK
    <3>3. KeysMatch' /\ Correctable' /\ Running' /\ Settling' /\ Signed' /\ Fetched'
      BY <2>5, <3>1 DEF vars, process, IInv, KeysMatch, Correctable, Running, Settling, Signed,
                        Fetched, Covered
    <3> QED
      BY <3>1, <3>2, <3>3 DEF IInv
  <2> QED
    BY <2>1, <2>2, <2>3, <2>4, <2>5 DEF Next
<1> QED
  BY <1>1, InitKeeps, PTL DEF Spec

\* Every reachable state is well typed: what a pod publishes and a validator
\* holds are keys, however the previous keys were mistaken.
THEOREM TypeCorrect == Spec => []TypeOK
PROOF
<1>1. IInv => TypeOK
  BY DEF IInv
<1> QED
  BY <1>1, Invariance, PTL

\* A key stays published as long as the tokens it signed live.
THEOREM KeysStay == Spec => []KeysOutliveTokens
PROOF
<1>1. IInv => KeysOutliveTokens
  <2> SUFFICES ASSUME IInv, NEW t \in tokens, NEW p \in Serving, gen[p] >= t.by, t.exp > now + Grace
               PROVE  t.signed \in PodKeys(p)
    BY DEF KeysOutliveTokens
  <2>1. gen[p] \in Releases /\ Starts(release[gen[p]])
    BY DEF IInv, TypeOK, Running, Serving, Releases
  <2> QED
    BY <2>1 DEF IInv, Signed, Covered, PodKeys
<1> QED
  BY <1>1, Invariance, PTL

\* A token of authn's never fails verification with a key of its key ID.
THEOREM NeverForged == Spec => []NeverInvalid
PROOF
<1>1. IInv => NeverInvalid
  <2> SUFFICES ASSUME IInv, NEW t \in tokens, NEW k \in Known(t) PROVE k.key = t.signed.key
    BY DEF NeverInvalid, Verdict
  <2>1. PICK j \in Releases : k = SigningKey(release[j])
    BY DEF IInv, Fetched, Known
  <2>2. t.by \in Releases /\ t.signed = SigningKey(release[t.by])
    BY DEF IInv, Signed
  <2>3. release[j].kid = release[t.by].kid
    BY <2>1, <2>2 DEF Known, SigningKey
  <2>4. release[j].key = release[t.by].key
    BY <2>1, <2>2, <2>3 DEF IInv, KeysMatch
  <2> QED
    BY <2>1, <2>2, <2>4 DEF SigningKey
<1> QED
  BY <1>1, Invariance, PTL

\* A token is refused as unverifiable only for want of an answer from a pod as
\* new as its signer, and no longer than the floor between fetches, or at the
\* very end of its life.
THEOREM RefusedBriefly == Spec => []RefusedOnlyMeanwhile
PROOF
<1>1. IInv => RefusedOnlyMeanwhile
  <2> SUFFICES ASSUME IInv, NEW t \in tokens, Settled(t), Known(t) = {}, ~(t.exp <= now + Grace)
               PROVE  Throttled /\ cache.from < t.by
    BY DEF RefusedOnlyMeanwhile, Verdict
  <2>1. Throttled
    BY DEF Settled
  <2>2. t.exp > now + Grace
    BY ProcessAssumption DEF IInv, TypeOK, ProcessTypeOK, Token
  <2>3. t.by \in Releases /\ t.by \in Nat /\ t.by > 0 /\ cache.from \in Nat
    BY DEF IInv, Signed, Releases, TypeOK, Token, Cache
  <2>4. ASSUME cache.from >= t.by PROVE FALSE
    <3>1. /\ cache.from \in Releases /\ Starts(release[cache.from])
          /\ cache.keys = Published(release[cache.from])
      BY <2>3, <2>4 DEF IInv, Fetched
    <3>2. t.signed \in cache.keys
      BY <2>2, <2>4, <3>1 DEF IInv, Signed, Covered
    <3> QED
      BY <3>2 DEF Known
  <2> QED
    BY <2>1, <2>3, <2>4
<1> QED
  BY <1>1, Invariance, PTL
================================================================================
