---------------------------- MODULE IssuanceProofs ----------------------------
(***************************************************************************)
(* Proofs about Issuance, for any number of logins and any durations.      *)
(***************************************************************************)
EXTENDS Issuance, FiniteSetTheorems, TLAPS

Pc == {"idle", "answered", "refused", "aborted", "lost"} \cup Active

Using == {"put", "measure", "sign"}

\* A CSR is its login's own, of a login that has come to it and that still has to
\* delete it or could not; it asks for no longer than the login does.
CsrGood(c, p, w) ==
  /\ c.name = Name(c.by)
  /\ p \notin {"idle"} \cup Preparing
  /\ p \in Holding \/ w.litter
  /\ c.seconds > 0 /\ c.seconds * Second <= w.asked
  /\ c.notAfter <= c.at + w.asked
  /\ c.status = "issued" => c.notAfter # 0

Inexpressible(d) == d \notin (MinSeconds * Second)..((MaxSeconds + 1) * Second - 1)

\* A login without a cause has met no failure, and one with a cause ends refused.
CauseGood(p, w) ==
  /\ w.cause = "duration" => Inexpressible(w.asked)
  /\ p = "refused" => w.cause # "none"
  /\ p \in {"idle", "approve", "wait"} \cup Preparing => w.cause = "none"
  /\ p \in {"delete"} \cup Finishing /\ w.cause = "none" => w.cert # 0
  /\ p \in Finishing => w.cause = "none"
  /\ p \in Using => w.data # None
  /\ p = "sign" => w.life = Lesser(w.asked, w.cert - w.read)

\* What a login writes to the cache and takes from it.
CaGood(p, w) ==
  /\ p = "fill" => w.fetched \in known
  /\ p = "fill" /\ "len" \notin w.todo => cache["len"] # None
  /\ p \in {"create"} \cup Holding \cup Finishing => cache["len"] # None
  /\ p \in Using => w.data \in known \cup {Garbled}
  /\ p \in Using /\ w.data = Garbled => \E c, d \in known : c # d

\* A login that began when the cache was filled and at rest keeps it so.
CalmGood(p, w) ==
  p \in Active /\ w.calm # None =>
    /\ Filling = {}
    /\ cache["ptr"] = w.calm /\ cache["len"] = w.calm
    /\ p \in Using => w.data = w.calm

CacheGood ==
  /\ IsFiniteSet(known)
  /\ cache["ptr"] \in known \cup {None} /\ cache["len"] \in known \cup {None}

CsrInv   == \A c \in csrs : CsrGood(c, pc[c.by], work[c.by])
CauseInv == \A r \in Req : CauseGood(pc[r], work[r])
CaInv    == CacheGood /\ \A r \in Req : CaGood(pc[r], work[r])
CalmInv  == \A r \in Req : CalmGood(pc[r], work[r])

IInv == TypeOK /\ CsrInv /\ CauseInv /\ CaInv /\ CalmInv

--------------------------------------------------------------------------------
(* Seconds *)

\* Multiplying keeps order: seconds compared are durations compared.
LEMMA TimesMonotone ==
  ASSUME NEW m \in Int, NEW n \in Int, NEW k \in Nat, m <= n
  PROVE  m * k <= n * k
OBVIOUS

\* A duration cut to whole seconds is no longer, by less than one
\* (NewCertificateSigningRequest).
LEMMA SecondsCut ==
  ASSUME NEW d \in Nat
  PROVE  /\ d \div Second \in Nat
         /\ (d \div Second) * Second <= d
         /\ d < (d \div Second + 1) * Second
BY IssuanceAssumption

\* What a CSR asks for is within the login's duration, and a duration the apiserver
\* refuses is one that can't be expressed.
LEMMA SecondsAsked ==
  ASSUME NEW d \in Nat, NEW s \in ExpirationSeconds(d)
  PROVE  /\ s \in Int
         /\ s >= MinSeconds => s > 0 /\ s * Second <= d
         /\ s < MinSeconds => Inexpressible(d)
<1> DEFINE q == d \div Second
<1>1. q \in Nat /\ q * Second <= d /\ d < (q + 1) * Second
  BY SecondsCut
<1>2. Second \in Nat /\ MinSeconds \in Nat \ {0} /\ MaxSeconds \in Nat
  BY IssuanceAssumption
<1>a. s \in IF q <= MaxSeconds THEN {q} ELSE {MaxSeconds, -MaxSeconds - 1}
  BY DEF ExpirationSeconds
<1> HIDE DEF q
<1>3. s \in Int /\ ((s = q /\ q <= MaxSeconds) \/ (q > MaxSeconds /\ s \in {MaxSeconds, -MaxSeconds - 1}))
  <2>1. CASE q <= MaxSeconds
    BY <1>1, <1>2, <1>a, <2>1
  <2>2. CASE ~(q <= MaxSeconds)
    <3>1. s \in {MaxSeconds, -MaxSeconds - 1}
      BY <1>a, <2>2
    <3>2. s \in Int /\ q > MaxSeconds
      BY <1>1, <1>2, <2>2, <3>1
    <3> QED BY <3>1, <3>2
  <2> QED BY <2>1, <2>2
<1>4. ASSUME s >= MinSeconds
      PROVE  s > 0 /\ s * Second <= d
  <2>1. s \in Nat /\ s > 0 /\ s <= q
    BY <1>1, <1>2, <1>3, <1>4
  <2>2. s * Second <= q * Second
    BY <1>1, <1>2, <2>1, TimesMonotone
  <2> QED BY <1>1, <1>2, <2>1, <2>2
<1>5. ASSUME s < MinSeconds
      PROVE  Inexpressible(d)
  <2>1. CASE q <= MaxSeconds
    <3>1. q + 1 <= MinSeconds
      BY <1>1, <1>2, <1>3, <1>5, <2>1
    <3>2. (q + 1) * Second <= MinSeconds * Second
      BY <1>1, <1>2, <3>1, TimesMonotone
    <3> QED BY <1>1, <1>2, <3>2 DEF Inexpressible
  <2>2. CASE q > MaxSeconds
    <3>1. (MaxSeconds + 1) * Second <= q * Second
      BY <1>1, <1>2, <2>2, TimesMonotone
    <3> QED BY <1>1, <1>2, <3>1 DEF Inexpressible
  <2> QED BY <1>1, <1>2, <2>1, <2>2
<1> QED BY <1>3, <1>4, <1>5
--------------------------------------------------------------------------------
(* A step of one login *)

Changes(r, p, w) ==
  /\ pc' = [pc EXCEPT ![r] = p]
  /\ work' = [work EXCEPT ![r] = w]
  /\ UNCHANGED <<now, ca, known, restarts>>

\* What a login that moves to p with w must not disturb, the cache left alone.
LEMMA LoginStep ==
  ASSUME IInv, NEW r \in Req, NEW p \in Pc, NEW w \in Work, Changes(r, p, w),
         cache' = cache, csrs' \subseteq Csr,
         \A c \in csrs' : c.by # r => c \in csrs,
         \A c \in csrs' : c.by = r => CsrGood(c, p, w),
         CauseGood(p, w), CaGood(p, w),
         p \in {"fetch", "fill"} => pc[r] \in {"fetch", "fill"} \/ cache["len"] = None,
         \/ w.calm = None
         \/ pc[r] \in Active /\ w.calm = work[r].calm
         \/ Filling = {} /\ cache["ptr"] = w.calm /\ cache["len"] = w.calm,
         p \in Using /\ w.calm # None => w.data = w.calm
  PROVE  IInv'
<1>1. /\ pc \in [Req -> Pc] /\ work \in [Req -> Work]
      /\ pc' \in [Req -> Pc] /\ work' \in [Req -> Work]
      /\ pc'[r] = p /\ work'[r] = w
      /\ \A q \in Req : q # r => pc'[q] = pc[q] /\ work'[q] = work[q]
  BY DEF IInv, TypeOK, Changes, Pc
<1>2. CauseInv'
  BY <1>1 DEF IInv, CauseInv
<1>3. TypeOK'
  <2>1. \A q \in Req : pc'[q] \in Finishing => work'[q].cert # 0 /\ work'[q].cause = "none"
    BY <1>2 DEF CauseInv, CauseGood
  <2>2. \A q \in Req : pc'[q] \in Using => work'[q].data # None
    BY <1>2 DEF CauseInv, CauseGood
  <2> QED BY <1>1, <2>1, <2>2 DEF IInv, TypeOK, Changes, Pc, Using
<1>4. CsrInv'
  <2> SUFFICES ASSUME NEW c \in csrs'
               PROVE  CsrGood(c, pc'[c.by], work'[c.by])
    BY DEF CsrInv, CsrGood, Name
  <2>1. c.by \in Req
    BY DEF Csr
  <2> QED BY <1>1, <2>1 DEF IInv, CsrInv
<1>5. CaInv'
  BY <1>1 DEF IInv, CaInv, CacheGood, CaGood, Changes
<1>6. CalmInv'
  <2> SUFFICES ASSUME NEW q \in Req, pc'[q] \in Active, work'[q].calm # None
               PROVE  /\ Filling' = {}
                      /\ cache["ptr"] = work'[q].calm /\ cache["len"] = work'[q].calm
                      /\ pc'[q] \in Using => work'[q].data = work'[q].calm
    BY DEF CalmInv, CalmGood
  <2>1. Filling = {} /\ cache["ptr"] = work'[q].calm /\ cache["len"] = work'[q].calm
    BY <1>1 DEF IInv, CalmInv, CalmGood
  <2>2. Filling' = {}
    BY <1>1, <2>1 DEF Filling
  <2>3. pc'[q] \in Using => work'[q].data = work'[q].calm
    BY <1>1 DEF IInv, CalmInv, CalmGood
  <2> QED BY <2>1, <2>2, <2>3
<1> QED BY <1>2, <1>3, <1>4, <1>5, <1>6 DEF IInv
--------------------------------------------------------------------------------
(* The steps *)

\* What the invariant says of one login.
LEMMA OfLogin ==
  ASSUME IInv, NEW r \in Req
  PROVE  /\ pc[r] \in Pc /\ work[r] \in Work
         /\ CauseGood(pc[r], work[r]) /\ CaGood(pc[r], work[r]) /\ CalmGood(pc[r], work[r])
         /\ csrs \subseteq Csr
         /\ \A c \in csrs : c.by = r => CsrGood(c, pc[r], work[r])
BY DEF IInv, TypeOK, CsrInv, CauseInv, CaInv, CalmInv, Pc

LEMMA AskedNat ==
  ASSUME NEW w \in Work
  PROVE  w.asked \in Nat /\ w.cert \in Nat
<1>1. \A d \in Durations \cup {0} : d \in Nat
  BY IssuanceAssumption
<1>2. w.asked \in Durations \cup {0}
  BY DEF Work
<1>3. w.cert \in Nat
  BY DEF Work
<1> QED BY <1>1, <1>2, <1>3

LEMMA NoWorkTyped == NoWork \in Work
BY DEF NoWork, Work, Word

Closes(w, cause, v) == v.asked = w.asked /\ v.cause = cause /\ v.calm = None

\* What is left of a login that is over (Ended).
LEMMA EndedTyped ==
  ASSUME NEW w \in Work, NEW cause \in {"none", "failed", "duration", "signer"}, NEW litter \in BOOLEAN
  PROVE  /\ Ended(w, cause, litter) \in Work
         /\ Closes(w, cause, Ended(w, cause, litter))
<1> DEFINE l == w.litter \/ litter
           e == [NoWork EXCEPT !.asked = w.asked, !.cause = cause, !.litter = l]
<1>1. w.asked \in Durations \cup {0} /\ l \in BOOLEAN
  BY DEF Work
<1>2. Ended(w, cause, litter) = e
  BY Zenon DEF Ended
<1> HIDE DEF l
<1>3. NoWork.calm = None
  BY DEF NoWork
<1>4. e \in Work /\ e.asked = w.asked /\ e.cause = cause /\ e.calm = NoWork.calm
  BY <1>1, NoWorkTyped DEF Work
<1> HIDE DEF e
<1> QED BY <1>2, <1>3, <1>4 DEF Closes

\* It keeps that a CSR may stay behind (Ended).
LEMMA EndedLitter ==
  ASSUME NEW w \in Work, NEW cause, NEW litter \in BOOLEAN, w.litter \/ litter
  PROVE  Ended(w, cause, litter).litter
<1> DEFINE e == [NoWork EXCEPT !.asked = w.asked, !.cause = cause, !.litter = TRUE]
<1>1. (w.litter \/ litter) = TRUE
  BY Zenon DEF Work
<1>2. Ended(w, cause, litter) = e
  BY <1>1, Zenon DEF Ended
<1>3. e.litter = TRUE
  BY NoWorkTyped DEF Work
<1> HIDE DEF e
<1> QED BY <1>2, <1>3, Zenon

\* A login that ends, its CSR deleted, to be deleted by nobody, or never made.
LEMMA EndKeeps ==
  ASSUME IInv, NEW r \in Req,
         NEW how \in {"answered", "refused", "aborted"},
         NEW cause \in {"none", "failed", "duration", "signer"}, NEW litter \in BOOLEAN,
         End(r, how, cause, litter), UNCHANGED <<now, ca, known, restarts, cache>>,
         how = "refused" => cause # "none",
         cause = "duration" => Inexpressible(work[r].asked),
         csrs' \subseteq Csr,
         \A c \in csrs' : c.by # r => c \in csrs,
         \A c \in csrs' : c.by = r => CsrGood(c, how, Ended(work[r], cause, litter))
  PROVE  IInv'
<1> DEFINE w == Ended(work[r], cause, litter)
<1>1. work[r] \in Work
  BY OfLogin
<1>2. w \in Work /\ w.asked = work[r].asked /\ w.cause = cause /\ w.calm = None
  <2>1. w \in Work /\ Closes(work[r], cause, w)
    BY <1>1, EndedTyped
  <2> QED BY <2>1 DEF Closes
<1>3. Changes(r, how, w)
  BY DEF Changes, End, Goto
<1> HIDE DEF w
<1>4. CauseGood(how, w) /\ CaGood(how, w) /\ how \in Pc
  BY <1>2 DEF CauseGood, CaGood, Pc, Preparing, Holding, Finishing, Using
<1> QED BY <1>2, <1>3, <1>4, LoginStep DEF Using, w
\* The CSRs of a login that moves on and can still be held to them.
LEMMA CsrsStay ==
  ASSUME IInv, NEW r \in Req, NEW p, NEW w,
         p \notin {"idle"} \cup Preparing \/ pc[r] \in {"idle"} \cup Preparing,
         p \in Holding \/ (p \notin Holding /\ pc[r] \notin Holding /\ w.litter = work[r].litter)
                       \/ pc[r] \in {"idle"} \cup Preparing,
         w.asked = work[r].asked \/ pc[r] = "idle"
  PROVE  \A c \in csrs : c.by = r => CsrGood(c, p, w)
BY OfLogin DEF CsrGood

LEMMA BeginKeeps ==
  ASSUME IInv, NEW r \in Req, Begin(r)
  PROVE  IInv'
<1> DEFINE calm == IF Filling = {} /\ cache["ptr"] = cache["len"] THEN cache["ptr"] ELSE None
           p == IF NeedsCa THEN "fetch" ELSE "create"
<1>1. PICK d \in Durations : work' = [work EXCEPT ![r] = [NoWork EXCEPT !.asked = d, !.calm = calm]]
  BY DEF Begin
<1> DEFINE w == [NoWork EXCEPT !.asked = d, !.calm = calm]
<1>2. /\ pc[r] = "idle" /\ p \in {"fetch", "create"} /\ (p = "fetch" <=> NeedsCa)
      /\ Changes(r, p, w) /\ cache' = cache /\ csrs' = csrs
  BY <1>1 DEF Begin, Changes, cluster, Goto
<1>3. calm \in Word
  BY DEF IInv, CaInv, CacheGood, TypeOK, Word
<1>4. calm # None => Filling = {} /\ cache["ptr"] = calm /\ cache["len"] = calm
  OBVIOUS
<1> HIDE DEF calm, p
<1>5. NoWork.cause = "none"
  BY DEF NoWork
<1>6. w \in Work /\ w.cause = "none" /\ w.calm = calm
  BY <1>3, <1>5, NoWorkTyped DEF Work
<1> HIDE DEF w
<1>7. CauseGood(p, w)
  BY <1>2, <1>6 DEF CauseGood, Finishing, Using
<1>8. CaGood(p, w)
  BY <1>2 DEF CaGood, Holding, Finishing, Using, NeedsCa
<1>9. \A c \in csrs : c.by = r => CsrGood(c, p, w)
  BY <1>2, CsrsStay
<1>10. /\ p \in Pc /\ p \notin Using
       /\ p \in {"fetch", "fill"} => cache["len"] = None
  BY <1>2 DEF Pc, Active, Preparing, Using, NeedsCa
<1>11. csrs \subseteq Csr
  BY OfLogin
<1> QED BY <1>2, <1>4, <1>6, <1>7, <1>8, <1>9, <1>10, <1>11, LoginStep

LEMMA FetchKeeps ==
  ASSUME IInv, NEW r \in Req, Fetch(r)
  PROVE  IInv'
<1> DEFINE w == [work[r] EXCEPT !.fetched = ca, !.todo = {"ptr", "len"}]
<1>1. /\ pc[r] = "fetch" /\ work[r] \in Work
      /\ CauseGood("fetch", work[r]) /\ CaGood("fetch", work[r]) /\ CalmGood("fetch", work[r]) /\ csrs \subseteq Csr
  BY OfLogin DEF Fetch
<1>2. Changes(r, "fill", w) /\ cache' = cache /\ csrs' = csrs
  BY DEF Fetch, Changes, cluster, Goto, IInv, TypeOK
<1>3. /\ w \in Work /\ w.asked = work[r].asked /\ w.calm = work[r].calm
      /\ w.cause = work[r].cause /\ w.fetched \in known /\ w.todo = {"ptr", "len"} /\ w.litter = work[r].litter
  BY <1>1 DEF Work, Word, IInv, TypeOK
<1> HIDE DEF w
<1>4. CauseGood("fill", w)
  BY <1>1, <1>3 DEF CauseGood, Preparing, Finishing, Using
<1>5. CaGood("fill", w)
  BY <1>1, <1>3 DEF CaGood, Preparing, Holding, Finishing, Using
<1>6. \A c \in csrs : c.by = r => CsrGood(c, "fill", w)
  BY <1>1, <1>3, CsrsStay DEF Preparing, Holding
<1>7. "fill" \in Pc /\ pc[r] \in Active /\ ("fill" \in Using /\ w.calm # None => w.data = w.calm)
  BY <1>1, <1>3 DEF Pc, Active, Preparing, Holding, Finishing, Using, CalmGood
<1> QED BY <1>1, <1>2, <1>3, <1>4, <1>5, <1>6, <1>7, LoginStep

LEMMA WaitRefusedKeeps ==
  ASSUME IInv, NEW r \in Req, WaitRefused(r)
  PROVE  IInv'
<1> DEFINE w == [work[r] EXCEPT !.cause = "signer", !.since = 0]
<1>1. /\ pc[r] = "wait" /\ work[r] \in Work
      /\ CauseGood("wait", work[r]) /\ CaGood("wait", work[r]) /\ CalmGood("wait", work[r]) /\ csrs \subseteq Csr
  BY OfLogin DEF WaitRefused
<1>2. Changes(r, "delete", w) /\ cache' = cache /\ csrs' = csrs
  BY DEF WaitRefused, Changes, cluster, Goto, IInv, TypeOK
<1>3. /\ w \in Work /\ w.asked = work[r].asked /\ w.calm = work[r].calm
      /\ w.cause = "signer" /\ w.litter = work[r].litter
  BY <1>1 DEF Work
<1> HIDE DEF w
<1>4. CauseGood("delete", w)
  BY <1>1, <1>3 DEF CauseGood, Preparing, Finishing, Using
<1>5. CaGood("delete", w)
  BY <1>1, <1>3 DEF CaGood, Preparing, Holding, Finishing, Using
<1>6. \A c \in csrs : c.by = r => CsrGood(c, "delete", w)
  BY <1>1, <1>3, CsrsStay DEF Preparing, Holding
<1>7. "delete" \in Pc /\ pc[r] \in Active /\ ("delete" \in Using /\ w.calm # None => w.data = w.calm)
  BY <1>1, <1>3 DEF Pc, Active, Preparing, Holding, Finishing, Using, CalmGood
<1> QED BY <1>1, <1>2, <1>3, <1>4, <1>5, <1>6, <1>7, LoginStep

LEMMA PutKeeps ==
  ASSUME IInv, NEW r \in Req, Put(r)
  PROVE  IInv'
<1> DEFINE w == work[r]
<1>1. /\ pc[r] = "put" /\ work[r] \in Work
      /\ CauseGood("put", work[r]) /\ CaGood("put", work[r]) /\ CalmGood("put", work[r]) /\ csrs \subseteq Csr
  BY OfLogin DEF Put
<1>2. Changes(r, "measure", w) /\ cache' = cache /\ csrs' = csrs
  BY DEF Put, Changes, cluster, Goto, IInv, TypeOK
<1>3. /\ w \in Work /\ w.asked = work[r].asked /\ w.calm = work[r].calm
      /\ w.cause = work[r].cause /\ w.cert = work[r].cert /\ w.litter = work[r].litter /\ w.data = work[r].data
  BY <1>1 DEF Work
<1> HIDE DEF w
<1>4. CauseGood("measure", w)
  BY <1>1, <1>3 DEF CauseGood, Preparing, Finishing, Using
<1>5. CaGood("measure", w)
  BY <1>1, <1>3 DEF CaGood, Preparing, Holding, Finishing, Using
<1>6. \A c \in csrs : c.by = r => CsrGood(c, "measure", w)
  BY <1>1, <1>3, CsrsStay DEF Preparing, Holding
<1>7. "measure" \in Pc /\ pc[r] \in Active /\ ("measure" \in Using /\ w.calm # None => w.data = w.calm)
  BY <1>1, <1>3 DEF Pc, Active, Preparing, Holding, Finishing, Using, CalmGood
<1> QED BY <1>1, <1>2, <1>3, <1>4, <1>5, <1>6, <1>7, LoginStep

LEMMA MeasureKeeps ==
  ASSUME IInv, NEW r \in Req, Measure(r)
  PROVE  IInv'
<1> DEFINE life == tokenDuration(work[r].asked, work[r].cert)
           w == [work[r] EXCEPT !.read = now, !.life = life]
<1>1. /\ pc[r] = "measure" /\ work[r] \in Work
      /\ CauseGood("measure", work[r]) /\ CaGood("measure", work[r]) /\ CalmGood("measure", work[r]) /\ csrs \subseteq Csr
  BY OfLogin DEF Measure
<1>2. Changes(r, "sign", w) /\ cache' = cache /\ csrs' = csrs
  BY DEF Measure, Changes, cluster, Goto, IInv, TypeOK
<1>3. /\ w \in Work /\ w.asked = work[r].asked /\ w.calm = work[r].calm
      /\ w.cause = work[r].cause /\ w.cert = work[r].cert /\ w.litter = work[r].litter /\ w.data = work[r].data
      /\ w.life = Lesser(w.asked, w.cert - w.read)
  <2>1. now \in Nat
    BY DEF IInv, TypeOK
  <2>2. work[r].asked \in Nat /\ work[r].cert \in Nat
    BY <1>1, AskedNat
  <2>3. life \in Int /\ life = Lesser(work[r].asked, work[r].cert - now)
    BY <2>1, <2>2 DEF tokenDuration, Lesser
  <2> HIDE DEF life
  <2>4. w \in Work /\ w.read = now /\ w.life = life /\ w.asked = work[r].asked /\ w.cert = work[r].cert
    BY <1>1, <2>1, <2>3 DEF Work
  <2>5. w.calm = work[r].calm /\ w.cause = work[r].cause /\ w.litter = work[r].litter /\ w.data = work[r].data
    BY <1>1 DEF Work
  <2> QED BY <2>3, <2>4, <2>5
<1> HIDE DEF w
<1>4. CauseGood("sign", w)
  BY <1>1, <1>3 DEF CauseGood, Preparing, Finishing, Using
<1>5. CaGood("sign", w)
  BY <1>1, <1>3 DEF CaGood, Preparing, Holding, Finishing, Using
<1>6. \A c \in csrs : c.by = r => CsrGood(c, "sign", w)
  BY <1>1, <1>3, CsrsStay DEF Preparing, Holding
<1>7. "sign" \in Pc /\ pc[r] \in Active /\ ("sign" \in Using /\ w.calm # None => w.data = w.calm)
  BY <1>1, <1>3 DEF Pc, Active, Preparing, Holding, Finishing, Using, CalmGood
<1> QED BY <1>1, <1>2, <1>3, <1>4, <1>5, <1>6, <1>7, LoginStep

LEMMA WaitIssuedKeeps ==
  ASSUME IInv, NEW r \in Req, WaitIssued(r)
  PROVE  IInv'
<1>1. PICK c \in Own(r) : c.status = "issued" /\ work' = [work EXCEPT ![r].cert = c.notAfter, ![r].since = 0]
  BY DEF WaitIssued
<1> DEFINE w == [work[r] EXCEPT !.cert = c.notAfter, !.since = 0]
<1>2. /\ pc[r] = "wait" /\ work[r] \in Work
      /\ CauseGood("wait", work[r]) /\ CaGood("wait", work[r]) /\ CalmGood("wait", work[r]) /\ csrs \subseteq Csr
  BY OfLogin DEF WaitIssued
<1>3. Changes(r, "delete", w) /\ cache' = cache /\ csrs' = csrs
  BY <1>1 DEF WaitIssued, Changes, cluster, Goto
<1>4. c.notAfter \in Nat /\ c.notAfter # 0
  BY <1>1, <1>2 DEF Own, Csr, IInv, CsrInv, CsrGood
<1>5. /\ w \in Work /\ w.asked = work[r].asked /\ w.calm = work[r].calm
      /\ w.cause = work[r].cause /\ w.cert # 0
  BY <1>2, <1>4 DEF Work
<1> HIDE DEF w
<1>6. CauseGood("delete", w)
  BY <1>2, <1>5 DEF CauseGood, Preparing, Finishing, Using
<1>7. CaGood("delete", w)
  BY <1>2 DEF CaGood, Preparing, Holding, Finishing, Using
<1>8. \A d \in csrs : d.by = r => CsrGood(d, "delete", w)
  BY <1>2, <1>5, CsrsStay DEF Preparing, Holding
<1>9. "delete" \in Pc /\ pc[r] \in Active /\ "delete" \notin Using
  BY <1>2 DEF Pc, Active, Preparing, Holding, Using
<1> QED BY <1>2, <1>3, <1>5, <1>6, <1>7, <1>8, <1>9, LoginStep

\* The CSR made for a login is held to what the login asks (NewCsr).
LEMMA NewCsrGood ==
  ASSUME IInv, NEW r \in Req, NEW s \in ExpirationSeconds(work[r].asked), s >= MinSeconds
  PROVE  /\ NewCsr(r, s) \in Csr /\ NewCsr(r, s).by = r
         /\ \A p, w : w.asked = work[r].asked /\ p \notin {"idle"} \cup Preparing /\ (p \in Holding \/ w.litter)
                      => CsrGood(NewCsr(r, s), p, w)
<1>1. work[r].asked \in Nat
  BY OfLogin, AskedNat
<1>2. s \in Int /\ s > 0 /\ s * Second <= work[r].asked
  BY <1>1, SecondsAsked
<1>3. Name(r) \in CsrName
  BY IssuanceAssumption DEF Name, CsrName
<1>4. NewCsr(r, s) \in Csr
  BY <1>2, <1>3 DEF NewCsr, Csr
<1>5. /\ NewCsr(r, s).name = Name(r) /\ NewCsr(r, s).by = r /\ NewCsr(r, s).seconds = s
      /\ NewCsr(r, s).status = "pending" /\ NewCsr(r, s).at = 0 /\ NewCsr(r, s).notAfter = 0
  BY DEF NewCsr
<1> QED BY <1>1, <1>2, <1>4, <1>5 DEF CsrGood

\* A login that comes to create its CSR has none (NewCertificateSigningRequest).
LEMMA NoneYet ==
  ASSUME IInv, NEW r \in Req, pc[r] \in {"idle"} \cup Preparing
  PROVE  Own(r) = {} /\ \A c \in csrs : c.by # r
<1>1. \A c \in csrs : c.by # r
  BY OfLogin DEF CsrGood
<1>2. \A c \in csrs : c.by \in Req /\ c.name = Name(c.by)
  BY DEF IInv, CsrInv, CsrGood, TypeOK, Csr
<1>3. \A q \in Req : Name(q) = Name(r) => q = r
  BY DEF Name
<1> QED BY <1>1, <1>2, <1>3 DEF Own

LEMMA CreateKeeps ==
  ASSUME IInv, NEW r \in Req, Create(r)
  PROVE  IInv'
<1>1. pc[r] = "create" /\ work[r] \in Work /\ csrs \subseteq Csr /\ UNCHANGED <<now, ca, known, restarts, cache>>
  BY OfLogin DEF Create, cluster
<1>2. Own(r) = {} /\ \A c \in csrs : c.by # r
  BY <1>1, NoneYet DEF Preparing
<1>3. PICK s \in ExpirationSeconds(work[r].asked) :
        \/ /\ s >= MinSeconds
           /\ csrs' = csrs \cup {NewCsr(r, s)}
           /\ Goto(r, "approve")
           /\ UNCHANGED work
        \/ s < MinSeconds /\ End(r, "refused", "duration", FALSE) /\ UNCHANGED csrs
  BY <1>2 DEF Create
<1>4. ASSUME s >= MinSeconds, csrs' = csrs \cup {NewCsr(r, s)}, Goto(r, "approve"), UNCHANGED work
      PROVE  IInv'
  <2>1. /\ CauseGood("create", work[r]) /\ CaGood("create", work[r]) /\ CalmGood("create", work[r])
    BY <1>1, OfLogin
  <2>2. Changes(r, "approve", work[r])
    BY <1>1, <1>4 DEF Goto, Changes, IInv, TypeOK
  <2>3. CauseGood("approve", work[r]) /\ CaGood("approve", work[r])
    BY <2>1 DEF CauseGood, CaGood, Preparing, Holding, Finishing, Using
  <2>4. "approve" \in Pc /\ pc[r] \in Active /\ "approve" \notin Using /\ "approve" \notin {"idle"} \cup Preparing
        /\ "approve" \in Holding
    BY <1>1 DEF Pc, Active, Preparing, Holding, Using
  <2>5. /\ csrs' \subseteq Csr
        /\ \A c \in csrs' : c.by # r => c \in csrs
        /\ \A c \in csrs' : c.by = r => CsrGood(c, "approve", work[r])
    BY <1>1, <1>2, <1>4, <2>4, NewCsrGood
  <2> QED BY <1>1, <2>2, <2>3, <2>4, <2>5, LoginStep
<1>5. ASSUME s < MinSeconds, End(r, "refused", "duration", FALSE), UNCHANGED csrs
      PROVE  IInv'
  <2>1. Inexpressible(work[r].asked)
    BY <1>1, <1>5, AskedNat, SecondsAsked
  <2> QED BY <1>1, <1>2, <1>5, <2>1, EndKeeps
<1> QED BY <1>3, <1>4, <1>5

LEMMA CreateLostKeeps ==
  ASSUME IInv, NEW r \in Req, CreateLost(r)
  PROVE  IInv'
<1> DEFINE w == Ended(work[r], "failed", TRUE)
<1>1. /\ pc[r] = "create" /\ work[r] \in Work /\ csrs \subseteq Csr /\ UNCHANGED <<now, ca, known, restarts, cache>>
      /\ End(r, "refused", "failed", TRUE)
  BY OfLogin DEF CreateLost, cluster
<1>2. PICK s \in ExpirationSeconds(work[r].asked) : s >= MinSeconds /\ csrs' = csrs \cup {NewCsr(r, s)}
  BY DEF CreateLost
<1>3. \A c \in csrs : c.by # r
  BY <1>1, NoneYet DEF Preparing
<1>4. Closes(work[r], "failed", w) /\ w.litter
  BY <1>1, EndedTyped, EndedLitter
<1>5. w.asked = work[r].asked
  BY <1>4 DEF Closes
<1> HIDE DEF w
<1>6. CsrGood(NewCsr(r, s), "refused", w)
  BY <1>2, <1>4, <1>5, NewCsrGood DEF Preparing
<1>7. /\ csrs' \subseteq Csr
      /\ \A c \in csrs' : c.by # r => c \in csrs
      /\ \A c \in csrs' : c.by = r => CsrGood(c, "refused", w)
  BY <1>1, <1>2, <1>3, <1>6, NewCsrGood
<1> QED BY <1>1, <1>7, EndKeeps DEF w

Fields(d, c, status, at, notAfter) ==
  /\ d.name = c.name /\ d.by = c.by /\ d.seconds = c.seconds
  /\ d.status = status /\ d.at = at /\ d.notAfter = notAfter

\* A CSR whose status changes is otherwise the same (Becomes).
LEMMA BecomesFields ==
  ASSUME NEW c \in csrs, csrs \subseteq Csr,
         NEW status \in {"pending", "approved", "issued", "failed"}, NEW at \in Nat, NEW notAfter \in Nat,
         Becomes(c, status, at, notAfter)
  PROVE  /\ csrs' \subseteq Csr
         /\ \E d \in Csr : csrs' = (csrs \ {c}) \cup {d} /\ Fields(d, c, status, at, notAfter)
<1> DEFINE d == [c EXCEPT !.status = status, !.at = at, !.notAfter = notAfter]
<1>1. csrs' = (csrs \ {c}) \cup {d}
  BY DEF Becomes
<1>2. d \in Csr /\ Fields(d, c, status, at, notAfter)
  BY DEF Csr, Fields
<1> QED BY <1>1, <1>2

LEMMA ApproveKeeps ==
  ASSUME IInv, NEW r \in Req, Approve(r)
  PROVE  IInv'
<1> DEFINE w == [work[r] EXCEPT !.since = now]
<1>1. /\ pc[r] = "approve" /\ work[r] \in Work
      /\ CauseGood("approve", work[r]) /\ CaGood("approve", work[r]) /\ CalmGood("approve", work[r])
      /\ csrs \subseteq Csr /\ cache' = cache
  BY OfLogin DEF Approve
<1>2. Changes(r, "wait", w)
  BY DEF Approve, Changes, cluster, Goto
<1>3. now \in Nat
  BY DEF IInv, TypeOK
<1>4. /\ w \in Work /\ w.asked = work[r].asked /\ w.calm = work[r].calm /\ w.cause = work[r].cause
  BY <1>1, <1>3 DEF Work
<1> HIDE DEF w
<1>5. PICK c \in csrs : c.by = r /\ Becomes(c, "approved", 0, 0)
  BY DEF Approve, Own
<1>6. PICK d \in Csr : csrs' = (csrs \ {c}) \cup {d} /\ Fields(d, c, "approved", 0, 0)
  BY <1>1, <1>5, BecomesFields
<1>7. \A e \in csrs : e.by = r => CsrGood(e, "wait", w)
  BY <1>1, <1>4, CsrsStay DEF Preparing, Holding
<1>8. CsrGood(d, "wait", w)
  <2>1. CsrGood(c, "wait", w)
    BY <1>5, <1>7
  <2>2. w.asked \in Nat
    BY <1>4, AskedNat
  <2> QED BY <1>6, <2>1, <2>2 DEF CsrGood, Fields
<1>9. /\ csrs' \subseteq Csr
      /\ \A e \in csrs' : e.by # r => e \in csrs
      /\ \A e \in csrs' : e.by = r => CsrGood(e, "wait", w)
  BY <1>1, <1>5, <1>6, <1>7, <1>8 DEF Fields
<1>10. CauseGood("wait", w) /\ CaGood("wait", w)
  BY <1>1, <1>4 DEF CauseGood, CaGood, Preparing, Holding, Finishing, Using
<1>11. "wait" \in Pc /\ pc[r] \in Active /\ "wait" \notin Using
  BY <1>1 DEF Pc, Active, Preparing, Holding, Using
<1> QED BY <1>1, <1>2, <1>4, <1>9, <1>10, <1>11, LoginStep

LEMMA SuccessKeeps ==
  ASSUME IInv, NEW r \in Req, Success(r)
  PROVE  IInv'
<1> DEFINE w == Ended(work[r], "none", FALSE)
<1>1. /\ pc[r] = "sign" /\ work[r] \in Work /\ csrs \subseteq Csr
      /\ End(r, "answered", "none", FALSE) /\ UNCHANGED <<now, ca, known, restarts, cache, csrs>>
  BY OfLogin DEF Success, cluster
<1>2. \A c \in csrs : c.by = r => work[r].litter /\ CsrGood(c, "sign", work[r])
  BY <1>1, OfLogin DEF CsrGood, Holding
<1>3. Closes(work[r], "none", w) /\ (work[r].litter => w.litter)
  BY <1>1, EndedTyped, EndedLitter
<1> HIDE DEF w
<1>4. \A c \in csrs : c.by = r => CsrGood(c, "answered", w)
  BY <1>2, <1>3 DEF CsrGood, Closes, Preparing
<1> QED BY <1>1, <1>4, EndKeeps DEF w

LEMMA DeleteKeeps ==
  ASSUME IInv, NEW r \in Req, Delete(r)
  PROVE  IInv'
<1>1. /\ pc[r] = "delete" /\ work[r] \in Work /\ csrs \subseteq Csr
      /\ CauseGood("delete", work[r]) /\ CaGood("delete", work[r]) /\ CalmGood("delete", work[r])
      /\ UNCHANGED <<now, ca, known, restarts, cache>>
  BY OfLogin DEF Delete, cluster
<1>2. PICK kept \in BOOLEAN :
        /\ csrs' = IF kept THEN csrs ELSE csrs \ Own(r)
        /\ \/ /\ work[r].cause = "none"
              /\ Goto(r, "assemble")
              /\ work' = [work EXCEPT ![r].litter = kept]
           \/ work[r].cause # "none" /\ End(r, "refused", work[r].cause, kept)
  BY DEF Delete
<1>3. /\ csrs' \subseteq csrs
      /\ \A c \in csrs' : c.by = r => kept /\ CsrGood(c, "delete", work[r])
  <2>1. \A c \in csrs : c.by = r => c \in Own(r) /\ CsrGood(c, "delete", work[r])
    BY <1>1, OfLogin DEF CsrGood, Own
  <2> QED BY <1>2, <2>1
<1>4. ASSUME work[r].cause = "none", Goto(r, "assemble"), work' = [work EXCEPT ![r].litter = kept]
      PROVE  IInv'
  <2> DEFINE w == [work[r] EXCEPT !.litter = kept]
  <2>1. Changes(r, "assemble", w)
    BY <1>1, <1>4 DEF Changes, Goto
  <2>2. /\ w \in Work /\ w.asked = work[r].asked /\ w.calm = work[r].calm /\ w.cause = work[r].cause
        /\ w.cert = work[r].cert
    BY <1>1 DEF Work
  <2>3. w.litter = kept
    BY <1>1 DEF Work
  <2> HIDE DEF w
  <2>4. \A c \in csrs' : c.by = r => CsrGood(c, "assemble", w)
    BY <1>3, <2>2, <2>3 DEF CsrGood, Preparing
  <2>5. CauseGood("assemble", w) /\ CaGood("assemble", w)
    BY <1>1, <1>4, <2>2 DEF CauseGood, CaGood, Preparing, Holding, Finishing, Using
  <2>6. "assemble" \in Pc /\ pc[r] \in Active /\ "assemble" \notin Using
    BY <1>1 DEF Pc, Active, Holding, Finishing, Using
  <2> QED BY <1>1, <1>3, <2>1, <2>2, <2>4, <2>5, <2>6, LoginStep
<1>5. ASSUME work[r].cause # "none", End(r, "refused", work[r].cause, kept)
      PROVE  IInv'
  <2> DEFINE w == Ended(work[r], work[r].cause, kept)
  <2>1. work[r].cause \in {"none", "failed", "duration", "signer"}
    BY <1>1 DEF Work
  <2>2. Closes(work[r], work[r].cause, w) /\ (kept => w.litter)
    BY <1>1, <2>1, EndedTyped, EndedLitter
  <2> HIDE DEF w
  <2>3. \A c \in csrs' : c.by = r => CsrGood(c, "refused", w)
    BY <1>3, <2>2 DEF CsrGood, Closes, Preparing
  <2>4. work[r].cause = "duration" => Inexpressible(work[r].asked)
    BY <1>1 DEF CauseGood
  <2> QED BY <1>1, <1>3, <1>5, <2>1, <2>3, <2>4, EndKeeps DEF w
<1> QED BY <1>2, <1>4, <1>5

LEMMA CaTaken ==
  ASSUME IInv
  PROVE  /\ None \notin known /\ Garbled \notin known /\ None # Garbled
         /\ cache["ptr"] \in known \cup {None} /\ cache["len"] \in known \cup {None}
BY IssuanceAssumption DEF IInv, TypeOK, CaInv, CacheGood

LEMMA AssembleKeeps ==
  ASSUME IInv, NEW r \in Req, Assemble(r)
  PROVE  IInv'
<1>1. /\ pc[r] = "assemble" /\ work[r] \in Work /\ csrs \subseteq Csr
      /\ CauseGood("assemble", work[r]) /\ CaGood("assemble", work[r]) /\ CalmGood("assemble", work[r])
      /\ UNCHANGED <<now, ca, known, restarts, cache, csrs>>
  BY OfLogin DEF Assemble, cluster
<1>2. \A c \in csrs : c.by = r => work[r].litter /\ CsrGood(c, "assemble", work[r])
  BY <1>1, OfLogin DEF CsrGood, Holding
<1>3. CASE cache["ptr"] = None
  <2> DEFINE w == Ended(work[r], "none", FALSE)
  <2>1. End(r, "aborted", "none", FALSE)
    BY <1>3 DEF Assemble
  <2>2. Closes(work[r], "none", w) /\ (work[r].litter => w.litter)
    BY <1>1, EndedTyped, EndedLitter
  <2> HIDE DEF w
  <2>3. \A c \in csrs : c.by = r => CsrGood(c, "aborted", w)
    BY <1>2, <2>2 DEF CsrGood, Closes, Preparing
  <2> QED BY <1>1, <2>1, <2>3, EndKeeps DEF w
<1>4. CASE cache["ptr"] # None
  <2> DEFINE x == IF cache["ptr"] = cache["len"] THEN cache["ptr"] ELSE Garbled
             w == [work[r] EXCEPT !.data = x]
  <2>1. Changes(r, "put", w)
    BY <1>1, <1>4 DEF Assemble, Changes, Goto
  <2>2. cache["ptr"] \in known /\ cache["len"] \in known
    BY <1>1, <1>4, CaTaken DEF CaGood, Finishing
  <2>3. x \in known \cup {Garbled} /\ (x = Garbled => \E c, d \in known : c # d) /\ x # None
    BY <2>2, CaTaken
  <2>4. known \subseteq Ca
    BY DEF IInv, TypeOK
  <2>5. work[r].calm # None => x = work[r].calm
    BY <1>1 DEF CalmGood, Active, Finishing
  <2> HIDE DEF x
  <2>6. /\ w \in Work /\ w.asked = work[r].asked /\ w.calm = work[r].calm /\ w.cause = work[r].cause
        /\ w.cert = work[r].cert /\ w.data = x
    BY <1>1, <2>3, <2>4 DEF Work
  <2>7. w.litter = work[r].litter
    BY <1>1 DEF Work
  <2> HIDE DEF w
  <2>8. \A c \in csrs : c.by = r => CsrGood(c, "put", w)
    BY <1>2, <2>6, <2>7 DEF CsrGood, Preparing
  <2>9. CauseGood("put", w)
    BY <1>1, <2>3, <2>6 DEF CauseGood, Preparing, Finishing, Using
  <2>10. CaGood("put", w)
    BY <1>1, <2>3, <2>6 DEF CaGood, Preparing, Holding, Finishing, Using
  <2>11. "put" \in Pc /\ pc[r] \in Active
    BY <1>1 DEF Pc, Active, Finishing
  <2> QED BY <1>1, <2>1, <2>5, <2>6, <2>8, <2>9, <2>10, <2>11, LoginStep
<1> QED BY <1>3, <1>4

LEMMA FailKeeps ==
  ASSUME IInv, NEW r \in Req, Fail(r)
  PROVE  IInv'
<1>1. /\ work[r] \in Work /\ csrs \subseteq Csr /\ UNCHANGED <<now, ca, known, restarts, cache>>
  BY OfLogin DEF Fail, cluster
<1>2. ASSUME pc[r] \in {"fetch", "create", "put", "sign"}, End(r, "refused", "failed", FALSE), UNCHANGED csrs
      PROVE  IInv'
  <2> DEFINE w == Ended(work[r], "failed", FALSE)
  <2>1. Closes(work[r], "failed", w) /\ (work[r].litter => w.litter)
    BY <1>1, EndedTyped, EndedLitter
  <2> HIDE DEF w
  <2>2. \A c \in csrs : c.by = r => work[r].litter /\ CsrGood(c, pc[r], work[r])
    BY <1>2, OfLogin DEF CsrGood, Holding, Preparing
  <2>3. \A c \in csrs : c.by = r => CsrGood(c, "refused", w)
    BY <2>1, <2>2 DEF CsrGood, Closes, Preparing
  <2> QED BY <1>1, <1>2, <2>3, EndKeeps DEF w
<1>3. ASSUME pc[r] \in {"approve", "wait"}, Goto(r, "delete"),
             work' = [work EXCEPT ![r].cause = "failed", ![r].since = 0],
             UNCHANGED csrs \/ \E c \in Own(r) : Becomes(c, "approved", 0, 0)
      PROVE  IInv'
  <2> DEFINE w == [work[r] EXCEPT !.cause = "failed", !.since = 0]
  <2>1. Changes(r, "delete", w)
    BY <1>1, <1>3 DEF Changes, Goto
  <2>2. w \in Work /\ w.asked = work[r].asked /\ w.calm = work[r].calm /\ w.cause = "failed"
    BY <1>1 DEF Work
  <2> HIDE DEF w
  <2>3. \A c \in csrs : c.by = r => CsrGood(c, "delete", w)
    BY <1>3, <2>2, CsrsStay DEF Preparing, Holding
  <2>4. /\ csrs' \subseteq Csr
        /\ \A c \in csrs' : c.by # r => c \in csrs
        /\ \A c \in csrs' : c.by = r => CsrGood(c, "delete", w)
    <3>1. CASE UNCHANGED csrs
      BY <1>1, <2>3, <3>1
    <3>2. CASE \E c \in Own(r) : Becomes(c, "approved", 0, 0)
      <4>1. PICK c \in csrs : c.name = Name(r) /\ Becomes(c, "approved", 0, 0)
        BY <3>2 DEF Own
      <4>2. c.by = r
        BY <1>1, <4>1 DEF IInv, CsrInv, CsrGood, Name, Csr
      <4>3. PICK d \in Csr : csrs' = (csrs \ {c}) \cup {d} /\ Fields(d, c, "approved", 0, 0)
        BY <1>1, <4>1, BecomesFields
      <4>4. CsrGood(d, "delete", w)
        <5>1. CsrGood(c, "delete", w) /\ w.asked \in Nat
          BY <2>2, <2>3, <4>2, AskedNat
        <5> QED BY <4>3, <5>1 DEF CsrGood, Fields
      <4> QED BY <1>1, <2>3, <4>2, <4>3, <4>4 DEF Fields
    <3> QED BY <1>3, <3>1, <3>2
  <2>5. CauseGood("delete", w) /\ CaGood("delete", w)
    <3>1. CauseGood(pc[r], work[r]) /\ CaGood(pc[r], work[r])
      BY OfLogin
    <3> QED BY <1>3, <2>2, <3>1 DEF CauseGood, CaGood, Preparing, Holding, Finishing, Using
  <2>6. "delete" \in Pc /\ pc[r] \in Active /\ "delete" \notin Using
    BY <1>3 DEF Pc, Active, Holding, Using
  <2> QED BY <1>1, <2>1, <2>2, <2>4, <2>5, <2>6, LoginStep
<1> QED BY <1>2, <1>3 DEF Fail

LEMMA FillKeeps ==
  ASSUME IInv, NEW r \in Req, Fill(r)
  PROVE  IInv'
<1>1. /\ pc[r] = "fill" /\ work[r] \in Work /\ csrs' = csrs /\ UNCHANGED <<now, ca, known, restarts>>
      /\ CauseGood("fill", work[r]) /\ CaGood("fill", work[r])
  BY OfLogin DEF Fill, cluster
<1>2. PICK half \in work[r].todo :
        /\ cache' = [cache EXCEPT ![half] = work[r].fetched]
        /\ IF work[r].todo = {half}
           THEN Goto(r, "create") /\ work' = [work EXCEPT ![r].todo = {}, ![r].fetched = None]
           ELSE work' = [work EXCEPT ![r].todo = @ \ {half}] /\ UNCHANGED pc
  BY DEF Fill
<1>3. PICK p, w : /\ pc' = [pc EXCEPT ![r] = p] /\ work' = [work EXCEPT ![r] = w]
                  /\ w \in Work /\ w.asked = work[r].asked /\ w.cause = work[r].cause /\ w.calm = work[r].calm
                  /\ \/ p = "create" /\ work[r].todo = {half}
                     \/ p = "fill" /\ w.fetched = work[r].fetched /\ w.todo = work[r].todo \ {half}
  <2>1. CASE work[r].todo = {half}
    <3> DEFINE w == [work[r] EXCEPT !.todo = {}, !.fetched = None]
    <3>1. w \in Work /\ w.asked = work[r].asked /\ w.cause = work[r].cause /\ w.calm = work[r].calm
      BY <1>1 DEF Work, Word
    <3>2. pc' = [pc EXCEPT ![r] = "create"] /\ work' = [work EXCEPT ![r] = w]
      BY <1>2, <2>1 DEF Goto
    <3> QED BY <2>1, <3>1, <3>2
  <2>2. CASE work[r].todo # {half}
    <3> DEFINE rest == work[r].todo \ {half}
               w == [work[r] EXCEPT !.todo = rest]
    <3>1. rest \in SUBSET {"ptr", "len"}
      BY <1>1 DEF Work
    <3>2. work' = [work EXCEPT ![r] = w]
      BY <1>2, <2>2
    <3> HIDE DEF rest
    <3>3. /\ w \in Work /\ w.asked = work[r].asked /\ w.cause = work[r].cause /\ w.calm = work[r].calm
          /\ w.fetched = work[r].fetched /\ w.todo = rest
      BY <1>1, <3>1 DEF Work
    <3>4. pc' = [pc EXCEPT ![r] = "fill"]
      BY <1>1, <1>2, <2>2 DEF IInv, TypeOK
    <3> QED BY <3>2, <3>3, <3>4 DEF rest
  <2> QED BY <2>1, <2>2
<1>4. /\ pc \in [Req -> Pc] /\ work \in [Req -> Work]
      /\ pc' \in [Req -> Pc] /\ work' \in [Req -> Work]
      /\ pc'[r] = p /\ work'[r] = w
      /\ \A q \in Req : q # r => pc'[q] = pc[q] /\ work'[q] = work[q]
  BY <1>3 DEF IInv, TypeOK, Pc, Active, Preparing
<1>5. work[r].fetched \in known /\ half \in {"ptr", "len"}
  BY <1>1, <1>2 DEF CaGood, Work
<1>6. /\ cache' \in [{"ptr", "len"} -> Word] /\ cache'["ptr"] \in known \cup {None} /\ cache'["len"] \in known \cup {None}
      /\ half = "len" => cache'["len"] # None
      /\ cache["len"] # None => cache'["len"] # None
  <2>1. cache \in [{"ptr", "len"} -> Word] /\ known \subseteq Ca
    BY DEF IInv, TypeOK
  <2> QED BY <1>2, <1>5, <2>1, CaTaken DEF Word
<1>7. CauseInv'
  <2>1. CauseGood(p, w)
    BY <1>1, <1>3 DEF CauseGood, Preparing, Finishing, Using
  <2> QED BY <1>4, <2>1 DEF IInv, CauseInv
<1>8. TypeOK'
  <2>1. \A q \in Req : pc'[q] \in Finishing => work'[q].cert # 0 /\ work'[q].cause = "none"
    BY <1>7 DEF CauseInv, CauseGood
  <2>2. \A q \in Req : pc'[q] \in Using => work'[q].data # None
    BY <1>7 DEF CauseInv, CauseGood
  <2> QED BY <1>1, <1>4, <1>6, <2>1, <2>2 DEF IInv, TypeOK, Pc, Using
<1>9. CsrInv'
  <2>1. \A c \in csrs : c.by \in Req /\ c.by # r
    BY <1>1, NoneYet DEF Preparing, IInv, TypeOK, Csr
  <2> QED BY <1>1, <1>4, <2>1 DEF IInv, CsrInv, CsrGood, Name
<1>10. CaInv'
  <2>1. CaGood(p, w)'
    BY <1>1, <1>3, <1>5, <1>6 DEF CaGood, Preparing, Holding, Finishing, Using
  <2>2. \A q \in Req : q # r => CaGood(pc[q], work[q])'
    BY <1>1, <1>4, <1>6 DEF IInv, CaInv, CaGood
  <2>3. CacheGood'
    BY <1>1, <1>6 DEF IInv, CaInv, CacheGood
  <2> QED BY <1>4, <2>1, <2>2, <2>3 DEF CaInv, CaGood
<1>11. CalmInv'
  <2>1. r \in Filling
    BY <1>1 DEF Filling
  <2>2. \A q \in Req : pc[q] \in Active => work[q].calm = None
    BY <2>1 DEF IInv, CalmInv, CalmGood
  <2>3. \A q \in Req : pc'[q] \in Active => work'[q].calm = None
    BY <1>1, <1>3, <1>4, <2>2 DEF Active, Preparing
  <2> QED BY <2>3 DEF CalmInv, CalmGood
<1> QED BY <1>7, <1>8, <1>9, <1>10, <1>11 DEF IInv

\* A login moves: whichever call it makes, the invariant stays.
LEMMA LoginKeeps ==
  ASSUME IInv, NEW r \in Req, Login(r)
  PROVE  IInv'
BY BeginKeeps, FetchKeeps, FillKeeps, CreateKeeps, CreateLostKeeps, ApproveKeeps, WaitRefusedKeeps,
   WaitIssuedKeeps, DeleteKeeps, AssembleKeeps, PutKeeps, MeasureKeeps, SuccessKeeps, FailKeeps DEF Login

--------------------------------------------------------------------------------
(* The steps of others *)

LEMMA SignKeeps ==
  ASSUME IInv, NEW c \in csrs, Sign(c)
  PROVE  IInv'
<1>1. /\ csrs \subseteq Csr /\ now \in Nat /\ c \in Csr /\ c.by \in Req
      /\ UNCHANGED <<now, ca, known, restarts, cache, pc, work>>
  BY DEF IInv, TypeOK, Sign, cluster, Csr
<1>2. CsrGood(c, pc[c.by], work[c.by]) /\ work[c.by].asked \in Nat
  BY <1>1, OfLogin, AskedNat
<1>3. \E d \in Csr : /\ csrs' = (csrs \ {c}) \cup {d}
                     /\ d.name = c.name /\ d.by = c.by /\ d.seconds = c.seconds
                     /\ d.notAfter <= d.at + work[c.by].asked
                     /\ d.status = "issued" => d.notAfter # 0
  <2>1. CASE Becomes(c, "failed", 0, 0)
    <3>1. PICK d \in Csr : csrs' = (csrs \ {c}) \cup {d} /\ Fields(d, c, "failed", 0, 0)
      BY <1>1, <2>1, BecomesFields
    <3> QED BY <1>2, <3>1 DEF Fields
  <2>2. CASE Becomes(c, "issued", now, now + Lesser(c.seconds * Second, SignerMax))
    <3> DEFINE asks == c.seconds * Second
               life == Lesser(asks, SignerMax)
    <3>1. SignerMax \in Nat \ {0} /\ Second \in Nat \ {0}
      BY IssuanceAssumption
    <3>2. c.seconds \in Int /\ c.seconds > 0
      BY <1>1, <1>2 DEF CsrGood, Csr
    <3>3. asks \in Int /\ asks > 0 /\ asks <= work[c.by].asked
      BY <1>2, <3>1, <3>2 DEF CsrGood
    <3> HIDE DEF asks
    <3>4. life \in Nat /\ life > 0 /\ life <= work[c.by].asked
      BY <1>2, <3>1, <3>3 DEF Lesser
    <3>5. Becomes(c, "issued", now, now + life)
      BY <2>2 DEF asks
    <3> HIDE DEF life
    <3>6. now + life \in Nat /\ now + life # 0 /\ now + life <= now + work[c.by].asked
      BY <1>1, <1>2, <3>4
    <3>7. PICK d \in Csr : csrs' = (csrs \ {c}) \cup {d} /\ Fields(d, c, "issued", now, now + life)
      BY <1>1, <3>5, <3>6, BecomesFields
    <3> QED BY <3>6, <3>7 DEF Fields
  <2> QED BY <2>1, <2>2 DEF Sign
<1>4. PICK d \in Csr : /\ csrs' = (csrs \ {c}) \cup {d}
                       /\ d.name = c.name /\ d.by = c.by /\ d.seconds = c.seconds
                       /\ d.notAfter <= d.at + work[c.by].asked
                       /\ d.status = "issued" => d.notAfter # 0
  BY <1>3
<1>5. CsrInv'
  <2>1. CsrGood(d, pc[d.by], work[d.by])
    BY <1>2, <1>4 DEF CsrGood
  <2> QED BY <1>1, <1>4, <2>1 DEF IInv, CsrInv, CsrGood, Name
<1>6. TypeOK'
  <2>1. csrs' \subseteq Csr
    BY <1>1, <1>4
  <2> QED BY <1>1, <2>1 DEF IInv, TypeOK
<1>7. CauseInv' /\ CaInv' /\ CalmInv'
  BY <1>1 DEF IInv, CauseInv, CauseGood, CaInv, CaGood, CacheGood, CalmInv, CalmGood, Filling
<1> QED BY <1>5, <1>6, <1>7 DEF IInv

LEMMA TickKeeps ==
  ASSUME IInv, Tick
  PROVE  IInv'
<1>1. now' = now + 1 /\ UNCHANGED <<ca, known, restarts, cache, csrs, pc, work>>
  BY DEF Tick, cluster
<1>2. TypeOK'
  BY <1>1 DEF IInv, TypeOK
<1>3. CsrInv' /\ CauseInv' /\ CaInv' /\ CalmInv'
  BY <1>1 DEF IInv, CsrInv, CsrGood, CauseInv, CauseGood, CaInv, CaGood, CacheGood, CalmInv, CalmGood, Filling, Name
<1> QED BY <1>2, <1>3 DEF IInv

LEMMA RotateCaKeeps ==
  ASSUME IInv, RotateCa
  PROVE  IInv'
<1>1. PICK c \in Ca \ known : ca' = c /\ known' = known \cup {c}
  BY DEF RotateCa
<1>2. UNCHANGED <<now, cache, csrs, pc, work, restarts>>
  BY DEF RotateCa
<1>3. TypeOK'
  BY <1>1, <1>2 DEF IInv, TypeOK
<1>4. IsFiniteSet(known')
  BY <1>1, FS_AddElement DEF IInv, CaInv, CacheGood
<1>5. CaInv'
  BY <1>1, <1>2, <1>4 DEF IInv, CaInv, CaGood, CacheGood
<1>6. CsrInv' /\ CauseInv' /\ CalmInv'
  BY <1>2 DEF IInv, CsrInv, CsrGood, CauseInv, CauseGood, CalmInv, CalmGood, Filling, Name
<1> QED BY <1>3, <1>5, <1>6 DEF IInv

LEMMA RestartKeeps ==
  ASSUME IInv, Restart
  PROVE  IInv'
<1>1. /\ restarts < MaxRestarts /\ restarts' = restarts + 1
      /\ cache' = [half \in {"ptr", "len"} |-> None] /\ known' = {ca}
      /\ UNCHANGED <<now, ca, csrs>>
      /\ pc' = [r \in Req |-> IF pc[r] \in Active THEN "lost" ELSE pc[r]]
      /\ work' = [r \in Req |-> IF pc[r] \in Active THEN Ended(work[r], "none", TRUE) ELSE work[r]]
  BY DEF Restart
<1>2. \A r \in Req : pc[r] \in Pc /\ work[r] \in Work
  BY OfLogin
<1>3. \A r \in Req : /\ work'[r] \in Work /\ work'[r].asked = work[r].asked
                     /\ pc[r] \in Active => work'[r].cause = "none" /\ work'[r].litter
                     /\ pc[r] \notin Active => work'[r] = work[r]
  <2> TAKE r \in Req
  <2> DEFINE w == Ended(work[r], "none", TRUE)
  <2>1. CASE pc[r] \in Active
    <3>1. w \in Work /\ Closes(work[r], "none", w)
      BY <1>2, EndedTyped
    <3>2. w.litter
      BY <1>2, EndedLitter
    <3>3. work'[r] = w
      BY <1>1, <2>1
    <3> HIDE DEF w
    <3> QED BY <2>1, <3>1, <3>2, <3>3 DEF Closes
  <2>2. CASE pc[r] \notin Active
    BY <1>1, <1>2, <2>2
  <2> QED BY <2>1, <2>2
<1>4. \A r \in Req : pc'[r] \in Pc \ Active /\ (pc[r] \notin Active => pc'[r] = pc[r])
                     /\ (pc[r] \in Active => pc'[r] = "lost")
  BY <1>1, <1>2 DEF Pc, Active, Preparing, Holding, Finishing
<1>5. \A r \in Req : pc'[r] \notin Preparing /\ pc'[r] \notin Holding /\ pc'[r] \notin Finishing
  BY <1>4 DEF Active
<1>6. TypeOK'
  <2>1. restarts' \in 0..MaxRestarts
    BY <1>1, IssuanceAssumption DEF IInv, TypeOK
  <2>2. ca' \in known' /\ known' \subseteq Ca /\ cache' \in [{"ptr", "len"} -> Word]
    BY <1>1 DEF IInv, TypeOK, Word
  <2>3. pc' \in [Req -> Pc]
    BY <1>1, <1>4
  <2>4. work' \in [Req -> Work]
    BY <1>1, <1>3
  <2>5. now' \in Nat /\ csrs' \subseteq Csr
    BY <1>1 DEF IInv, TypeOK
  <2> QED BY <1>5, <2>1, <2>2, <2>3, <2>4, <2>5 DEF TypeOK, Pc, Finishing
<1>7. CsrInv'
  <2> SUFFICES ASSUME NEW c \in csrs PROVE CsrGood(c, pc'[c.by], work'[c.by])
    BY <1>1 DEF CsrInv, CsrGood, Name
  <2>1. c.by \in Req /\ CsrGood(c, pc[c.by], work[c.by])
    BY DEF IInv, TypeOK, CsrInv, Csr
  <2>2. pc'[c.by] # "idle"
    BY <1>4, <2>1 DEF CsrGood
  <2>3. work'[c.by].litter
    <3>1. CASE pc[c.by] \in Active
      BY <1>3, <2>1, <3>1
    <3>2. CASE pc[c.by] \notin Active
      <4>1. work[c.by].litter
        BY <2>1, <3>2 DEF CsrGood, Active
      <4> QED BY <1>3, <2>1, <3>2, <4>1
    <3> QED BY <3>1, <3>2
  <2> QED BY <1>3, <1>5, <2>1, <2>2, <2>3 DEF CsrGood
<1>8. CauseInv'
  <2> SUFFICES ASSUME NEW r \in Req PROVE CauseGood(pc'[r], work'[r])
    BY DEF CauseInv, CauseGood, Inexpressible, Lesser
  <2>1. CauseGood(pc[r], work[r])
    BY OfLogin
  <2> QED BY <1>3, <1>4, <1>5, <2>1 DEF CauseGood, Using, Finishing, Holding
<1>9. CaInv'
  <2>1. CacheGood'
    BY <1>1, FS_Singleton DEF CacheGood
  <2>2. \A r \in Req : CaGood(pc[r], work[r])'
    BY <1>5 DEF CaGood, Preparing, Holding, Finishing, Using
  <2> QED BY <2>1, <2>2 DEF CaInv
<1>10. CalmInv'
  BY <1>4 DEF CalmInv, CalmGood
<1> QED BY <1>6, <1>7, <1>8, <1>9, <1>10 DEF IInv

--------------------------------------------------------------------------------
(* The theorems *)

LEMMA InitHolds ==
  ASSUME Init
  PROVE  IInv
<1>1. PICK c \in Ca : ca = c /\ known = {c}
  BY DEF Init
<1>2. /\ now = 0 /\ restarts = 0 /\ csrs = {} /\ cache = [half \in {"ptr", "len"} |-> None]
      /\ pc = [r \in Req |-> "idle"] /\ work = [r \in Req |-> NoWork]
  BY DEF Init
<1>3. NoWork \in Work /\ NoWork.cause = "none" /\ NoWork.calm = None
  BY NoWorkTyped DEF NoWork
<1>4. TypeOK
  <2>1. 0 \in 0..MaxRestarts
    BY IssuanceAssumption
  <2> QED BY <1>1, <1>2, <1>3, <2>1 DEF TypeOK, Word, Finishing
<1>5. CsrInv /\ CauseInv /\ CalmInv
  BY <1>2, <1>3 DEF CsrInv, CauseInv, CauseGood, CalmInv, CalmGood, Finishing, Using
<1>6. CaInv
  BY <1>1, <1>2, FS_Singleton DEF CaInv, CacheGood, CaGood, Holding, Finishing, Using
<1> QED BY <1>4, <1>5, <1>6 DEF IInv

LEMMA StepKeeps ==
  ASSUME IInv, [Next]_vars
  PROVE  IInv'
<1>1. CASE Next
  BY <1>1, TickKeeps, RotateCaKeeps, RestartKeeps, LoginKeeps, SignKeeps DEF Next
<1>2. CASE UNCHANGED vars
  <2>1. UNCHANGED <<now, ca, known, cache, csrs, pc, work, restarts>>
    BY <1>2 DEF vars
  <2>2. TypeOK'
    BY <2>1 DEF IInv, TypeOK
  <2> QED BY <2>1, <2>2 DEF IInv, CsrInv, CsrGood, CauseInv, CauseGood, CaInv, CaGood, CacheGood, CalmInv, CalmGood,
                        Filling, Name
<1> QED BY <1>1, <1>2

\* What the logins of a process keep true of their CSRs, their certificates and the
\* CA they share, whoever interleaves.
THEOREM Invariance == Spec => []IInv
<1>1. Init => IInv
  BY InitHolds
<1>2. IInv /\ [Next]_vars => IInv'
  BY StepKeeps
<1> QED BY <1>1, <1>2, PTL DEF Spec

\* Every state is well typed, and no login goes on without a certificate and a CA
\* (generateCertAndClusterInfo).
THEOREM TypeCorrect == Spec => []TypeOK
<1>1. IInv => TypeOK
  BY DEF IInv
<1> QED BY <1>1, Invariance, PTL

\* No login is refused for another's CSR or without a failure of its own, and a
\* duration is refused only when the API can't express it
\* (NewCertificateSigningRequest).
THEOREM RefusalsCaused == Spec => []RefusedForCause
<1>1. IInv => RefusedForCause
  BY DEF IInv, CauseInv, CauseGood, RefusedForCause, Inexpressible
<1> QED BY <1>1, Invariance, PTL

\* No CSR is left behind unless its creation or deletion was not answered or the
\* process ended (generateClientCertAndKey).
THEOREM CsrsDeleted == Spec => []CsrsCleanedUp
<1>1. IInv => CsrsCleanedUp
  BY DEF IInv, CsrInv, CsrGood, CsrsCleanedUp
<1> QED BY <1>1, Invariance, PTL

\* A login takes a CA the cluster had, whole unless the CA was rotated, and the one
\* in the cache if that was at rest (issue).
THEOREM CaRight == Spec => []CaOfCluster
<1>1. ASSUME IInv PROVE CaOfCluster
  <2> SUFFICES ASSUME NEW r \in Req, pc[r] \in Using
               PROVE  /\ work[r].data \in known \cup {Garbled}
                      /\ work[r].data = Garbled => Cardinality(known) > 1
                      /\ work[r].calm # None => work[r].data = work[r].calm
    BY DEF CaOfCluster, Using
  <2>1. CaGood(pc[r], work[r]) /\ CalmGood(pc[r], work[r])
    BY <1>1, OfLogin
  <2>2. work[r].data = Garbled => Cardinality(known) > 1
    <3> SUFFICES ASSUME NEW c \in known, NEW d \in known, c # d
                 PROVE  Cardinality(known) > 1
      BY <2>1 DEF CaGood
    <3>1. IsFiniteSet({c}) /\ Cardinality({c}) = 1
      BY FS_Singleton
    <3>2. IsFiniteSet({c} \cup {d}) /\ Cardinality({c} \cup {d}) = 2
      BY <3>1, FS_AddElement
    <3>3. IsFiniteSet(known)
      BY <1>1 DEF IInv, CaInv, CacheGood
    <3>4. Cardinality({c} \cup {d}) <= Cardinality(known)
      BY <3>3, FS_Subset
    <3>5. Cardinality(known) \in Nat
      BY <3>3, FS_CardinalityType
    <3> QED BY <3>2, <3>4, <3>5
  <2> QED BY <2>1, <2>2 DEF CaGood, CalmGood, Active, Finishing, Using
<1>2. IInv => CaOfCluster
  BY <1>1
<1> QED BY <1>2, Invariance, PTL

\* No certificate is longer than asked for, and a token outlives its certificate by
\* no more than the time between two readings of the clock (tokenDuration).
THEOREM LifetimesBounded == Spec => []WithinAsked
<1>1. ASSUME IInv PROVE WithinAsked
  <2>1. \A c \in csrs : c.notAfter <= c.at + work[c.by].asked
    BY <1>1 DEF IInv, CsrInv, CsrGood
  <2>2. ASSUME NEW r \in Req, pc[r] = "sign"
        PROVE  Expiry(r) <= Lesser(work[r].cert, work[r].read + work[r].asked) + (now - work[r].read)
    <3>1. work[r].life = Lesser(work[r].asked, work[r].cert - work[r].read)
      BY <1>1, <2>2, OfLogin DEF CauseGood
    <3>2. work[r].asked \in Nat /\ work[r].cert \in Nat
      BY <1>1, OfLogin, AskedNat
    <3>3. work[r] \in Work /\ now \in Nat
      BY <1>1 DEF IInv, TypeOK
    <3>4. work[r].read \in Nat
      BY <3>3 DEF Work
    <3> QED BY <3>1, <3>2, <3>3, <3>4 DEF Expiry, Lesser
  <2> QED BY <2>1, <2>2 DEF WithinAsked
<1>2. IInv => WithinAsked
  BY <1>1
<1> QED BY <1>2, Invariance, PTL

--------------------------------------------------------------------------------
(* Refinement: Issuance implements Minting *)

\* A login that has asked for nothing has no duration, one that approves a CSR has
\* one nobody signed yet, and one that has a certificate has only to delete its CSR.
CertGood(r) ==
  /\ pc[r] = "idle" => work[r].asked = 0
  /\ pc[r] = "approve" => \A c \in csrs : c.by = r => c.status = "pending"
  /\ work[r].cert # 0 => pc[r] \in {"delete"} \cup Finishing

MintInv ==
  /\ \A c, d \in csrs : c.by = d.by => c = d
  /\ \A r \in Req : CertGood(r)

\* What a login's step leaves alone.
Alone(r) ==
  /\ now' = now
  /\ pc' = [pc EXCEPT ![r] = pc'[r]] /\ work' = [work EXCEPT ![r] = work'[r]]
  /\ {c \in csrs' : c.by # r} = {c \in csrs : c.by # r}
  /\ pc'[r] # "idle"

\* The CSRs a login's step leaves it.
Leaves(r) ==
  /\ \A c, d \in csrs' : c.by = r /\ d.by = r => c = d
  /\ pc'[r] = "approve" => \A c \in csrs' : c.by = r => c.status = "pending"

\* What a login's step makes of its certificate.
Begins(r)  == pc[r] = "idle" /\ pc'[r] \in Preparing /\ work'[r].cert = 0 /\ csrs' = csrs
Waits(r)   == /\ pc[r] \in Preparing \cup {"approve", "wait"} /\ pc'[r] \in Preparing \cup Holding
              /\ work'[r].cert = work[r].cert /\ Issued(r)' = Issued(r)
Takes(r)   == /\ pc[r] = "wait" /\ pc'[r] = "delete"
              /\ Issued(r) = {work'[r].cert} /\ work'[r].cert # 0 /\ csrs' = csrs
Brings(r)  == /\ \/ pc[r] = "delete" /\ pc'[r] = "assemble"
                 \/ pc[r] = "assemble" /\ pc'[r] = "put"
                 \/ pc[r] = "put" /\ pc'[r] = "measure"
                 \/ pc[r] = "measure" /\ pc'[r] = "sign"
              /\ work[r].cert # 0 /\ work'[r].cert = work[r].cert
Ends(r)    == /\ \/ pc[r] \in Active /\ pc'[r] \in {"refused", "aborted"}
                 \/ pc[r] = "sign" /\ pc'[r] = "answered"
              /\ work'[r].cert = 0
Moves(r)   == \/ Begins(r)
              \/ work'[r].asked = work[r].asked /\ (Waits(r) \/ Takes(r) \/ Brings(r) \/ Ends(r))

\* A login that is over has no certificate.
LEMMA EndedCert ==
  ASSUME NEW w \in Work, NEW cause \in {"none", "failed", "duration", "signer"}, NEW litter \in BOOLEAN
  PROVE  Ended(w, cause, litter).cert = 0 /\ Ended(w, cause, litter).asked = w.asked
<1> DEFINE l == w.litter \/ litter
           e == [NoWork EXCEPT !.asked = w.asked, !.cause = cause, !.litter = l]
<1>1. Ended(w, cause, litter) = e
  BY Zenon DEF Ended
<1>2. NoWork.cert = 0
  BY DEF NoWork
<1>3. e.cert = NoWork.cert /\ e.asked = w.asked
  BY NoWorkTyped DEF Work
<1> HIDE DEF e
<1> QED BY <1>1, <1>2, <1>3

\* A login's own CSR is one it created.
LEMMA OwnBy ==
  ASSUME IInv, NEW r \in Req
  PROVE  /\ csrs \subseteq Csr
         /\ \A c \in csrs : c \in Own(r) <=> c.by = r
<1>1. \A c \in csrs : c.by \in Req /\ c.name = Name(c.by)
  BY DEF IInv, CsrInv, CsrGood, TypeOK, Csr
<1> QED BY <1>1 DEF Own, Name, IInv, TypeOK

\* The CSRs stay, one of them is made, or one's status changes, or one's are deleted.
LEMMA SameCsrs ==
  ASSUME MintInv, NEW r \in Req, csrs' = csrs, pc'[r] # "approve"
  PROVE  Leaves(r) /\ {c \in csrs' : c.by # r} = {c \in csrs : c.by # r} /\ Issued(r)' = Issued(r)
BY DEF MintInv, Leaves, Issued

LEMMA MadeCsr ==
  ASSUME IInv, NEW r \in Req, pc[r] = "create", NEW s \in ExpirationSeconds(work[r].asked),
         csrs' = csrs \cup {NewCsr(r, s)}
  PROVE  Leaves(r) /\ {c \in csrs' : c.by # r} = {c \in csrs : c.by # r} /\ Issued(r)' = Issued(r)
<1>1. \A c \in csrs : c.by # r
  BY NoneYet DEF Preparing
<1>2. NewCsr(r, s).by = r /\ NewCsr(r, s).status = "pending"
  BY DEF NewCsr
<1> QED BY <1>1, <1>2 DEF Leaves, Issued

LEMMA ApprovedCsr ==
  ASSUME IInv, MintInv, NEW r \in Req, pc[r] = "approve", pc'[r] # "approve",
         NEW c \in Own(r), Becomes(c, "approved", 0, 0)
  PROVE  Leaves(r) /\ {d \in csrs' : d.by # r} = {d \in csrs : d.by # r} /\ Issued(r)' = Issued(r)
<1>1. c \in csrs /\ c.by = r /\ csrs \subseteq Csr
  BY OwnBy DEF Own
<1>2. PICK d \in Csr : csrs' = (csrs \ {c}) \cup {d} /\ Fields(d, c, "approved", 0, 0)
  BY <1>1, BecomesFields
<1>3. \A e \in csrs : e.by = r => e = c /\ e.status = "pending"
  BY <1>1 DEF MintInv, CertGood
<1>4. d.by = r /\ d.status = "approved"
  BY <1>1, <1>2 DEF Fields
<1> QED BY <1>1, <1>2, <1>3, <1>4 DEF Leaves, Issued

\* A login that ends.
LEMMA EndMoves ==
  ASSUME IInv, NEW r \in Req, pc[r] \in Active, NEW how \in {"refused", "aborted", "answered"},
         how = "answered" => pc[r] = "sign",
         NEW cause \in {"none", "failed", "duration", "signer"}, NEW litter \in BOOLEAN,
         End(r, how, cause, litter), now' = now,
         {c \in csrs' : c.by # r} = {c \in csrs : c.by # r}
  PROVE  Alone(r) /\ Moves(r)
<1> DEFINE w == Ended(work[r], cause, litter)
<1>1. w.cert = 0 /\ w.asked = work[r].asked
  BY EndedCert, OfLogin
<1>2. pc' = [pc EXCEPT ![r] = how] /\ work' = [work EXCEPT ![r] = w]
  BY DEF End, Goto
<1> HIDE DEF w
<1>3. pc'[r] = how /\ work'[r] = w
  BY <1>2 DEF IInv, TypeOK
<1> QED BY <1>1, <1>2, <1>3 DEF Alone, Moves, Ends

\* A login that goes on, to p with w.
LEMMA GoesOn ==
  ASSUME IInv, NEW r \in Req, NEW p, NEW w, p # "idle",
         pc' = [pc EXCEPT ![r] = p], work' = [work EXCEPT ![r] = w], now' = now,
         {c \in csrs' : c.by # r} = {c \in csrs : c.by # r}
  PROVE  Alone(r) /\ pc'[r] = p /\ work'[r] = w
<1>1. pc'[r] = p /\ work'[r] = w
  BY DEF IInv, TypeOK
<1> QED BY <1>1 DEF Alone

\* Whichever call a login makes, it is one of these.
LEMMA LoginMoves ==
  ASSUME IInv, MintInv, NEW r \in Req, Login(r)
  PROVE  Alone(r) /\ Leaves(r) /\ Moves(r)
<1> DEFINE w == work[r]
<1>1. /\ pc[r] \in Pc /\ w \in Work /\ CauseGood(pc[r], w) /\ CertGood(r) /\ csrs \subseteq Csr
  BY OfLogin DEF MintInv
<1>2. CASE Begin(r)
  <2>1. PICK d, k : work' = [work EXCEPT ![r] = [NoWork EXCEPT !.asked = d, !.calm = k]]
    BY <1>2 DEF Begin
  <2>2. NoWork.cert = 0 /\ [NoWork EXCEPT !.asked = d, !.calm = k].cert = NoWork.cert
    BY DEF NoWork
  <2>3. PICK p \in {"fetch", "create"} : pc' = [pc EXCEPT ![r] = p]
    BY <1>2 DEF Begin, Goto
  <2> DEFINE v == [NoWork EXCEPT !.asked = d, !.calm = k]
  <2> HIDE DEF v
  <2>4. Alone(r) /\ pc'[r] = p /\ work'[r] = v
    BY <1>2, <2>1, <2>3, GoesOn DEF Begin, v
  <2>5. v.cert = 0
    BY <2>2 DEF v
  <2>6. Leaves(r)
    BY <1>2, <2>3, <2>4, SameCsrs DEF Begin
  <2> QED BY <1>2, <2>3, <2>4, <2>5, <2>6 DEF Begin, Moves, Begins, Preparing
<1>3. CASE Fetch(r)
  <2> DEFINE v == [w EXCEPT !.fetched = ca, !.todo = {"ptr", "len"}]
  <2>1. v.cert = w.cert /\ v.asked = w.asked
    BY <1>1 DEF Work
  <2>2. pc' = [pc EXCEPT ![r] = "fill"] /\ work' = [work EXCEPT ![r] = v]
    BY <1>3 DEF Fetch, Goto
  <2> HIDE DEF v
  <2>3. Alone(r) /\ pc'[r] = "fill" /\ work'[r] = v
    BY <1>3, <2>2, GoesOn DEF Fetch
  <2> QED BY <1>3, <2>1, <2>3, SameCsrs DEF Fetch, Moves, Waits, Preparing
<1>4. CASE Fill(r)
  <2>1. PICK half \in w.todo :
          IF w.todo = {half}
          THEN Goto(r, "create") /\ work' = [work EXCEPT ![r].todo = {}, ![r].fetched = None]
          ELSE work' = [work EXCEPT ![r].todo = @ \ {half}] /\ UNCHANGED pc
    BY <1>4 DEF Fill
  <2>2. \E p \in {"create", "fill"} : \E v : /\ pc' = [pc EXCEPT ![r] = p] /\ work' = [work EXCEPT ![r] = v]
                                            /\ v.cert = w.cert /\ v.asked = w.asked
    <3>1. CASE w.todo = {half}
      <4> DEFINE v == [w EXCEPT !.todo = {}, !.fetched = None]
      <4>1. v.cert = w.cert /\ v.asked = w.asked
        BY <1>1 DEF Work
      <4>2. pc' = [pc EXCEPT ![r] = "create"] /\ work' = [work EXCEPT ![r] = v]
        BY <2>1, <3>1 DEF Goto
      <4> QED BY <4>1, <4>2
    <3>2. CASE w.todo # {half}
      <4> DEFINE v == [w EXCEPT !.todo = w.todo \ {half}]
      <4>1. v.cert = w.cert /\ v.asked = w.asked
        BY <1>1 DEF Work
      <4>2. work' = [work EXCEPT ![r] = v]
        BY <2>1, <3>2
      <4>3. pc' = [pc EXCEPT ![r] = "fill"]
        BY <1>4, <2>1, <3>2 DEF Fill, IInv, TypeOK
      <4> QED BY <4>1, <4>2, <4>3
    <3> QED BY <3>1, <3>2
  <2>3. PICK p, v : /\ p \in {"create", "fill"} /\ v.cert = w.cert /\ v.asked = w.asked
                    /\ pc' = [pc EXCEPT ![r] = p] /\ work' = [work EXCEPT ![r] = v]
    BY <2>2
  <2>4. Alone(r) /\ pc'[r] = p /\ work'[r] = v
    BY <1>4, <2>3, GoesOn DEF Fill
  <2> QED BY <1>4, <2>3, <2>4, SameCsrs DEF Fill, Moves, Waits, Preparing
<1>5. CASE Create(r)
  <2>1. PICK s \in ExpirationSeconds(w.asked) :
          \/ csrs' = csrs \cup {NewCsr(r, s)} /\ Goto(r, "approve") /\ UNCHANGED work
          \/ \E cause \in {"duration", "none"} : End(r, "refused", cause, FALSE) /\ UNCHANGED csrs
    BY <1>5 DEF Create
  <2>2. CASE csrs' = csrs \cup {NewCsr(r, s)} /\ Goto(r, "approve") /\ UNCHANGED work
    <3>1. Leaves(r) /\ {c \in csrs' : c.by # r} = {c \in csrs : c.by # r} /\ Issued(r)' = Issued(r)
      BY <1>5, <2>2, MadeCsr DEF Create
    <3>2. pc' = [pc EXCEPT ![r] = "approve"] /\ work' = [work EXCEPT ![r] = w]
      BY <2>2 DEF Goto, IInv, TypeOK
    <3>3. Alone(r) /\ pc'[r] = "approve" /\ work'[r] = w
      BY <1>5, <3>1, <3>2, GoesOn DEF Create
    <3> QED BY <1>5, <3>1, <3>3 DEF Create, Moves, Waits, Preparing, Holding
  <2>3. ASSUME NEW cause \in {"duration", "none"}, End(r, "refused", cause, FALSE), UNCHANGED csrs
        PROVE  Alone(r) /\ Leaves(r) /\ Moves(r)
    <3>1. Alone(r) /\ Moves(r)
      BY <1>5, <2>3, EndMoves DEF Create, Active, Preparing
    <3>2. pc'[r] = "refused"
      BY <2>3 DEF End, Goto, IInv, TypeOK
    <3> QED BY <2>3, <3>1, <3>2, SameCsrs
  <2> QED BY <2>1, <2>2, <2>3
<1>6. CASE CreateLost(r)
  <2>1. PICK s \in ExpirationSeconds(w.asked) : csrs' = csrs \cup {NewCsr(r, s)}
    BY <1>6 DEF CreateLost
  <2>2. Leaves(r) /\ {c \in csrs' : c.by # r} = {c \in csrs : c.by # r}
    BY <1>6, <2>1, MadeCsr DEF CreateLost
  <2> QED BY <1>6, <2>2, EndMoves DEF CreateLost, Active, Preparing
<1>7. CASE Approve(r)
  <2> DEFINE v == [w EXCEPT !.since = now]
  <2>1. v.cert = w.cert /\ v.asked = w.asked
    BY <1>1 DEF Work
  <2>2. pc' = [pc EXCEPT ![r] = "wait"] /\ work' = [work EXCEPT ![r] = v]
    BY <1>7 DEF Approve, Goto
  <2> HIDE DEF v
  <2>3. pc'[r] = "wait"
    BY <2>2 DEF IInv, TypeOK
  <2>4. Leaves(r) /\ {c \in csrs' : c.by # r} = {c \in csrs : c.by # r} /\ Issued(r)' = Issued(r)
    BY <1>7, <2>3, ApprovedCsr DEF Approve
  <2>5. now' = now
    BY <1>7 DEF Approve
  <2>6. Alone(r) /\ pc'[r] = "wait" /\ work'[r] = v
    BY <2>2, <2>4, <2>5, GoesOn
  <2> QED BY <1>7, <2>1, <2>3, <2>4, <2>6 DEF Approve, Moves, Waits, Holding
<1>8. CASE WaitRefused(r)
  <2> DEFINE v == [w EXCEPT !.cause = "signer", !.since = 0]
  <2>1. v.cert = w.cert /\ v.asked = w.asked
    BY <1>1 DEF Work
  <2>2. pc' = [pc EXCEPT ![r] = "delete"] /\ work' = [work EXCEPT ![r] = v]
    BY <1>8 DEF WaitRefused, Goto
  <2> HIDE DEF v
  <2>3. Alone(r) /\ pc'[r] = "delete" /\ work'[r] = v
    BY <1>8, <2>2, GoesOn DEF WaitRefused
  <2> QED BY <1>8, <2>1, <2>3, SameCsrs DEF WaitRefused, Moves, Waits, Holding
<1>9. CASE WaitIssued(r)
  <2>1. PICK c \in Own(r) : c.status = "issued" /\ work' = [work EXCEPT ![r].cert = c.notAfter, ![r].since = 0]
    BY <1>9 DEF WaitIssued
  <2> DEFINE v == [w EXCEPT !.cert = c.notAfter, !.since = 0]
  <2>2. c \in csrs /\ c.by = r /\ c.notAfter # 0 /\ c.notAfter \in Nat
    BY <2>1, OwnBy DEF Own, IInv, CsrInv, CsrGood, Csr
  <2>3. v.cert = c.notAfter /\ v.asked = w.asked
    BY <1>1 DEF Work
  <2>4. pc' = [pc EXCEPT ![r] = "delete"] /\ work' = [work EXCEPT ![r] = v]
    BY <1>9, <2>1 DEF WaitIssued, Goto
  <2> HIDE DEF v
  <2>5. Alone(r) /\ pc'[r] = "delete" /\ work'[r] = v
    BY <1>9, <2>4, GoesOn DEF WaitIssued
  <2>6. Issued(r) = {c.notAfter}
    BY <2>1, <2>2 DEF Issued, MintInv
  <2> QED BY <1>9, <2>2, <2>3, <2>5, <2>6, SameCsrs DEF WaitIssued, Moves, Takes
<1>10. CASE Delete(r)
  <2>1. PICK kept \in BOOLEAN :
          /\ csrs' = IF kept THEN csrs ELSE csrs \ Own(r)
          /\ \/ /\ w.cause = "none"
                /\ Goto(r, "assemble")
                /\ work' = [work EXCEPT ![r].litter = kept]
             \/ w.cause # "none" /\ End(r, "refused", w.cause, kept)
    BY <1>10 DEF Delete
  <2>2. csrs' \subseteq csrs /\ {c \in csrs' : c.by # r} = {c \in csrs : c.by # r}
    BY <2>1, OwnBy
  <2>3. pc'[r] \in {"assemble", "refused"}
    BY <2>1 DEF End, Goto, IInv, TypeOK
  <2>4. Leaves(r)
    BY <2>2, <2>3 DEF Leaves, MintInv
  <2>5. CASE w.cause = "none" /\ Goto(r, "assemble") /\ work' = [work EXCEPT ![r].litter = kept]
    <3> DEFINE v == [w EXCEPT !.litter = kept]
    <3>1. v.cert = w.cert /\ v.asked = w.asked /\ w.cert # 0
      BY <1>1, <1>10, <2>5 DEF Work, CauseGood, Delete
    <3>2. pc' = [pc EXCEPT ![r] = "assemble"] /\ work' = [work EXCEPT ![r] = v]
      BY <2>5 DEF Goto
    <3> HIDE DEF v
    <3>3. Alone(r) /\ pc'[r] = "assemble" /\ work'[r] = v
      BY <1>10, <2>2, <3>2, GoesOn DEF Delete
    <3> QED BY <1>10, <2>4, <3>1, <3>3 DEF Delete, Moves, Brings
  <2>6. CASE w.cause # "none" /\ End(r, "refused", w.cause, kept)
    <3>1. w.cause \in {"none", "failed", "duration", "signer"} /\ pc[r] \in Active /\ now' = now
      BY <1>1, <1>10 DEF Work, Delete, Active, Holding
    <3> QED BY <2>2, <2>4, <2>6, <3>1, EndMoves
  <2> QED BY <2>1, <2>5, <2>6
\* The certificate is there.
<1>11. ASSUME NEW p, NEW q, NEW v, pc[r] = p, <<p, q>> \in {<<"assemble", "put">>, <<"put", "measure">>, <<"measure", "sign">>},
              pc' = [pc EXCEPT ![r] = q], work' = [work EXCEPT ![r] = v],
              v.cert = w.cert, v.asked = w.asked, now' = now, csrs' = csrs
       PROVE  Alone(r) /\ Leaves(r) /\ Moves(r)
  <2>1. Alone(r) /\ pc'[r] = q /\ work'[r] = v
    BY <1>11, GoesOn
  <2>2. w.cert # 0
    BY <1>1, <1>11 DEF IInv, TypeOK, Finishing
  <2> QED BY <1>11, <2>1, <2>2, SameCsrs DEF Moves, Brings
<1>12. ASSUME NEW how \in {"refused", "aborted", "answered"}, NEW cause \in {"none", "failed"},
              End(r, how, cause, FALSE), pc[r] \in Active, how = "answered" => pc[r] = "sign",
              now' = now, csrs' = csrs
       PROVE  Alone(r) /\ Leaves(r) /\ Moves(r)
  <2>1. Alone(r) /\ Moves(r)
    BY <1>12, EndMoves
  <2>2. pc'[r] = how
    BY <1>12 DEF End, Goto, IInv, TypeOK
  <2> QED BY <1>12, <2>1, <2>2, SameCsrs
<1>13. CASE Assemble(r)
  <2>1. CASE End(r, "aborted", "none", FALSE)
    BY <1>12, <1>13, <2>1 DEF Assemble, Active, Finishing
  <2>2. CASE Goto(r, "put") /\ \E x : work' = [work EXCEPT ![r].data = x]
    <3>1. PICK x : work' = [work EXCEPT ![r].data = x]
      BY <2>2
    <3> DEFINE v == [w EXCEPT !.data = x]
    <3>2. v.cert = w.cert /\ v.asked = w.asked
      BY <1>1 DEF Work
    <3>3. pc' = [pc EXCEPT ![r] = "put"] /\ work' = [work EXCEPT ![r] = v]
      BY <2>2, <3>1 DEF Goto
    <3> HIDE DEF v
    <3> QED BY <1>11, <1>13, <3>2, <3>3 DEF Assemble
  <2> QED BY <1>13, <2>1, <2>2 DEF Assemble
<1>14. CASE Put(r)
  <2>1. pc' = [pc EXCEPT ![r] = "measure"] /\ work' = [work EXCEPT ![r] = w]
    BY <1>14 DEF Put, Goto, IInv, TypeOK
  <2> QED BY <1>11, <1>14, <2>1 DEF Put
<1>15. CASE Measure(r)
  <2> DEFINE l == tokenDuration(w.asked, w.cert)
             v == [w EXCEPT !.read = now, !.life = l]
  <2> HIDE DEF l
  <2>1. v.cert = w.cert /\ v.asked = w.asked
    BY <1>1 DEF Work
  <2>2. pc' = [pc EXCEPT ![r] = "sign"] /\ work' = [work EXCEPT ![r] = v]
    BY <1>15 DEF Measure, Goto, l
  <2> HIDE DEF v
  <2> QED BY <1>11, <1>15, <2>1, <2>2 DEF Measure
<1>16. CASE Success(r)
  BY <1>12, <1>16 DEF Success, Active, Finishing
<1>17. CASE Fail(r)
  <2>1. CASE pc[r] \in {"fetch", "create", "put", "sign"} /\ End(r, "refused", "failed", FALSE) /\ UNCHANGED csrs
    BY <1>12, <1>17, <2>1 DEF Fail, Active, Preparing, Finishing
  <2>2. CASE /\ pc[r] \in {"approve", "wait"}
             /\ Goto(r, "delete")
             /\ work' = [work EXCEPT ![r].cause = "failed", ![r].since = 0]
             /\ \/ UNCHANGED csrs
                \/ pc[r] = "approve" /\ \E c \in Own(r) : Becomes(c, "approved", 0, 0)
    <3> DEFINE v == [w EXCEPT !.cause = "failed", !.since = 0]
    <3>1. v.cert = w.cert /\ v.asked = w.asked
      BY <1>1 DEF Work
    <3>2. pc' = [pc EXCEPT ![r] = "delete"] /\ work' = [work EXCEPT ![r] = v]
      BY <2>2 DEF Goto
    <3> HIDE DEF v
    <3>3. pc'[r] = "delete"
      BY <3>2 DEF IInv, TypeOK
    <3>4. Leaves(r) /\ {c \in csrs' : c.by # r} = {c \in csrs : c.by # r} /\ Issued(r)' = Issued(r)
      BY <2>2, <3>3, SameCsrs, ApprovedCsr
    <3>5. now' = now
      BY <1>17 DEF Fail
    <3>6. Alone(r) /\ pc'[r] = "delete" /\ work'[r] = v
      BY <3>2, <3>4, <3>5, GoesOn
    <3> QED BY <2>2, <3>1, <3>3, <3>4, <3>6 DEF Moves, Waits, Holding
  <2> QED BY <1>17, <2>1, <2>2 DEF Fail
<1> QED
  BY <1>2, <1>3, <1>4, <1>5, <1>6, <1>7, <1>8, <1>9, <1>10, <1>13, <1>14, <1>15, <1>16, <1>17 DEF Login

\* MintInv is inductive.
LEMMA MintHolds == Init => MintInv
<1>1. NoWork.asked = 0 /\ NoWork.cert = 0
  BY DEF NoWork
<1> QED BY <1>1 DEF Init, MintInv, CertGood

LEMMA LoginKeepsMint ==
  ASSUME IInv, IInv', MintInv, NEW r \in Req, Login(r)
  PROVE  MintInv'
<1>1. Alone(r) /\ Leaves(r) /\ Moves(r)
  BY LoginMoves
<1>2. \A c : c.by # r => (c \in csrs' <=> c \in csrs)
  BY <1>1 DEF Alone
<1>3. \A c, d \in csrs' : c.by = d.by => c = d
  BY <1>1, <1>2 DEF Leaves, MintInv
<1>4. \A q \in Req : CertGood(q)'
  <2> TAKE q \in Req
  <2>1. CASE q = r
    <3>1. pc'[r] # "idle" /\ (pc'[r] = "approve" => \A c \in csrs' : c.by = r => c.status = "pending")
      BY <1>1 DEF Alone, Leaves
    <3>2. work'[r].cert # 0 => pc'[r] \in {"delete"} \cup Finishing
      BY <1>1 DEF Moves, Begins, Waits, Takes, Brings, Ends, MintInv, CertGood, Preparing, Finishing
    <3> QED BY <2>1, <3>1, <3>2 DEF CertGood
  <2>2. CASE q # r
    <3>1. pc'[q] = pc[q] /\ work'[q] = work[q]
      BY <1>1, <2>2 DEF Alone, IInv, TypeOK
    <3> QED BY <1>2, <2>2, <3>1 DEF MintInv, CertGood
  <2> QED BY <2>1, <2>2
<1> QED BY <1>3, <1>4 DEF MintInv

\* What the signer makes of a CSR: its login waits for it, deletes it, or is over.
LEMMA Signed ==
  ASSUME IInv, MintInv, NEW c \in csrs, Sign(c)
  PROVE  /\ UNCHANGED <<now, pc, work>>
         /\ c.by \in Req /\ c.status = "approved" /\ pc[c.by] \notin {"idle", "approve"} \cup Preparing
         /\ \E d \in Csr : /\ csrs' = (csrs \ {c}) \cup {d} /\ d.by = c.by
                           /\ \/ d.status = "failed"
                              \/ d.status = "issued" /\ d.notAfter \in (now + 1)..(now + work[c.by].asked)
<1>1. /\ csrs \subseteq Csr /\ now \in Nat /\ c \in Csr /\ c.by \in Req
      /\ UNCHANGED <<now, pc, work>> /\ c.status = "approved"
  BY DEF IInv, TypeOK, Sign, cluster, Csr
<1>2. CsrGood(c, pc[c.by], work[c.by]) /\ work[c.by].asked \in Nat
  BY <1>1, OfLogin, AskedNat
<1>3. pc[c.by] \notin {"idle", "approve"} \cup Preparing
  BY <1>1, <1>2 DEF MintInv, CertGood, CsrGood
<1>4. CASE Becomes(c, "failed", 0, 0)
  <2>1. PICK d \in Csr : csrs' = (csrs \ {c}) \cup {d} /\ Fields(d, c, "failed", 0, 0)
    BY <1>1, <1>4, BecomesFields
  <2> QED BY <1>1, <1>3, <2>1 DEF Fields
<1>5. CASE Becomes(c, "issued", now, now + Lesser(c.seconds * Second, SignerMax))
  <2> DEFINE asks == c.seconds * Second
             life == Lesser(asks, SignerMax)
  <2>1. SignerMax \in Nat \ {0} /\ Second \in Nat \ {0}
    BY IssuanceAssumption
  <2>2. c.seconds \in Int /\ c.seconds > 0
    BY <1>1, <1>2 DEF CsrGood, Csr
  <2>3. asks \in Int /\ asks > 0 /\ asks <= work[c.by].asked
    BY <1>2, <2>1, <2>2 DEF CsrGood
  <2> HIDE DEF asks
  <2>4. life \in Nat /\ life > 0 /\ life <= work[c.by].asked
    BY <1>2, <2>1, <2>3 DEF Lesser
  <2>5. Becomes(c, "issued", now, now + life)
    BY <1>5 DEF asks
  <2> HIDE DEF life
  <2>6. now + life \in Nat /\ now + life \in (now + 1)..(now + work[c.by].asked)
    BY <1>1, <1>2, <2>4
  <2>7. PICK d \in Csr : csrs' = (csrs \ {c}) \cup {d} /\ Fields(d, c, "issued", now, now + life)
    BY <1>1, <2>5, <2>6, BecomesFields
  <2> QED BY <1>1, <1>3, <2>6, <2>7 DEF Fields
<1> QED BY <1>4, <1>5 DEF Sign

LEMMA SignKeepsMint ==
  ASSUME IInv, MintInv, NEW c \in csrs, Sign(c)
  PROVE  MintInv'
<1>1. PICK d \in Csr : csrs' = (csrs \ {c}) \cup {d} /\ d.by = c.by
  BY Signed
<1>2. pc' = pc /\ work' = work /\ pc[c.by] # "approve"
  BY Signed
<1> QED BY <1>1, <1>2 DEF MintInv, CertGood

\* What a restart makes of the logins.
LEMMA Restarted ==
  ASSUME IInv, Restart
  PROVE  /\ UNCHANGED <<now, csrs>>
         /\ \A r \in Req : /\ work'[r].asked = work[r].asked
                           /\ pc[r] \in Active => pc'[r] = "lost" /\ work'[r].cert = 0
                           /\ pc[r] \notin Active => pc'[r] = pc[r] /\ work'[r] = work[r]
<1>1. UNCHANGED <<now, csrs>>
  BY DEF Restart
<1>2. ASSUME NEW r \in Req
      PROVE  /\ work'[r].asked = work[r].asked
             /\ pc[r] \in Active => pc'[r] = "lost" /\ work'[r].cert = 0
             /\ pc[r] \notin Active => pc'[r] = pc[r] /\ work'[r] = work[r]
  <2> DEFINE w == Ended(work[r], "none", TRUE)
  <2>1. w.cert = 0 /\ w.asked = work[r].asked
    BY <1>2, OfLogin, EndedCert
  <2>2. /\ pc'[r] = IF pc[r] \in Active THEN "lost" ELSE pc[r]
        /\ work'[r] = IF pc[r] \in Active THEN w ELSE work[r]
    BY DEF Restart
  <2> HIDE DEF w
  <2> QED BY <2>1, <2>2
<1> QED BY <1>1, <1>2

LEMMA RestartKeepsMint ==
  ASSUME IInv, MintInv, Restart
  PROVE  MintInv'
<1>1. \A r \in Req : CertGood(r)'
  BY Restarted DEF MintInv, CertGood, Active, Preparing, Holding, Finishing
<1> QED BY <1>1, Restarted DEF MintInv

LEMMA StepKeepsMint ==
  ASSUME IInv, IInv', MintInv, [Next]_vars
  PROVE  MintInv'
<1>1. CASE Tick \/ RotateCa \/ UNCHANGED vars
  <2>1. UNCHANGED <<pc, work, csrs>>
    BY <1>1 DEF Tick, RotateCa, vars
  <2> QED BY <2>1 DEF MintInv, CertGood
<1> QED BY <1>1, RestartKeepsMint, LoginKeepsMint, SignKeepsMint DEF Next

--------------------------------------------------------------------------------
(* Each step is one of Minting, or none *)

\* Where a login is shows only in its phase, and its certificate only in its expiry.
LEMMA Seen ==
  ASSUME IInv, NEW r \in Req
  PROVE  /\ Asked[r] = work[r].asked /\ Phases[r] = Phase(r) /\ Certificates[r] = Certificate(r)
         /\ DOMAIN Asked = Req /\ DOMAIN Phases = Req /\ DOMAIN Certificates = Req
BY DEF Asked, Phases, Certificates

\* A login nothing happens to looks the same.
Same(r) == pc'[r] = pc[r] /\ work'[r] = work[r] /\ Issued(r)' = Issued(r)

LEMMA SameSeen ==
  ASSUME NEW r \in Req, Same(r)
  PROVE  Certificate(r)' = Certificate(r) /\ Phase(r)' = Phase(r)
<1>1. Certificate(r)' = Certificate(r)
  BY DEF Same, Certificate
<1> QED BY <1>1 DEF Same, Phase

\* If all the others are the same, what changes is r's.
OnlySeen(r) ==
  /\ Phases' = [Phases EXCEPT ![r] = Phase(r)']
  /\ Certificates' = [Certificates EXCEPT ![r] = Certificate(r)']

LEMMA OthersSame ==
  ASSUME NEW r \in Req, \A q \in Req \ {r} : Same(q)
  PROVE  OnlySeen(r)
<1>1. \A q \in Req \ {r} : Certificate(q)' = Certificate(q) /\ Phase(q)' = Phase(q)
  BY SameSeen
<1> QED BY <1>1 DEF OnlySeen, Phases, Certificates

\* Steps of Minting, of one login.
LEMMA Stutters ==
  ASSUME NEW r \in Req, OnlySeen(r), Asked' = Asked, now' = now,
         Phase(r)' = Phase(r), Certificate(r)' = Certificate(r)
  PROVE  UNCHANGED AsMinting!mintingVars
<1>1. Phases' = Phases /\ Certificates' = Certificates
  BY DEF OnlySeen, Phases, Certificates
<1> QED BY <1>1 DEF AsMinting!mintingVars

LEMMA Asks ==
  ASSUME NEW r \in Req, OnlySeen(r), Asked' = [Asked EXCEPT ![r] = Asked'[r]], now' = now,
         Phase(r) = "asking", Phase(r)' = "asking", Certificate(r)' = Certificate(r), work[r].asked = 0
  PROVE  AsMinting!Ask(r)
<1>1. Phases' = Phases /\ Certificates' = Certificates
  BY DEF OnlySeen, Phases, Certificates
<1> QED BY <1>1 DEF AsMinting!Ask, Phases, Asked

LEMMA Mints ==
  ASSUME NEW r \in Req, OnlySeen(r), Asked' = Asked, now' = now,
         Phase(r) = "asking", Phase(r)' = "minted",
         Certificate(r)' \in (now + 1)..(now + work[r].asked)
  PROVE  AsMinting!Mint(r)
<1>1. Certificates'[r] = Certificate(r)' /\ Phases[r] = Phase(r) /\ Asked[r] = work[r].asked
  BY DEF OnlySeen, Certificates, Phases, Asked
<1> QED BY <1>1 DEF AsMinting!Mint, OnlySeen

LEMMA Keeps ==
  ASSUME NEW r \in Req, OnlySeen(r), Asked' = Asked, now' = now,
         Phase(r) = "minted", Phase(r)' = "stored", Certificate(r)' = Certificate(r)
  PROVE  AsMinting!Keep(r)
<1>1. Certificates' = Certificates /\ Phases[r] = Phase(r)
  BY DEF OnlySeen, Certificates, Phases
<1> QED BY <1>1 DEF AsMinting!Keep, OnlySeen

LEMMA Finishes ==
  ASSUME NEW r \in Req, OnlySeen(r), Asked' = Asked, now' = now,
         NEW how, Phase(r)' = how, Certificate(r)' = 0
  PROVE  AsMinting!Finish({r}, how)
<1>1. Phases' = [q \in Req |-> IF q \in {r} THEN how ELSE Phases[q]]
  BY DEF OnlySeen, Phases
<1>2. Certificates' = [q \in Req |-> IF q \in {r} THEN 0 ELSE Certificates[q]]
  BY DEF OnlySeen, Certificates
<1> QED BY <1>1, <1>2 DEF AsMinting!Finish

LEMMA LoginMints ==
  ASSUME IInv, IInv', MintInv, NEW r \in Req, Login(r)
  PROVE  [AsMinting!MintingNext]_(AsMinting!mintingVars)
<1>1. Alone(r) /\ Moves(r)
  BY LoginMoves
<1>2. \A c : c.by # r => (c \in csrs' <=> c \in csrs)
  BY <1>1 DEF Alone
<1>3. \A q \in Req \ {r} : Same(q)
  <2> TAKE q \in Req \ {r}
  <2>1. pc'[q] = pc[q] /\ work'[q] = work[q]
    BY <1>1 DEF Alone, IInv, TypeOK
  <2>2. {d \in csrs' : d.by = q /\ d.status = "issued"} = {d \in csrs : d.by = q /\ d.status = "issued"}
    BY <1>2
  <2> QED BY <2>1, <2>2 DEF Same, Issued
<1>4. OnlySeen(r)
  BY <1>3, OthersSame
<1>5. now' = now /\ CertGood(r) /\ pc[r] \in Pc /\ CsrInv
  BY <1>1, OfLogin DEF Alone, MintInv, IInv
<1>6. ASSUME work'[r].asked = work[r].asked
      PROVE  Asked' = Asked
  BY <1>3, <1>6 DEF Asked, Same
<1>7. CASE Begins(r)
  <2>1. Issued(r) = {} /\ Issued(r)' = {}
    BY <1>7, OfLogin DEF Begins, Issued, CsrGood
  <2>2. pc[r] \notin Active /\ pc'[r] \in Active
    BY <1>7 DEF Begins, Active, Preparing, Holding, Finishing
  <2>3. Certificate(r) = 0 /\ Certificate(r)' = 0
    BY <1>7, <2>1, <2>2 DEF Certificate, Begins
  <2>4. Phase(r) = "asking" /\ Phase(r)' = "asking"
    BY <1>7, <2>3 DEF Phase, Begins, Preparing
  <2>5. Asked' = [Asked EXCEPT ![r] = Asked'[r]]
    BY <1>3 DEF Asked, Same
  <2>6. AsMinting!Ask(r)
    BY <1>4, <1>5, <1>7, <2>3, <2>4, <2>5, Asks DEF CertGood, Begins
  <2> QED BY <2>6 DEF AsMinting!MintingNext
<1>8. CASE work'[r].asked = work[r].asked /\ Waits(r)
  <2>1. pc[r] \in Active /\ pc'[r] \in Active
    BY <1>8 DEF Waits, Active, Preparing, Holding
  <2>2. Certificate(r)' = Certificate(r)
    BY <1>8, <2>1 DEF Waits, Certificate
  <2>3. Phase(r)' = Phase(r)
    BY <1>8, <2>2 DEF Waits, Phase, Preparing, Holding
  <2> QED BY <1>4, <1>5, <1>6, <1>8, <2>2, <2>3, Stutters
<1>9. CASE work'[r].asked = work[r].asked /\ Takes(r)
  <2>1. pc[r] \in Active /\ pc'[r] \in Active /\ work[r].cert = 0
    BY <1>5, <1>9 DEF Takes, Active, Holding, Finishing, CertGood
  <2>2. Certificate(r) = work'[r].cert /\ Certificate(r)' = work'[r].cert
    BY <1>9, <2>1 DEF Takes, Certificate
  <2>3. Phase(r)' = Phase(r)
    BY <1>9, <2>2 DEF Takes, Phase
  <2> QED BY <1>4, <1>5, <1>6, <1>9, <2>2, <2>3, Stutters
<1>10. CASE work'[r].asked = work[r].asked /\ Brings(r)
  <2>1. pc[r] \in Active /\ pc'[r] \in Active /\ work[r].cert # 0
    BY <1>10 DEF Brings, Active, Holding, Finishing
  <2>2. Certificate(r) = work[r].cert /\ Certificate(r)' = work[r].cert
    BY <1>10, <2>1 DEF Brings, Certificate
  <2>3. CASE pc[r] = "put"
    <3>1. Phase(r) = "minted" /\ Phase(r)' = "stored"
      BY <1>10, <2>3 DEF Brings, Phase
    <3>2. AsMinting!Keep(r)
      BY <1>4, <1>5, <1>6, <1>10, <2>2, <3>1, Keeps
    <3> QED BY <3>2 DEF AsMinting!MintingNext
  <2>4. CASE pc[r] # "put"
    <3>1. Phase(r)' = Phase(r)
      BY <1>10, <2>1, <2>2, <2>4 DEF Brings, Phase
    <3> QED BY <1>4, <1>5, <1>6, <1>10, <2>2, <3>1, Stutters
  <2> QED BY <2>3, <2>4
<1>11. CASE work'[r].asked = work[r].asked /\ Ends(r)
  <2>1. pc'[r] \notin Active
    BY <1>11 DEF Ends, Active, Preparing, Holding, Finishing
  <2>2. Certificate(r)' = 0
    BY <2>1 DEF Certificate
  <2>3. CASE pc'[r] = "answered"
    <3>1. Phase(r) = "stored" /\ Phase(r)' = "answered"
      BY <1>11, <2>3 DEF Ends, Phase
    <3>2. AsMinting!Finish({r}, "answered")
      BY <1>4, <1>5, <1>6, <1>11, <2>2, <3>1, Finishes
    <3>3. AsMinting!Answer(r)
      BY <3>1, <3>2 DEF AsMinting!Answer, Phases
    <3> QED BY <3>3 DEF AsMinting!MintingNext
  <2>4. CASE pc'[r] # "answered"
    <3>1. pc[r] \in Active /\ pc'[r] \in {"refused", "aborted"}
      BY <1>11, <2>4 DEF Ends
    <3>2. Phase(r) \notin {"answered", "refused"} /\ Phase(r)' = "refused"
      BY <3>1 DEF Phase, Active, Preparing, Holding, Finishing
    <3>3. AsMinting!Finish({r}, "refused")
      BY <1>4, <1>5, <1>6, <1>11, <2>2, <3>2, Finishes
    <3>4. AsMinting!Refuse({r})
      BY <3>2, <3>3 DEF AsMinting!Refuse, AsMinting!Over, Phases
    <3> QED BY <3>4 DEF AsMinting!MintingNext
  <2> QED BY <2>3, <2>4
<1> QED BY <1>1, <1>7, <1>8, <1>9, <1>10, <1>11 DEF Moves

LEMMA SignMints ==
  ASSUME IInv, MintInv, NEW c \in csrs, Sign(c)
  PROVE  [AsMinting!MintingNext]_(AsMinting!mintingVars)
<1> DEFINE r == c.by
<1>1. PICK d \in Csr : /\ csrs' = (csrs \ {c}) \cup {d} /\ d.by = r
                       /\ \/ d.status = "failed"
                          \/ d.status = "issued" /\ d.notAfter \in (now + 1)..(now + work[r].asked)
  BY Signed
<1>2. r \in Req /\ c.status = "approved" /\ pc[r] \notin {"idle", "approve"} \cup Preparing
  BY Signed
<1>3. UNCHANGED <<now, pc, work>>
  BY Signed
<1> HIDE DEF r
<1>4. \A b \in csrs : b.by = r => b = c
  BY DEF MintInv, r
<1>5. c.by = r
  BY DEF r
<1>6. \A q \in Req \ {r} : Same(q)
  <2> TAKE q \in Req \ {r}
  <2>1. {b \in csrs' : b.by = q /\ b.status = "issued"} = {b \in csrs : b.by = q /\ b.status = "issued"}
    BY <1>1, <1>5
  <2> QED BY <1>3, <2>1 DEF Same, Issued
<1>7. OnlySeen(r)
  BY <1>2, <1>6, OthersSame
<1>8. Asked' = Asked /\ now' = now
  BY <1>3 DEF Asked
<1>9. Issued(r) = {} /\ Issued(r)' = IF d.status = "issued" THEN {d.notAfter} ELSE {}
  BY <1>1, <1>2, <1>4 DEF Issued
<1>10. now \in Nat /\ work[r].asked \in Nat /\ pc[r] \in Pc
  BY <1>2, OfLogin, AskedNat DEF IInv, TypeOK
<1>11. CASE pc[r] \notin Active \/ work[r].cert # 0 \/ d.status = "failed"
  <2>1. Certificate(r)' = Certificate(r)
    BY <1>3, <1>9, <1>11 DEF Certificate
  <2>2. Phase(r)' = Phase(r)
    BY <1>3, <2>1 DEF Phase
  <2> QED BY <1>2, <1>7, <1>8, <2>1, <2>2, Stutters
<1>12. CASE pc[r] \in Active /\ work[r].cert = 0 /\ d.status = "issued"
  <2>1. d.notAfter \in (now + 1)..(now + work[r].asked) /\ d.notAfter # 0
    BY <1>1, <1>10, <1>12
  <2>2. Certificate(r) = 0 /\ Certificate(r)' = d.notAfter
    BY <1>3, <1>9, <1>12 DEF Certificate
  <2>3. pc[r] \in {"wait", "delete"}
    BY <1>2, <1>12 DEF Active, Holding, IInv, TypeOK
  <2>4. Phase(r) = "asking" /\ Phase(r)' = "minted"
    BY <1>3, <2>1, <2>2, <2>3 DEF Phase
  <2>5. AsMinting!Mint(r)
    BY <1>2, <1>7, <1>8, <2>1, <2>2, <2>4, Mints
  <2> QED BY <1>2, <2>5 DEF AsMinting!MintingNext
<1> QED BY <1>1, <1>11, <1>12

LEMMA RestartMints ==
  ASSUME IInv, Restart
  PROVE  AsMinting!MintingNext
<1> DEFINE R == {r \in Req : pc[r] \in Active}
<1>1. UNCHANGED <<now, csrs>>
  BY Restarted
<1>2. ASSUME NEW r \in R
      PROVE  Certificate(r)' = 0 /\ Phase(r)' = "refused" /\ Phase(r) \notin {"answered", "refused"}
  <2>1. pc'[r] = "lost"
    BY Restarted
  <2> QED BY <1>2, <2>1 DEF Certificate, Phase, Active, Preparing, Holding, Finishing
<1>3. ASSUME NEW r \in Req, r \notin R
      PROVE  Certificate(r)' = Certificate(r) /\ Phase(r)' = Phase(r)
  <2>1. Same(r)
    BY <1>1, <1>3, Restarted DEF Same, Issued
  <2> QED BY <1>3, <2>1, SameSeen
<1>4. Phases' = [r \in Req |-> IF r \in R THEN "refused" ELSE Phases[r]]
  BY <1>2, <1>3 DEF Phases
<1>5. Certificates' = [r \in Req |-> IF r \in R THEN 0 ELSE Certificates[r]]
  BY <1>2, <1>3 DEF Certificates
<1>6. Asked' = Asked
  BY Restarted DEF Asked
<1>7. \A r \in R : Phases[r] \notin {"answered", "refused"}
  BY <1>2 DEF Phases
<1>8. R \in SUBSET Req
  OBVIOUS
<1> HIDE DEF R
<1>9. AsMinting!Finish(R, "refused")
  BY <1>1, <1>4, <1>5, <1>6 DEF AsMinting!Finish
<1>10. AsMinting!Refuse(R)
  BY <1>7, <1>9 DEF AsMinting!Refuse, AsMinting!Over
<1> QED BY <1>8, <1>10 DEF AsMinting!MintingNext

LEMMA InitMints == Init => AsMinting!MintingInit
<1> SUFFICES ASSUME Init PROVE AsMinting!MintingInit
  OBVIOUS
<1>1. now = 0 /\ csrs = {} /\ \A r \in Req : pc[r] = "idle" /\ work[r].asked = 0
  BY DEF Init, NoWork
<1>2. \A r \in Req : Certificate(r) = 0
  BY <1>1 DEF Certificate, Active, Preparing, Holding, Finishing
<1>3. \A r \in Req : Phase(r) = "asking"
  BY <1>1, <1>2 DEF Phase
<1> QED BY <1>1, <1>2, <1>3 DEF AsMinting!MintingInit, Asked, Phases, Certificates

LEMMA StepMints ==
  ASSUME IInv, IInv', MintInv, [Next]_vars
  PROVE  [AsMinting!MintingNext]_(AsMinting!mintingVars)
<1>1. CASE Tick
  <2>1. now' = now + 1 /\ UNCHANGED <<pc, work, csrs>>
    BY <1>1 DEF Tick
  <2>2. \A r \in Req : Certificate(r)' = Certificate(r) /\ Phase(r)' = Phase(r)
    BY <2>1, SameSeen DEF Same, Issued
  <2>3. UNCHANGED <<Asked, Phases, Certificates>>
    BY <2>1, <2>2 DEF Asked, Phases, Certificates
  <2> QED BY <2>1, <2>3 DEF AsMinting!MintingNext, AsMinting!Advance
<1>2. CASE RotateCa \/ UNCHANGED vars
  <2>1. UNCHANGED <<now, pc, work, csrs>>
    BY <1>2 DEF RotateCa, vars
  <2>2. \A r \in Req : Certificate(r)' = Certificate(r) /\ Phase(r)' = Phase(r)
    BY <2>1, SameSeen DEF Same, Issued
  <2>3. UNCHANGED <<Asked, Phases, Certificates>>
    BY <2>1, <2>2 DEF Asked, Phases, Certificates
  <2> QED BY <2>1, <2>3 DEF AsMinting!mintingVars
<1> QED BY <1>1, <1>2, RestartMints, LoginMints, SignMints DEF Next

\* However the calls of the logins, the signer and the restarts interleave, what
\* they come to is the one step minting is to ClientConfig: one certificate to a
\* login, while it waits, for no longer than it asked, and the one it stores (issue).
THEOREM ImplementsMinting == Spec => Minted
<1>1. Init => IInv /\ MintInv /\ AsMinting!MintingInit
  BY InitHolds, MintHolds, InitMints
<1>2. IInv /\ MintInv /\ [Next]_vars => (IInv /\ MintInv)'
  BY StepKeeps, StepKeepsMint
<1>3. IInv /\ IInv' /\ MintInv /\ [Next]_vars => [AsMinting!MintingNext]_(AsMinting!mintingVars)
  BY StepMints
<1> QED BY <1>1, <1>2, <1>3, PTL DEF Spec, Minted, AsMinting!MintingSpec
================================================================================
