------------------------------- MODULE Issuance -------------------------------
(***************************************************************************)
(* What a login does to mint its credential, one call at a time: the CA    *)
(* every login of a process shares, the CSR each creates, approves, waits  *)
(* for and deletes, and the token cut to the certificate                   *)
(* (internal/helpers/kube/config/build.go, gen.go, kube/certs.go,          *)
(* internal/helpers/encode/success.go).                                    *)
(*                                                                         *)
(* ClientConfig has what the logins store, and takes minting as one step.  *)
(* The signer, the CA's ConfigMap and kubelet's restarts are external.     *)
(***************************************************************************)
EXTENDS Integers, FiniteSets

CONSTANTS
  Req,          \* the logins, each of them once
  User,
  UserOf,       \* whose login each is
  Ca,           \* the cluster's CA certificates
  None,         \* a half of the cache that nobody wrote, no outcome
  Garbled,      \* a string made of the halves of two
  Durations,    \* the durations a certificate is asked for, in ticks
  Second,       \* ticks to a second
  MinSeconds,   \* the least expirationSeconds the apiserver accepts: 600
  MaxSeconds,   \* the greatest int32
  SignerMax,    \* the longest the signer grants, in ticks
  Patience,     \* certificateWaitTimeout, in ticks
  MaxTime,      \* bound on the clock
  MaxRestarts   \* bound on the restarts

ASSUME IssuanceAssumption ==
  /\ UserOf \in [Req -> User] /\ Req \cap {None} = {}
  /\ {None, Garbled} \cap Ca = {} /\ None # Garbled /\ Ca # {}
  /\ Durations \subseteq Nat \ {0}
  /\ Second \in Nat \ {0} /\ MinSeconds \in Nat \ {0} /\ MaxSeconds \in Nat
  /\ SignerMax \in Nat \ {0} /\ Patience \in Nat /\ MaxTime \in Nat /\ MaxRestarts \in Nat

VARIABLES
  now,       \* the clock
  ca,        \* the CA in kube-root-ca.crt
  known,     \* the CAs it has held since the process started
  cache,     \* the generator's caData: the two words of a Go string
  csrs,      \* the CSRs in the cluster
  pc,        \* where each login is
  work,      \* what it holds
  restarts   \* the restarts so far

vars == <<now, ca, known, cache, csrs, pc, work, restarts>>

cluster == <<ca, known, restarts>>

Lesser(m, n) == IF m < n THEN m ELSE n

\* Before the CSR exists; while the deferred deletion is due; after it.
Preparing == {"fetch", "fill", "create"}
Holding   == {"approve", "wait", "delete"}
Finishing == {"assemble", "put", "measure", "sign"}
Active    == Preparing \cup Holding \cup Finishing

Word == Ca \cup {None}

\* A CSR's name: the user and the login's random suffix, or none.
CsrName == User \X (Req \cup {None})

\* at, notAfter: the certificate's issue and end, 0 while there is none.
Csr == [name: CsrName, by: Req, seconds: Int, status: {"pending", "approved", "issued", "failed"},
        at: Nat, notAfter: Nat]

\* asked: the duration; fetched: the CA read for the cache, todo: the words of it
\* still to write; calm: the cache when the login began, if nobody was filling it;
\* data: the CA taken; since: when the wait began; cert: the certificate's end;
\* read: when its remaining life was measured, life: the result; cause: why the
\* login is refused; litter: its CSR may stay behind.
Work == [asked: Durations \cup {0}, fetched: Word, todo: SUBSET {"ptr", "len"}, calm: Word,
         data: Ca \cup {None, Garbled}, since: Nat, cert: Nat, read: Nat, life: Int,
         cause: {"none", "failed", "duration", "signer"}, litter: BOOLEAN]

NoWork == [asked |-> 0, fetched |-> None, todo |-> {}, calm |-> None, data |-> None, since |-> 0,
           cert |-> 0, read |-> 0, life |-> 0, cause |-> "none", litter |-> FALSE]

TypeOK ==
  /\ now \in Nat /\ restarts \in 0..MaxRestarts
  /\ ca \in known /\ known \subseteq Ca
  /\ cache \in [{"ptr", "len"} -> Word]
  /\ csrs \subseteq Csr
  /\ pc \in [Req -> {"idle", "answered", "refused", "aborted", "lost"} \cup Active]
  /\ work \in [Req -> Work]
  /\ \A r \in Req : pc[r] \in Finishing => work[r].cert # 0 /\ work[r].cause = "none"
  /\ \A r \in Req : pc[r] \in {"put", "measure", "sign"} => work[r].data # None

Init ==
  /\ now = 0 /\ restarts = 0
  /\ \E c \in Ca : ca = c /\ known = {c}
  /\ cache = [half \in {"ptr", "len"} |-> None]
  /\ csrs = {}
  /\ pc = [r \in Req |-> "idle"]
  /\ work = [r \in Req |-> NoWork]

Goto(r, where) == pc' = [pc EXCEPT ![r] = where]

\* What is left of a login that is over.
Ended(w, cause, litter) ==
  [NoWork EXCEPT !.asked = w.asked, !.cause = cause, !.litter = w.litter \/ litter]

End(r, how, cause, litter) ==
  /\ Goto(r, how)
  /\ work' = [work EXCEPT ![r] = Ended(@, cause, litter)]

Tick ==
  /\ now < MaxTime
  /\ now' = now + 1
  /\ UNCHANGED <<cluster, cache, csrs, pc, work>>

--------------------------------------------------------------------------------
(* The CA, read once and kept for every login of the process *)

\* External: the cluster's CA is rotated.
RotateCa ==
  /\ \E c \in Ca \ known : ca' = c /\ known' = known \cup {c}
  /\ UNCHANGED <<now, cache, csrs, pc, work, restarts>>

\* Mutant of NeedsCa: the CA is read anew for every login.
NeedsCaAlways == TRUE

\* len(g.caData) == 0, read without a lock.
NeedsCa == cache["len"] = None

Filling == {r \in Req : pc[r] \in {"fetch", "fill"}}

Begin(r) ==
  /\ pc[r] = "idle"
  /\ Goto(r, IF NeedsCa THEN "fetch" ELSE "create")
  /\ \E d \in Durations : work' = [work EXCEPT ![r] =
       [NoWork EXCEPT !.asked = d,
                      !.calm = IF Filling = {} /\ cache["ptr"] = cache["len"] THEN cache["ptr"] ELSE None]]
  /\ UNCHANGED <<now, cluster, cache, csrs>>

\* configmaps.CACrt.
Fetch(r) ==
  /\ pc[r] = "fetch"
  /\ Goto(r, "fill")
  /\ work' = [work EXCEPT ![r].fetched = ca, ![r].todo = {"ptr", "len"}]
  /\ UNCHANGED <<now, cluster, cache, csrs>>

\* g.caData = caCrt: two words, written one after the other.
Fill(r) ==
  /\ pc[r] = "fill"
  /\ \E half \in work[r].todo :
       /\ cache' = [cache EXCEPT ![half] = work[r].fetched]
       /\ IF work[r].todo = {half}
          THEN Goto(r, "create") /\ work' = [work EXCEPT ![r].todo = {}, ![r].fetched = None]
          ELSE work' = [work EXCEPT ![r].todo = @ \ {half}] /\ UNCHANGED pc
  /\ UNCHANGED <<now, cluster, csrs>>

--------------------------------------------------------------------------------
(* The CSR *)

\* Mutant of ExpirationSeconds: rounded up.
ExpirationSecondsUp(d) ==
  LET s == (d + Second - 1) \div Second
  IN  IF s <= MaxSeconds THEN {s} ELSE {MaxSeconds, -MaxSeconds - 1}

\* int32(dur.Seconds()): truncated; out of range it depends on the build, the
\* largest on arm64, the least on amd64.
ExpirationSeconds(d) ==
  LET s == d \div Second
  IN  IF s <= MaxSeconds THEN {s} ELSE {MaxSeconds, -MaxSeconds - 1}

\* Mutant of Name: one CSR name per user.
NameOfUser(r) == <<UserOf[r], None>>

\* GenerateName: the username and a suffix of the CSR's own.
Name(r) == <<UserOf[r], r>>

Own(r) == {c \in csrs : c.name = Name(r)}

NewCsr(r, s) == [name |-> Name(r), by |-> r, seconds |-> s, status |-> "pending", at |-> 0, notAfter |-> 0]

\* CreateCertificateSigningRequest: made, or refused by the apiserver.
Create(r) ==
  /\ pc[r] = "create"
  /\ \E s \in ExpirationSeconds(work[r].asked) :
       \/ /\ s >= MinSeconds /\ Own(r) = {}
          /\ csrs' = csrs \cup {NewCsr(r, s)}
          /\ Goto(r, "approve")
          /\ UNCHANGED work
       \/ s < MinSeconds /\ End(r, "refused", "duration", FALSE) /\ UNCHANGED csrs
       \/ Own(r) # {} /\ End(r, "refused", "none", FALSE) /\ UNCHANGED csrs
  /\ UNCHANGED <<now, cluster, cache>>

\* It is made and the answer is lost: the deletion has not been deferred yet.
CreateLost(r) ==
  /\ pc[r] = "create" /\ Own(r) = {}
  /\ \E s \in ExpirationSeconds(work[r].asked) : s >= MinSeconds /\ csrs' = csrs \cup {NewCsr(r, s)}
  /\ End(r, "refused", "failed", TRUE)
  /\ UNCHANGED <<now, cluster, cache>>

Becomes(c, status, at, notAfter) ==
  csrs' = (csrs \ {c}) \cup {[c EXCEPT !.status = status, !.at = at, !.notAfter = notAfter]}

\* ApproveCertificateSigningRequest.
Approve(r) ==
  /\ pc[r] = "approve"
  /\ \E c \in Own(r) : c.by = r /\ Becomes(c, "approved", 0, 0)
  /\ Goto(r, "wait")
  /\ work' = [work EXCEPT ![r].since = now]
  /\ UNCHANGED <<now, cluster, cache>>

\* External: the signer issues or fails what is approved, with its own maximum.
Sign(c) ==
  /\ c.status = "approved"
  /\ \/ Becomes(c, "issued", now, now + Lesser(c.seconds * Second, SignerMax))
     \/ Becomes(c, "failed", 0, 0)
  /\ UNCHANGED <<now, cluster, cache, pc, work>>

\* Mutant of WaitRefused: the deletion is deferred only once the certificate is read.
WaitRefusedEarly(r) ==
  /\ pc[r] = "wait"
  /\ \/ \E c \in Own(r) : c.status = "failed"
     \/ now >= work[r].since + Patience
  /\ End(r, "refused", "signer", FALSE)
  /\ UNCHANGED <<now, cluster, cache, csrs>>

\* Mutant of WaitRefused: its error is dropped.
WaitRefusedDropped(r) ==
  /\ pc[r] = "wait"
  /\ \/ \E c \in Own(r) : c.status = "failed"
     \/ now >= work[r].since + Patience
  /\ Goto(r, "delete")
  /\ work' = [work EXCEPT ![r].since = 0]
  /\ UNCHANGED <<now, cluster, cache, csrs>>

\* WaitForCertificate: failed by the signer, or for too long.
WaitRefused(r) ==
  /\ pc[r] = "wait"
  /\ \/ \E c \in Own(r) : c.status = "failed"
     \/ now >= work[r].since + Patience
  /\ Goto(r, "delete")
  /\ work' = [work EXCEPT ![r].cause = "signer", ![r].since = 0]
  /\ UNCHANGED <<now, cluster, cache, csrs>>

\* WaitForCertificate and ParseCertificatePEM.
WaitIssued(r) ==
  /\ pc[r] = "wait"
  /\ \E c \in Own(r) :
       c.status = "issued" /\ work' = [work EXCEPT ![r].cert = c.notAfter, ![r].since = 0]
  /\ Goto(r, "delete")
  /\ UNCHANGED <<now, cluster, cache, csrs>>

\* The deferred deletion, whose failure is only logged.
Delete(r) ==
  /\ pc[r] = "delete"
  /\ \E kept \in BOOLEAN :
       /\ csrs' = IF kept THEN csrs ELSE csrs \ Own(r)
       /\ \/ /\ work[r].cause = "none"
             /\ Goto(r, "assemble")
             /\ work' = [work EXCEPT ![r].litter = kept]
          \/ work[r].cause # "none" /\ End(r, "refused", work[r].cause, kept)
  /\ UNCHANGED <<now, cluster, cache>>

--------------------------------------------------------------------------------
(* The answer *)

\* generateCertAndClusterInfo takes the CA as it is by now.  A string of no address
\* and some length ends the request when its bytes are read.
Assemble(r) ==
  /\ pc[r] = "assemble"
  /\ \/ cache["ptr"] = None /\ End(r, "aborted", "none", FALSE)
     \/ /\ cache["ptr"] # None
        /\ Goto(r, "put")
        /\ work' = [work EXCEPT ![r].data = IF cache["ptr"] = cache["len"] THEN cache["ptr"] ELSE Garbled]
  /\ UNCHANGED <<now, cluster, cache, csrs>>

\* Put: ClientConfig has its steps.
Put(r) == pc[r] = "put" /\ Goto(r, "measure") /\ UNCHANGED <<now, cluster, cache, csrs, work>>

\* Mutant of tokenDuration: not cut to the certificate.
tokenDurationWhole(requested, notAfter) == requested

\* tokenDuration reads the clock.
tokenDuration(requested, notAfter) == Lesser(requested, notAfter - now)

Measure(r) ==
  /\ pc[r] = "measure"
  /\ Goto(r, "sign")
  /\ work' = [work EXCEPT ![r].read = now, ![r].life = tokenDuration(work[r].asked, work[r].cert)]
  /\ UNCHANGED <<now, cluster, cache, csrs>>

\* CreateToken reads it again.
Expiry(r) == now + work[r].life

Success(r) ==
  /\ pc[r] = "sign"
  /\ End(r, "answered", "none", FALSE)
  /\ UNCHANGED <<now, cluster, cache, csrs>>

--------------------------------------------------------------------------------
(* Failures *)

\* A call fails, or its answer is lost: what has a deferred deletion performs it.
Fail(r) ==
  /\ \/ /\ pc[r] \in {"fetch", "create", "put", "sign"}
        /\ End(r, "refused", "failed", FALSE)
        /\ UNCHANGED csrs
     \/ /\ pc[r] \in {"approve", "wait"}
        /\ Goto(r, "delete")
        /\ work' = [work EXCEPT ![r].cause = "failed", ![r].since = 0]
        /\ \/ UNCHANGED csrs
           \/ pc[r] = "approve" /\ \E c \in Own(r) : Becomes(c, "approved", 0, 0)
  /\ UNCHANGED <<now, cluster, cache>>

\* The process ends, with its cache and its logins, and another starts.
Restart ==
  /\ restarts < MaxRestarts
  /\ restarts' = restarts + 1
  /\ cache' = [half \in {"ptr", "len"} |-> None]
  /\ known' = {ca}
  /\ pc' = [r \in Req |-> IF pc[r] \in Active THEN "lost" ELSE pc[r]]
  /\ work' = [r \in Req |-> IF pc[r] \in Active THEN Ended(work[r], "none", TRUE) ELSE work[r]]
  /\ UNCHANGED <<now, ca, csrs>>

Login(r) ==
  \/ Begin(r) \/ Fetch(r) \/ Fill(r)
  \/ Create(r) \/ CreateLost(r) \/ Approve(r) \/ WaitRefused(r) \/ WaitIssued(r) \/ Delete(r)
  \/ Assemble(r) \/ Put(r) \/ Measure(r) \/ Success(r)
  \/ Fail(r)

Next == Tick \/ RotateCa \/ Restart \/ (\E r \in Req : Login(r)) \/ (\E c \in csrs : Sign(c))

Spec == Init /\ [][Next]_vars

--------------------------------------------------------------------------------
(* Properties *)

\* A login is refused only for a call of its own that failed, the signer, or a
\* duration the API can't express, and never for another login's CSR
\* (NewCertificateSigningRequest).
RefusedForCause ==
  \A r \in Req : pc[r] = "refused" =>
    /\ work[r].cause # "none"
    /\ work[r].cause = "duration" =>
         work[r].asked \notin (MinSeconds * Second)..((MaxSeconds + 1) * Second - 1)

\* A CSR is left behind only when its own deletion or its creation was not
\* answered, or the process ended (generateClientCertAndKey).
CsrsCleanedUp == \A c \in csrs : pc[c.by] \in Holding \/ work[c.by].litter

\* The CA a login takes is one the cluster had while its process ran, and whole
\* unless the CA was rotated; a login that begins when the cache is filled and
\* at rest takes just that, whatever others fill or the cluster rotates (issue).
CaOfCluster ==
  \A r \in Req : pc[r] \in {"put", "measure", "sign"} =>
    /\ work[r].data \in known \cup {Garbled}
    /\ work[r].data = Garbled => Cardinality(known) > 1
    /\ work[r].calm # None => work[r].data = work[r].calm

\* No certificate is valid for longer than was asked for, and a token outlives it
\* by no more than the time between the two readings of the clock
\* (NewCertificateSigningRequest, tokenDuration, CreateToken).
WithinAsked ==
  /\ \A c \in csrs : c.notAfter <= c.at + work[c.by].asked
  /\ \A r \in Req : pc[r] = "sign" =>
       LET gap == now - work[r].read
       IN  Expiry(r) <= Lesser(work[r].cert, work[r].read + work[r].asked) + gap

\* Every step is one of minting as ClientConfig takes it, or none: the signer issues
\* a login one certificate, for no longer than asked, the login stores and answers
\* that one, and nothing brings back a login that is over (issue).
Issued(r) == {c.notAfter : c \in {d \in csrs : d.by = r /\ d.status = "issued"}}
Certificate(r) ==
  CASE pc[r] \notin Active -> 0
    [] pc[r] \in Active /\ work[r].cert # 0 -> work[r].cert
    [] OTHER -> IF Issued(r) = {} THEN 0 ELSE CHOOSE t \in Issued(r) : TRUE
Phase(r) ==
  CASE pc[r] = "answered"                       -> "answered"
    [] pc[r] \in {"refused", "aborted", "lost"} -> "refused"
    [] pc[r] \in {"measure", "sign"}            -> "stored"
    [] pc[r] \in {"assemble", "put"}            -> "minted"
    [] OTHER -> IF Certificate(r) = 0 THEN "asking" ELSE "minted"

Asked        == [r \in Req |-> work[r].asked]
Phases       == [r \in Req |-> Phase(r)]
Certificates == [r \in Req |-> Certificate(r)]
AsMinting    == INSTANCE Minting WITH clock <- now, asked <- Asked, phase <- Phases, expiry <- Certificates
Minted       == AsMinting!MintingSpec
================================================================================
