------------------------------ MODULE ClientConfig ------------------------------
(***************************************************************************)
(* How login credentials are issued, stored, annotated and removed.        *)
(*                                                                         *)
(* Any number of authn replicas serve logins and step-ups concurrently     *)
(* (req: one record per request), the leader's step-up sweep deletes       *)
(* expired step-up Secrets (sweep) and the leader's identity backfill      *)
(* stamps the Secrets written before the annotations existed (fill).  They *)
(* meet only in the Secrets, through the apiserver.                        *)
(***************************************************************************)
EXTENDS SecretStore

CONSTANTS
  Req,           \* the login requests, each served once
  Identity,      \* what an identity source can assert about a caller
  StepUpGroup,   \* krateo:loa:2
  Self,          \* AUTHN_USERNAME
  SelfGroups,    \* the groups of authn's own identity
  Sweeper,       \* goroutines running stepupsweep.Run
  Filler,        \* goroutines running identitybackfill.Run
  Declarable,    \* the strategies whose objects come and go while authn runs
  Leftover,      \* the Secrets that may exist before this release starts
  CertDuration,  \* AUTHN_KUBECONFIG_CRT_EXPIRES_IN: also the JWT duration
  StepUpTTL,     \* spec.stepUp.ttl
  DefaultJwtDuration, \* encode.DefaultJwtDuration
  SignerMax,     \* --cluster-signing-duration of the cluster's signer
  CANotAfter,    \* expiry of the signer's CA
  Grace,         \* stepupsweep.DefaultGrace
  MaxTime        \* bound on the clock

ASSUME ClientConfigAssumption ==
  /\ Req \subseteq Issuance
  /\ Identity \subseteq [user: User, strategy: LoginStrategy, groups: SUBSET Group, stepUp: BOOLEAN]
  /\ StepUpGroup \in Reserved
  /\ Declarable \subseteq {"basic", "serviceaccount"}
  /\ Leftover \subseteq Name
  /\ Self \in User /\ SelfGroups \subseteq Group \ Reserved
  /\ CertDuration \in Nat \ {0} /\ StepUpTTL \in Nat \ {0} /\ Grace \in Nat
  /\ DefaultJwtDuration \in Nat \ {0}
  /\ SignerMax \in Nat \ {0} /\ CANotAfter \in Nat /\ MaxTime \in Nat

VARIABLES
  now,       \* the clock, shared by authn, the apiserver and the signer
  declared,  \* per user, the strategies that have an object for that name
  req,       \* the login requests
  sweep,     \* per sweeper, the listed step-up Secrets still to be judged
  fill       \* per filler, the backfill's progress

vars == <<secrets, revision, now, declared, req, sweep, fill>>

--------------------------------------------------------------------------------
(* Issuance: helpers *)

Lesser(a, b) == IF a < b THEN a ELSE b

\* userinfo: an identity source can't assert a reserved group; a step-up is the
\* only way to carry one.
withoutReserved(G) == {g \in G : ~IsReserved(g)}
UserInfoGroups(id) ==
  IF id.stepUp THEN withoutReserved(id.groups) \cup {StepUpGroup}
  ELSE withoutReserved(id.groups)

\* checkGroups: unrecordable groups, a reserved group on a session and a
\* step-up without one are refused before anything is minted.
checkGroups(G, stepUp) ==
  /\ ValidateGroups(G)
  /\ IF stepUp THEN \E g \in G : IsReserved(g) ELSE \A g \in G : ~IsReserved(g)

\* The session's certificate duration, or the provider's step-up ttl.
Requested(stepUp) == IF stepUp THEN StepUpTTL ELSE CertDuration

\* External: the signer grants what was asked, capped by its own maximum and by
\* the life its CA has left.
Granted(d) == Lesser(now + Lesser(d, SignerMax), CANotAfter)

\* Mutants of tokenDuration: not clamped; the subtraction the wrong way round.
tokenDurationUnclamped(d, notAfter) == IF d <= 0 THEN DefaultJwtDuration ELSE d
tokenDurationSwapped(d, notAfter)   == Lesser(now - notAfter, d)

\* tokenDuration: the requested duration, never past the certificate.
tokenDuration(d, notAfter) ==
  LET want == IF d <= 0 THEN DefaultJwtDuration ELSE d
  IN  Lesser(notAfter - now, want)

\* Mutant of SecretOf: a step-up is stored as the session credential.
SecretOfSession(r) == ClientConfigSecretName(req[r].id.user)

SecretOf(r) ==
  IF req[r].id.stepUp THEN StepUpSecretName(req[r].id.user)
  ELSE ClientConfigSecretName(req[r].id.user)

--------------------------------------------------------------------------------
(* Types and the initial states *)

RequestPc == {"ready", "mint", "create", "update", "sign", "answered", "refused"}
Done      == {"answered", "refused"}

\* cert: the certificate minted for the request; exp: its token's expiry, 0 for
\* none; after: the requests already over when this one began.
Request == [pc: RequestPc, id: Identity, cert: Cert \cup {Unreadable}, exp: Nat, after: SUBSET Req]

\* cur: the listed Secret being stamped, none between two; sa: whether a
\* ServiceAccount mapping named its user was found; strategy: strategyOf.
FillState == [pc: {"idle", "pick", "lookup", "stamp"}, todo: SUBSET Item, cur: SUBSET Item,
              sa: BOOLEAN, strategy: Strategy \cup {""}]
FillIdle == [pc |-> "idle", todo |-> {}, cur |-> {}, sa |-> FALSE, strategy |-> ""]

TypeOK ==
  /\ secrets \in [Name -> Secret]
  /\ revision \in Nat
  /\ now \in Nat
  /\ declared \in [User -> SUBSET LoginStrategy]
  /\ req \in [Req -> Request]
  /\ sweep \in [Sweeper -> SUBSET Item]
  /\ fill \in [Filler -> FillState]

\* A credential stored by a release that recorded no identity, with or without
\* the validity annotation, or with one of the two identity annotations lost.
Legacy(u, G, s) ==
  LET c == [user |-> u, groups |-> G, notAfter |-> CertDuration, strategy |-> s, by |-> {}]
  IN  {[rv |-> 1, cert |-> c, ann |-> a] :
         a \in {NoAnnotations, [NoAnnotations EXCEPT !.notAfter = c.notAfter]} \cup
               IF ValidateGroups(G) THEN {[NoAnnotations EXCEPT !.groups = {G}]} ELSE {}}

\* What may be stored under n before this release starts: nothing, something
\* unreadable, or the session credential of a user who logged in before (or
\* authn's own).
LegacySecrets(n) ==
  {Absent} \cup
  IF n \notin Leftover THEN {} ELSE
    {[Absent EXCEPT !.rv = 1]} \cup
    (UNION {Legacy(id.user, withoutReserved(id.groups), id.strategy) :
              id \in {i \in Identity : ~i.stepUp /\ ClientConfigSecretName(i.user) = n}}) \cup
    IF n = ClientConfigSecretName(Self) THEN Legacy(Self, SelfGroups, "self") ELSE {}

Init ==
  /\ secrets \in {f \in [Name -> UNION {LegacySecrets(n) : n \in Name}] :
                    \A n \in Name : f[n] \in LegacySecrets(n)}
  /\ revision = 1
  /\ now = 0
  /\ declared \in [User -> SUBSET Declarable]
  /\ req \in [Req -> {[pc |-> "ready", id |-> i, cert |-> Unreadable, exp |-> 0, after |-> {}] :
                        i \in Identity}]
  /\ sweep = [w \in Sweeper |-> {}]
  /\ fill = [w \in Filler |-> FillIdle]

--------------------------------------------------------------------------------
(* The clock and the administrator's objects *)

Tick ==
  /\ now < MaxTime
  /\ now' = now + 1
  /\ UNCHANGED <<secrets, revision, declared, req, sweep, fill>>

\* A User or a ServiceAccount mapping is created or deleted.
Declare(u, s) ==
  /\ declared' = [declared EXCEPT ![u] = IF s \in @ THEN @ \ {s} ELSE @ \cup {s}]
  /\ UNCHANGED <<secrets, revision, now, req, sweep, fill>>

--------------------------------------------------------------------------------
(* A login request: checkGroups, mint, Put (create, else update), token *)

Goto(r, pc) == req' = [req EXCEPT ![r].pc = pc]

Begin(r) ==
  /\ req[r].pc = "ready"
  /\ req' = [req EXCEPT
       ![r].pc = IF checkGroups(UserInfoGroups(req[r].id), req[r].id.stepUp)
                 THEN "mint" ELSE "refused",
       ![r].after = {q \in Req : req[q].pc \in Done}]
  /\ UNCHANGED <<secrets, revision, now, declared, sweep, fill>>

\* generateClientCertAndKey: the CSR is this request's alone (its name is
\* generated), so creating, approving, awaiting and deleting it is one step.
Mint(r) ==
  /\ req[r].pc = "mint"
  /\ CANotAfter > now
  /\ req' = [req EXCEPT
       ![r].pc = "create",
       ![r].cert = [user |-> req[r].id.user, groups |-> UserInfoGroups(req[r].id),
                    notAfter |-> Granted(Requested(req[r].id.stepUp)),
                    strategy |-> req[r].id.strategy, by |-> {r}]]
  /\ UNCHANGED <<secrets, revision, now, declared, sweep, fill>>

\* The write of Put: create first, update only when told AlreadyExists.  A
\* write that took effect may still be reported as failed (a lost answer).
PutCreate(r) ==
  /\ req[r].pc = "create"
  /\ Create(SecretOf(r), req[r].cert, LoginAnnotations(req[r].id.strategy, req[r].cert))
  /\ \E pc \in {"sign", "refused"} : Goto(r, pc)
  /\ UNCHANGED <<now, declared, sweep, fill>>

\* Mutant of PutAlreadyExists: what is stored is good enough.
PutAlreadyExistsKept(r) ==
  /\ req[r].pc = "create"
  /\ Exists(SecretOf(r))
  /\ Goto(r, "sign")
  /\ UNCHANGED <<secrets, revision, now, declared, sweep, fill>>

PutAlreadyExists(r) ==
  /\ req[r].pc = "create"
  /\ Exists(SecretOf(r))
  /\ Goto(r, "update")
  /\ UNCHANGED <<secrets, revision, now, declared, sweep, fill>>

PutUpdate(r) ==
  /\ req[r].pc = "update"
  /\ Update(SecretOf(r), req[r].cert, LoginAnnotations(req[r].id.strategy, req[r].cert))
  /\ \E pc \in {"sign", "refused"} : Goto(r, pc)
  /\ UNCHANGED <<now, declared, sweep, fill>>

\* Mutant of PutNotFound: the request starts again.
PutNotFoundAnew(r) ==
  /\ req[r].pc = "update"
  /\ ~Exists(SecretOf(r))
  /\ Goto(r, "mint")
  /\ UNCHANGED <<secrets, revision, now, declared, sweep, fill>>

\* The Secret was deleted between the create and the update.
PutNotFound(r) ==
  /\ req[r].pc = "update"
  /\ ~Exists(SecretOf(r))
  /\ Goto(r, "refused")
  /\ UNCHANGED <<secrets, revision, now, declared, sweep, fill>>

\* Success: the token's lifetime is measured once the credential is stored.
Success(r) ==
  /\ req[r].pc = "sign"
  /\ req' = [req EXCEPT
       ![r].pc = "answered",
       ![r].exp = now + tokenDuration(Requested(req[r].id.stepUp), req[r].cert.notAfter)]
  /\ UNCHANGED <<secrets, revision, now, declared, sweep, fill>>

\* GET /basic/login?d: the kubeconfig is sent as an attachment, with no token.
Attach(r) ==
  /\ req[r].pc = "sign"
  /\ req[r].id.strategy = "basic" /\ ~req[r].id.stepUp
  /\ Goto(r, "answered")
  /\ UNCHANGED <<secrets, revision, now, declared, sweep, fill>>

\* Any call fails without effect, or the replica serving the request stops.
Fail(r) ==
  /\ req[r].pc \in {"mint", "create", "update", "sign"}
  /\ Goto(r, "refused")
  /\ UNCHANGED <<secrets, revision, now, declared, sweep, fill>>

--------------------------------------------------------------------------------
(* The step-up sweep: one pass lists the Secrets, then judges each by what  *)
(* the list said and deletes it on condition that it has not changed.       *)

\* Mutant of Expired: the grace period counted twice.
ExpiredLate(i) == i.cert # Unreadable /\ ~(now < i.cert.notAfter + 2 * Grace)

Expired(i) == i.cert # Unreadable /\ ~(now < i.cert.notAfter + Grace)

Sweep(w) ==
  /\ sweep[w] = {}
  /\ sweep' = [sweep EXCEPT ![w] = List(StepUpNames)]
  /\ UNCHANGED <<secrets, revision, now, declared, req, fill>>

Judged(w, i) == sweep' = [sweep EXCEPT ![w] = @ \ {i}]

SweepKeep(w, i) ==
  /\ i \in sweep[w] /\ ~Expired(i)
  /\ Judged(w, i)
  /\ UNCHANGED <<secrets, revision, now, declared, req, fill>>

SweepDelete(w, i) ==
  /\ i \in sweep[w] /\ Expired(i)
  /\ DeleteRead(i.name, i.rv)
  /\ Judged(w, i)
  /\ UNCHANGED <<now, declared, req, fill>>

\* Conflict or NotFound: rewritten by a new step-up, or already gone.
SweepConflict(w, i) ==
  /\ i \in sweep[w] /\ Expired(i)
  /\ ~Unchanged(i.name, i.rv)
  /\ Judged(w, i)
  /\ UNCHANGED <<secrets, revision, now, declared, req, fill>>

\* Any other error, or the leader stops: the rest of the pass is dropped.
SweepAbort(w) ==
  /\ sweep[w] # {}
  /\ sweep' = [sweep EXCEPT ![w] = {}]
  /\ UNCHANGED <<secrets, revision, now, declared, req, fill>>

--------------------------------------------------------------------------------
(* The identity backfill: list, then per Secret two lookups and one write   *)
(* conditional on the resourceVersion of the list.                          *)

Fill(w) ==
  /\ fill[w].pc = "idle"
  /\ fill' = [fill EXCEPT ![w] = [FillIdle EXCEPT !.pc = "pick", !.todo = List(ClientConfigNames)]]
  /\ UNCHANGED <<secrets, revision, now, declared, req, sweep>>

\* Both annotations present, or no certificate to derive them from.
FillSkip(w, i) ==
  /\ fill[w].pc = "pick" /\ i \in fill[w].todo
  /\ HasIdentity(i.ann) \/ i.cert = Unreadable
  /\ fill' = [fill EXCEPT ![w].todo = @ \ {i}]
  /\ UNCHANGED <<secrets, revision, now, declared, req, sweep>>

\* An identity annotation is missing and there is a certificate to derive it from.
Derivable(w, i) ==
  /\ fill[w].pc = "pick" /\ i \in fill[w].todo
  /\ ~HasIdentity(i.ann) /\ i.cert # Unreadable

\* strategyOf: authn's own name needs no lookup.
FillOwn(w, i) ==
  /\ Derivable(w, i) /\ i.cert.user = Self
  /\ fill' = [fill EXCEPT ![w].pc = "stamp", ![w].todo = @ \ {i}, ![w].cur = {i},
                          ![w].strategy = "self"]
  /\ UNCHANGED <<secrets, revision, now, declared, req, sweep>>

\* strategyOf, first half: the ServiceAccount lookup.
FillLookup(w, i) ==
  /\ Derivable(w, i) /\ i.cert.user # Self
  /\ fill' = [fill EXCEPT ![w].pc = "lookup", ![w].todo = @ \ {i}, ![w].cur = {i},
                          ![w].sa = "serviceaccount" \in declared[i.cert.user]]
  /\ UNCHANGED <<secrets, revision, now, declared, req, sweep>>

\* strategyOf, second half: the User lookup, and the verdict.
StrategyOf(sa, basic) ==
  IF sa /\ ~basic THEN "serviceaccount" ELSE IF basic /\ ~sa THEN "basic" ELSE "unknown"

FillDecide(w, i) ==
  /\ fill[w].pc = "lookup" /\ i \in fill[w].cur
  /\ fill' = [fill EXCEPT ![w].pc = "stamp",
       ![w].strategy = StrategyOf(fill[w].sa, "basic" \in declared[i.cert.user])]
  /\ UNCHANGED <<secrets, revision, now, declared, req, sweep>>

NextItem(w) ==
  fill' = [fill EXCEPT ![w] = [FillIdle EXCEPT !.pc = "pick", !.todo = fill[w].todo]]

\* Mutant of FillStamp: the groups are not validated.
FillStampUnvalidated(w, i) ==
  /\ fill[w].pc = "stamp" /\ i \in fill[w].cur
  /\ UpdateRead(i.name, i.rv, i.cert, Backfilled(i.ann, fill[w].strategy, i.cert))
  /\ NextItem(w)
  /\ UNCHANGED <<now, declared, req, sweep>>

\* IdentityAnnotations refuses groups it can't record, as FillSkipped.
FillStamp(w, i) ==
  /\ fill[w].pc = "stamp" /\ i \in fill[w].cur
  /\ ValidateGroups(i.cert.groups)
  /\ UpdateRead(i.name, i.rv, i.cert, Backfilled(i.ann, fill[w].strategy, i.cert))
  /\ NextItem(w)
  /\ UNCHANGED <<now, declared, req, sweep>>

\* The update is refused (a concurrent writer won), a call failed or the groups
\* can't be recorded.
FillSkipped(w) ==
  /\ fill[w].pc \in {"lookup", "stamp"}
  /\ NextItem(w)
  /\ UNCHANGED <<secrets, revision, now, declared, req, sweep>>

\* The pass is over, or the leader stops: a later leader starts it again.
FillDone(w) ==
  /\ fill[w].pc # "idle"
  /\ fill' = [fill EXCEPT ![w] = FillIdle]
  /\ UNCHANGED <<secrets, revision, now, declared, req, sweep>>

--------------------------------------------------------------------------------
RequestStep(r) ==
  \/ Begin(r) \/ Mint(r)
  \/ PutCreate(r) \/ PutAlreadyExists(r) \/ PutUpdate(r) \/ PutNotFound(r)
  \/ Success(r) \/ Attach(r) \/ Fail(r)

SweepStep(w) ==
  \/ Sweep(w) \/ SweepAbort(w)
  \/ \E i \in sweep[w] : SweepKeep(w, i) \/ SweepDelete(w, i) \/ SweepConflict(w, i)

FillStep(w) ==
  \/ Fill(w) \/ FillSkipped(w) \/ FillDone(w)
  \/ \E i \in fill[w].todo : FillSkip(w, i) \/ FillOwn(w, i) \/ FillLookup(w, i)
  \/ \E i \in fill[w].cur : FillDecide(w, i) \/ FillStamp(w, i)

Next ==
  \/ Tick
  \/ \E u \in User, s \in Declarable : Declare(u, s)
  \/ \E r \in Req : RequestStep(r)
  \/ \E w \in Sweeper : SweepStep(w)
  \/ \E w \in Filler : FillStep(w)

Spec == Init /\ [][Next]_vars

(***************************************************************************)
(* The leader keeps sweeping: it lists again after every pass, judges what *)
(* it listed, and a deletion the apiserver keeps being asked for is in the *)
(* end carried out.                                                        *)
(***************************************************************************)
Fairness ==
  \A w \in Sweeper :
    /\ WF_vars(Sweep(w))
    /\ WF_vars(\E i \in sweep[w] : SweepKeep(w, i) \/ SweepConflict(w, i))
    /\ SF_vars(\E i \in sweep[w] : SweepDelete(w, i))

FairSpec == Spec /\ Fairness

--------------------------------------------------------------------------------
(* Properties *)

\* A groups or validity annotation always describes the certificate stored
\* beside it, and groups are recorded only when they read back as they are,
\* although a login, an upgrade's backfill and the apiserver's unconditional
\* PUT meet on one Secret (storage.Put, backfill.Run).
AnnotationsDescribeCertificate ==
  \A n \in Name : Exists(n) =>
    LET s == secrets[n] IN
    /\ s.ann.groups # {} => /\ s.cert # Unreadable
                            /\ s.ann.groups = {s.cert.groups}
                            /\ ValidateGroups(s.cert.groups)
    /\ s.ann.notAfter # 0 => s.cert # Unreadable /\ s.ann.notAfter = s.cert.notAfter

\* The backfill never talks over a login: a credential this release issued
\* carries the strategy that issued it, whatever backfill read before.
LoginStrategyStands ==
  \A n \in Name : Exists(n) /\ secrets[n].cert # Unreadable /\ secrets[n].cert.by # {} =>
    secrets[n].ann.strategy = secrets[n].cert.strategy

\* Once a login is answered, its Secret never falls back to a credential that
\* predates it: what is stored was minted by a request that was not yet over
\* when this one began (Put's create-then-update, the sweep and the backfill
\* all write the same Secret).
AnsweredNotRolledBack ==
  \A r \in Req : req[r].pc = "answered" /\ Exists(SecretOf(r)) =>
    LET c == secrets[SecretOf(r)].cert
    IN  c # Unreadable /\ c.by # {} /\ c.by \cap req[r].after = {}

\* A token never outlives the certificate minted with it, and is signed only
\* for a certificate that was stored (tokenDuration, Success).
TokenWithinItsCertificate ==
  \A r \in Req : req[r].exp # 0 =>
    /\ req[r].cert # Unreadable
    /\ req[r].exp <= req[r].cert.notAfter

\* Every step is one of the lifecycle's: sessions are only replaced, step-ups
\* are removed only when expired, reserved groups stay on step-ups.
Held == [n \in Name |-> IF secrets[n].cert = Unreadable THEN {} ELSE {secrets[n].cert}]
AsLifecycle == INSTANCE CredentialLifecycle WITH held <- Held, clock <- now
LifecycleSpec == AsLifecycle!Lifecycle

\* A request mints one certificate and stores and answers that one, as Issuance mints
\* it call by call: nothing sends a request that has a certificate for another, not
\* even a Secret that is deleted before it is updated (issue, storage.Put).
Phase(x) ==
  CASE x.pc \in {"ready", "mint"}    -> "asking"
    [] x.pc \in {"create", "update"} -> "minted"
    [] x.pc = "sign"                 -> "stored"
    [] x.pc \in Done                 -> x.pc
ExpiryOf(x) == IF x.pc \in {"create", "update", "sign"} THEN x.cert.notAfter ELSE 0
Asked       == [r \in Req |-> Requested(req[r].id.stepUp)]
Phases      == [r \in Req |-> Phase(req[r])]
Expiries    == [r \in Req |-> ExpiryOf(req[r])]
AsMinting   == INSTANCE Minting WITH clock <- now, asked <- Asked, phase <- Phases, expiry <- Expiries
Minted      == AsMinting!MintingSpec

\* A step-up Secret whose certificate has been expired for the grace period is
\* deleted or rewritten (stepupsweep.Run), despite aborted passes and conflicts.
Stale(n) ==
  Exists(n) /\ secrets[n].cert # Unreadable /\ now >= secrets[n].cert.notAfter + Grace
ExpiredStepUpRemoved == \A n \in StepUpNames : Stale(n) ~> ~Stale(n)

\* docs/certificate-renewal.md: a user's session token never outlives the
\* certificate in its clientconfig Secret.
TokenNeverOutlivesSecret ==
  \A r \in Req : req[r].pc = "answered" /\ now < req[r].exp /\ ~req[r].id.stepUp =>
    LET s == secrets[SecretOf(r)]
    IN  s.cert # Unreadable /\ req[r].exp <= s.cert.notAfter
================================================================================
