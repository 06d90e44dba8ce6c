--------------------------- MODULE ClientConfigProofs ---------------------------
(***************************************************************************)
(* Proofs about ClientConfig, for any number of requests, sweepers,        *)
(* fillers, users and groups, any durations and any clock bound.           *)
(*                                                                         *)
(* The safety properties are not inductive as stated.  What makes them so  *)
(* is what the concurrent writers know of the store: a listed Secret is    *)
(* still what the list said as long as its resourceVersion is              *)
(* (SnapshotsFaithful), and a request that is still running carries a      *)
(* certificate of its own, for its own identity (RequestsFaithful).        *)
(***************************************************************************)
EXTENDS ClientConfig, TLAPS

\* A listed Secret: its resourceVersion was given out, and while the stored
\* Secret still has it, nothing else about it changed.
Faithful(i) ==
  /\ i.rv # 0
  /\ i.rv <= revision
  /\ secrets[i.name].rv = i.rv =>
       i.cert = secrets[i.name].cert /\ i.ann = secrets[i.name].ann

RevisionsGiven == \A n \in Name : secrets[n].rv <= revision

SweepFaithful == \A w \in Sweeper : \A i \in sweep[w] : Faithful(i) /\ i.name.stepUp

FillFaithful ==
  \A w \in Filler :
    /\ \A i \in fill[w].todo : Faithful(i)
    /\ \A i \in fill[w].cur : Faithful(i) /\ i.cert # Unreadable

SnapshotsFaithful == RevisionsGiven /\ SweepFaithful /\ FillFaithful

\* The certificate a request still holds was minted by it, for its identity.
OwnCertificate(r) ==
  /\ req[r].cert # Unreadable
  /\ req[r].cert.by = {r}
  /\ req[r].cert.user = req[r].id.user
  /\ req[r].cert.groups = UserInfoGroups(req[r].id)
  /\ req[r].cert.strategy = req[r].id.strategy
  /\ ValidateGroups(req[r].cert.groups)

RequestsFaithful ==
  \A r \in Req :
    /\ \A q \in req[r].after : req[q].pc \in Done
    /\ req[r].pc # "answered" => req[r].exp = 0
    /\ req[r].pc = "mint" => ValidateGroups(UserInfoGroups(req[r].id))
    /\ req[r].pc \in {"create", "update", "sign"} => OwnCertificate(r)

\* AnsweredNotRolledBack from the moment the credential is stored.
StoredNotRolledBack ==
  \A r \in Req : req[r].pc \in {"sign", "answered"} /\ Exists(SecretOf(r)) =>
    LET c == secrets[SecretOf(r)].cert
    IN  c # Unreadable /\ c.by # {} /\ c.by \cap req[r].after = {}

--------------------------------------------------------------------------------
(* Facts about the operators *)

\* A request's Secret has a name, and the name says whether it is a step-up's.
LEMMA SecretOfType ==
  ASSUME TypeOK, NEW r \in Req
  PROVE  /\ SecretOf(r) \in Name
         /\ SecretOf(r).dns = DnsName[req[r].id.user]
         /\ SecretOf(r).stepUp = req[r].id.stepUp
         /\ req[r].id \in Identity
<1>1. req[r].id \in Identity
  BY DEF TypeOK, Request
<1>2. req[r].id.user \in User /\ req[r].id.stepUp \in BOOLEAN
  BY <1>1, ClientConfigAssumption
<1>3. DnsName[req[r].id.user] \in Dns
  BY <1>2, CredentialsAssumption
<1>. QED
  BY <1>1, <1>2, <1>3 DEF SecretOf, StepUpSecretName, ClientConfigSecretName, Name

\* The groups a certificate may carry: a session's has no reserved one, a
\* step-up's has.
LEMMA UserInfoGroupsType ==
  ASSUME NEW id \in Identity
  PROVE  /\ UserInfoGroups(id) \in SUBSET Group
         /\ id.stepUp = (\E g \in UserInfoGroups(id) : IsReserved(g))
<1>1. id.groups \in SUBSET Group /\ id.stepUp \in BOOLEAN
  BY ClientConfigAssumption
<1>2. StepUpGroup \in Group /\ StepUpGroup \in Reserved
  BY ClientConfigAssumption, CredentialsAssumption
<1>. QED
  BY <1>1, <1>2 DEF UserInfoGroups, withoutReserved, IsReserved

\* The signer's grant and the token's lifetime are bounded by the certificate.
LEMMA GrantedType ==
  ASSUME TypeOK, NEW stepUp \in BOOLEAN
  PROVE  /\ Requested(stepUp) \in Nat
         /\ Granted(Requested(stepUp)) \in Nat
BY ClientConfigAssumption DEF TypeOK, Requested, Granted, Lesser

\* A token's expiry is a time, never after the certificate's.
LEMMA TokenBounded ==
  ASSUME TypeOK, NEW stepUp \in BOOLEAN, NEW t \in Nat
  PROVE  /\ now + tokenDuration(Requested(stepUp), t) \in Nat
         /\ now + tokenDuration(Requested(stepUp), t) <= t
BY ClientConfigAssumption DEF TypeOK, Requested, tokenDuration, Lesser

\* What a login records is a set of annotations a Secret can have.
LEMMA LoginAnnotationsType ==
  ASSUME NEW s \in Strategy, NEW c \in Cert
  PROVE  LoginAnnotations(s, c) \in Annotations
BY DEF LoginAnnotations, Annotations, Cert

\* What the backfill records is a set of annotations a Secret can have.
LEMMA BackfilledType ==
  ASSUME NEW a \in Annotations, NEW s \in Strategy \cup {""}, NEW c \in Cert
  PROVE  Backfilled(a, s, c) \in Annotations
BY DEF Backfilled, Annotations, Cert

\* Every write leaves a well-typed store.
LEMMA WriteType ==
  ASSUME TypeOK, NEW n \in Name, NEW c \in Cert \cup {Unreadable}, NEW a \in Annotations,
         Write(n, c, a)
  PROVE  secrets' \in [Name -> Secret] /\ revision' \in Nat
BY DEF TypeOK, Write, Secret

\* A conditional delete leaves a well-typed store.
LEMMA DeleteType ==
  ASSUME TypeOK, NEW n \in Name, NEW rv \in Nat, DeleteRead(n, rv)
  PROVE  secrets' \in [Name -> Secret] /\ revision' \in Nat
<1>1. Absent \in Secret
  BY DEF Absent, Secret, NoAnnotations, Annotations
<1>. QED
  BY <1>1 DEF TypeOK, DeleteRead

\* What a list returns is made of what is stored.
LEMMA ListType ==
  ASSUME TypeOK, NEW N \in SUBSET Name
  PROVE  /\ List(N) \in SUBSET Item
         /\ \A i \in List(N) : /\ i.name \in N /\ Exists(i.name)
                               /\ i = Listed(i.name)
BY DEF TypeOK, List, Listed, Item, Secret, Exists

--------------------------------------------------------------------------------
(* Type correctness *)

\* The annotations a legacy Secret has describe its certificate.
LEMMA LegacyRecords ==
  ASSUME NEW u \in User, NEW G \in SUBSET Group, NEW s \in LoginStrategy \cup {"self"},
         NEW x \in Legacy(u, G, s)
  PROVE  /\ x.rv = 1 /\ x.cert # Unreadable
         /\ x.ann.groups \in {{}, {x.cert.groups}}
         /\ x.ann.notAfter \in {0, x.cert.notAfter}
         /\ x.ann.groups # {} => ValidateGroups(x.cert.groups)
         /\ x.cert.by = {} /\ x.cert.user = u /\ x.cert.groups = G /\ x.cert \in Cert
<1>. DEFINE c == [user |-> u, groups |-> G, notAfter |-> CertDuration, strategy |-> s, by |-> {}]
<1>1. c \in Cert /\ c.by = {} /\ c.user = u /\ c.groups = G
  BY ClientConfigAssumption DEF Cert
<1>2. PICK a \in {NoAnnotations, [NoAnnotations EXCEPT !.notAfter = c.notAfter]} \cup
                 IF ValidateGroups(G) THEN {[NoAnnotations EXCEPT !.groups = {G}]} ELSE {} :
        x = [rv |-> 1, cert |-> c, ann |-> a]
  BY DEF Legacy
<1>. HIDE DEF c
<1>3. /\ NoAnnotations.groups = {} /\ NoAnnotations.notAfter = 0
      /\ [NoAnnotations EXCEPT !.notAfter = c.notAfter].groups = {}
      /\ [NoAnnotations EXCEPT !.notAfter = c.notAfter].notAfter = c.notAfter
      /\ [NoAnnotations EXCEPT !.groups = {G}].groups = {G}
      /\ [NoAnnotations EXCEPT !.groups = {G}].notAfter = 0
  BY DEF NoAnnotations
<1>4. /\ a.groups \in {{}, {c.groups}} /\ a.notAfter \in {0, c.notAfter}
      /\ a.groups # {} => ValidateGroups(c.groups)
  BY <1>1, <1>3
<1>5. x.rv = 1 /\ x.cert = c /\ x.ann = a
  BY <1>2
<1>6. c # Unreadable
  BY <1>1, CredentialsAssumption
<1>. QED
  BY <1>1, <1>4, <1>5, <1>6

\* A Secret of an earlier release is well typed.
LEMMA LegacyType ==
  ASSUME NEW u \in User, NEW G \in SUBSET Group, NEW s \in LoginStrategy \cup {"self"},
         NEW x \in Legacy(u, G, s)
  PROVE  x \in Secret
<1>. DEFINE c == [user |-> u, groups |-> G, notAfter |-> CertDuration, strategy |-> s, by |-> {}]
<1>1. c \in Cert
  BY ClientConfigAssumption DEF Cert
<1>2. PICK a \in {NoAnnotations, [NoAnnotations EXCEPT !.notAfter = c.notAfter]} \cup
                 IF ValidateGroups(G) THEN {[NoAnnotations EXCEPT !.groups = {G}]} ELSE {} :
        x = [rv |-> 1, cert |-> c, ann |-> a]
  BY DEF Legacy
<1>. HIDE DEF c
<1>3. c.notAfter \in Nat /\ {G} \in SUBSET SUBSET Group
  BY <1>1 DEF Cert
<1>4. NoAnnotations \in Annotations
  BY DEF NoAnnotations, Annotations
<1>5. a \in Annotations
  BY <1>3, <1>4 DEF Annotations
<1>. QED
  BY <1>1, <1>2, <1>5 DEF Secret

\* Where a Secret that was there before comes from.
LEMMA LegacySources ==
  ASSUME NEW n \in Name, NEW x \in LegacySecrets(n)
  PROVE  \/ x \in {Absent, [Absent EXCEPT !.rv = 1]}
         \/ \E id \in Identity :
              /\ ~id.stepUp /\ ClientConfigSecretName(id.user) = n
              /\ x \in Legacy(id.user, withoutReserved(id.groups), id.strategy)
         \/ n = ClientConfigSecretName(Self) /\ x \in Legacy(Self, SelfGroups, "self")
<1>. DEFINE L(id) == Legacy(id.user, withoutReserved(id.groups), id.strategy)
<1>. HIDE DEF L
<1>1. LegacySecrets(n) =
        {Absent} \cup
        IF n \notin Leftover THEN {} ELSE
          {[Absent EXCEPT !.rv = 1]} \cup
          (UNION {L(id) : id \in {i \in Identity : ~i.stepUp /\ ClientConfigSecretName(i.user) = n}}) \cup
          IF n = ClientConfigSecretName(Self) THEN Legacy(Self, SelfGroups, "self") ELSE {}
  BY DEF LegacySecrets, L
<1>2. \/ x \in {Absent, [Absent EXCEPT !.rv = 1]}
      \/ \E id \in Identity : ~id.stepUp /\ ClientConfigSecretName(id.user) = n /\ x \in L(id)
      \/ n = ClientConfigSecretName(Self) /\ x \in Legacy(Self, SelfGroups, "self")
  BY <1>1
<1>. QED
  BY <1>2 DEF L

\* The certificate of a user's earlier Secret is a session's, stored under its user's name.
LEMMA LegacyIdentity ==
  ASSUME NEW id \in Identity
  PROVE  /\ id.user \in User /\ id.strategy \in LoginStrategy \cup {"self"}
         /\ withoutReserved(id.groups) \in SUBSET Group
         /\ \A g \in withoutReserved(id.groups) : ~IsReserved(g)
<1>1. id.user \in User /\ id.groups \in SUBSET Group /\ id.strategy \in LoginStrategy
  BY ClientConfigAssumption
<1>. QED
  BY <1>1 DEF withoutReserved

\* What a Secret that was there before holds: a session credential for a user
\* it is named after, with annotations that describe it, or no certificate.
LegacyFacts(n, x) ==
  /\ x.rv <= 1
  /\ x.cert = Unreadable => x.ann.groups = {} /\ x.ann.notAfter = 0
  /\ x.cert # Unreadable =>
       /\ x.ann.groups \in {{}, {x.cert.groups}}
       /\ x.ann.notAfter \in {0, x.cert.notAfter}
       /\ x.ann.groups # {} => ValidateGroups(x.cert.groups)
       /\ x.cert \in Cert /\ x.cert.by = {}
       /\ n = ClientConfigSecretName(x.cert.user)
       /\ \A g \in x.cert.groups : ~IsReserved(g)

\* What an earlier release may have left under a name: nothing, something
\* unreadable, or a session credential of a user the Secret is named after.
LEMMA LegacyContents ==
  ASSUME NEW n \in Name, NEW x \in LegacySecrets(n)
  PROVE  LegacyFacts(n, x)
<1>1. ASSUME x \in {Absent, [Absent EXCEPT !.rv = 1]}
      PROVE  LegacyFacts(n, x)
  <2>1. /\ Absent.rv = 0 /\ Absent.cert = Unreadable /\ Absent.ann = NoAnnotations
        /\ [Absent EXCEPT !.rv = 1].rv = 1 /\ [Absent EXCEPT !.rv = 1].cert = Unreadable
        /\ [Absent EXCEPT !.rv = 1].ann = NoAnnotations
    BY DEF Absent
  <2>2. x = Absent \/ x = [Absent EXCEPT !.rv = 1]
    BY <1>1
  <2>3. x.rv \in {0, 1} /\ x.cert = Unreadable /\ x.ann = NoAnnotations
    BY <2>1, <2>2
  <2>4. NoAnnotations.groups = {} /\ NoAnnotations.notAfter = 0
    BY DEF NoAnnotations
  <2>. QED
    BY <2>3, <2>4 DEF LegacyFacts
<1>2. ASSUME NEW u \in User, NEW G \in SUBSET Group, NEW s \in LoginStrategy \cup {"self"},
             x \in Legacy(u, G, s), n = ClientConfigSecretName(u), \A g \in G : ~IsReserved(g)
      PROVE  LegacyFacts(n, x)
  <2>1. /\ x.rv = 1 /\ x.cert # Unreadable
        /\ x.ann.groups \in {{}, {x.cert.groups}}
        /\ x.ann.notAfter \in {0, x.cert.notAfter}
        /\ x.ann.groups # {} => ValidateGroups(x.cert.groups)
        /\ x.cert.by = {} /\ x.cert.user = u /\ x.cert.groups = G /\ x.cert \in Cert
    BY <1>2, LegacyRecords
  <2>. QED
    BY <1>2, <2>1 DEF LegacyFacts
<1>3. Self \in User /\ SelfGroups \in SUBSET Group /\ \A g \in SelfGroups : ~IsReserved(g)
  BY ClientConfigAssumption DEF IsReserved
<1>. QED
  BY <1>1, <1>2, <1>3, LegacySources, LegacyIdentity

\* Whatever an earlier release left is well typed.
LEMMA LegacySecretsType ==
  ASSUME NEW n \in Name, NEW x \in LegacySecrets(n)
  PROVE  x \in Secret
<1>1. Absent \in Secret /\ [Absent EXCEPT !.rv = 1] \in Secret
  BY DEF Absent, Secret, NoAnnotations, Annotations
<1>. QED
  BY <1>1, LegacySources, LegacyIdentity, LegacyType, ClientConfigAssumption

\* The initial states are well typed.
LEMMA InitType == Init => TypeOK
<1>. SUFFICES ASSUME Init PROVE TypeOK
  OBVIOUS
<1>1. secrets \in [Name -> Secret]
  BY LegacySecretsType DEF Init
<1>2. req \in [Req -> Request]
  <2>. DEFINE Ready == {[pc |-> "ready", id |-> i, cert |-> Unreadable, exp |-> 0, after |-> {}] :
                          i \in Identity}
  <2>1. req \in [Req -> Ready]
    BY DEF Init
  <2>2. Ready \subseteq Request
    BY DEF Request, RequestPc
  <2>. HIDE DEF Ready
  <2>. QED
    BY <2>1, <2>2
<1>3. declared \in [User -> SUBSET LoginStrategy]
  BY ClientConfigAssumption DEF Init, LoginStrategy
<1>4. fill \in [Filler -> FillState]
  BY DEF Init, FillIdle, FillState
<1>. QED
  BY <1>1, <1>2, <1>3, <1>4 DEF Init, TypeOK

\* Every step of a login request preserves the types.
LEMMA RequestStepType ==
  ASSUME TypeOK, RequestsFaithful, NEW r \in Req, RequestStep(r)
  PROVE  TypeOK'
<1>1. req[r] \in Request /\ req \in [Req -> Request]
  BY DEF TypeOK
<1>2. req[r].id \in Identity /\ req[r].id.user \in User /\ req[r].id.strategy \in LoginStrategy
      /\ req[r].id.stepUp \in BOOLEAN
  BY <1>1, ClientConfigAssumption DEF Request
<1>3. ASSUME NEW pc \in RequestPc, Goto(r, pc) PROVE req' \in [Req -> Request]
  BY <1>1, <1>3 DEF Goto, Request
<1>4. CASE Begin(r)
  <2>1. req' \in [Req -> Request]
    BY <1>1, <1>4 DEF Begin, Request, RequestPc
  <2>. QED
    BY <1>4, <2>1 DEF Begin, TypeOK
<1>5. CASE Mint(r)
  <2>. DEFINE c == [user |-> req[r].id.user, groups |-> UserInfoGroups(req[r].id),
                    notAfter |-> Granted(Requested(req[r].id.stepUp)),
                    strategy |-> req[r].id.strategy, by |-> {r}]
  <2>1. UserInfoGroups(req[r].id) \in SUBSET Group
    BY <1>2, UserInfoGroupsType
  <2>2. Granted(Requested(req[r].id.stepUp)) \in Nat
    BY <1>2, GrantedType
  <2>3. c \in Cert
    BY <1>2, <2>1, <2>2, ClientConfigAssumption DEF Cert
  <2>4. req' = [req EXCEPT ![r].pc = "create", ![r].cert = c]
    BY <1>5 DEF Mint
  <2>. HIDE DEF c
  <2>5. req' \in [Req -> Request]
    BY <1>1, <2>3, <2>4 DEF Request, RequestPc
  <2>. QED
    BY <1>5, <2>5 DEF Mint, TypeOK
<1>6. CASE PutCreate(r) \/ PutUpdate(r)
  <2>1. Write(SecretOf(r), req[r].cert, LoginAnnotations(req[r].id.strategy, req[r].cert))
    BY <1>6 DEF PutCreate, PutUpdate, Create, Update
  <2>2. req' \in [Req -> Request]
    BY <1>3, <1>6 DEF PutCreate, PutUpdate, RequestPc
  <2>3. SecretOf(r) \in Name /\ req[r].cert \in Cert
    BY <1>1, <1>6, SecretOfType DEF Request, RequestsFaithful, OwnCertificate, PutCreate, PutUpdate
  <2>4. LoginAnnotations(req[r].id.strategy, req[r].cert) \in Annotations
    BY <1>2, <2>3, LoginAnnotationsType DEF Strategy
  <2>5. secrets' \in [Name -> Secret] /\ revision' \in Nat
    BY <2>1, <2>3, <2>4, WriteType
  <2>. QED
    BY <1>6, <2>2, <2>5 DEF PutCreate, PutUpdate, TypeOK
<1>7. CASE PutAlreadyExists(r) \/ PutNotFound(r) \/ Attach(r) \/ Fail(r)
  <2>1. req' \in [Req -> Request]
    BY <1>3, <1>7 DEF PutAlreadyExists, PutNotFound, Attach, Fail, RequestPc
  <2>. QED
    BY <1>7, <2>1 DEF PutAlreadyExists, PutNotFound, Attach, Fail, TypeOK
<1>8. CASE Success(r)
  <2>1. req[r].cert.notAfter \in Nat
    BY <1>1, <1>8 DEF Request, Cert, RequestsFaithful, OwnCertificate, Success
  <2>2. now + tokenDuration(Requested(req[r].id.stepUp), req[r].cert.notAfter) \in Nat
    BY <1>2, <2>1, TokenBounded
  <2>3. req' \in [Req -> Request]
    BY <1>1, <1>8, <2>2 DEF Success, Request, RequestPc
  <2>. QED
    BY <1>8, <2>3 DEF Success, TypeOK
<1>. QED
  BY <1>4, <1>5, <1>6, <1>7, <1>8 DEF RequestStep

\* Every step of the sweep preserves the types.
LEMMA SweepStepType ==
  ASSUME TypeOK, NEW w \in Sweeper, SweepStep(w)
  PROVE  TypeOK'
<1>1. sweep[w] \in SUBSET Item
  BY DEF TypeOK
<1>2. CASE Sweep(w)
  <2>1. List(StepUpNames) \in SUBSET Item
    BY ListType DEF StepUpNames
  <2>. QED
    BY <1>2, <2>1 DEF Sweep, TypeOK
<1>3. CASE SweepAbort(w)
  BY <1>3 DEF SweepAbort, TypeOK
<1>4. ASSUME NEW i \in sweep[w], SweepKeep(w, i) \/ SweepConflict(w, i)
      PROVE  TypeOK'
  BY <1>1, <1>4 DEF SweepKeep, SweepConflict, Judged, TypeOK
<1>5. ASSUME NEW i \in sweep[w], SweepDelete(w, i)
      PROVE  TypeOK'
  <2>1. i.name \in Name /\ i.rv \in Nat
    BY <1>1 DEF Item
  <2>2. secrets' \in [Name -> Secret] /\ revision' \in Nat
    BY <1>5, <2>1, DeleteType DEF SweepDelete
  <2>3. sweep' \in [Sweeper -> SUBSET Item]
    BY <1>1, <1>5 DEF SweepDelete, Judged, TypeOK
  <2>. QED
    BY <1>5, <2>2, <2>3 DEF SweepDelete, TypeOK
<1>. QED
  BY <1>2, <1>3, <1>4, <1>5 DEF SweepStep

\* Every step of the backfill preserves the types.
LEMMA FillStepType ==
  ASSUME TypeOK, FillFaithful, NEW w \in Filler, FillStep(w)
  PROVE  TypeOK'
<1>1. fill[w] \in FillState /\ fill \in [Filler -> FillState]
  BY DEF TypeOK
<1>2. fill[w].todo \in SUBSET Item /\ fill[w].cur \in SUBSET Item
  BY <1>1 DEF FillState
<1>3. CASE Fill(w)
  <2>1. List(ClientConfigNames) \in SUBSET Item
    BY ListType DEF ClientConfigNames
  <2>2. [FillIdle EXCEPT !.pc = "pick", !.todo = List(ClientConfigNames)] \in FillState
    BY <2>1 DEF FillIdle, FillState
  <2>. QED
    BY <1>3, <2>2 DEF Fill, TypeOK
<1>4. ASSUME NextItem(w) PROVE fill' \in [Filler -> FillState]
  <2>1. [FillIdle EXCEPT !.pc = "pick", !.todo = fill[w].todo] \in FillState
    BY <1>2 DEF FillIdle, FillState
  <2>. QED
    BY <1>1, <1>4, <2>1 DEF NextItem
<1>5. CASE FillSkipped(w)
  BY <1>4, <1>5 DEF FillSkipped, TypeOK
<1>6. CASE FillDone(w)
  <2>1. FillIdle \in FillState
    BY DEF FillIdle, FillState
  <2>. QED
    BY <1>6, <2>1 DEF FillDone, TypeOK
<1>7. ASSUME NEW i \in fill[w].todo, FillSkip(w, i)
      PROVE  TypeOK'
  <2>1. fill' \in [Filler -> FillState]
    BY <1>1, <1>7 DEF FillSkip, FillState
  <2>. QED
    BY <1>7, <2>1 DEF FillSkip, TypeOK
<1>8. ASSUME NEW i \in fill[w].todo, FillOwn(w, i) \/ FillLookup(w, i)
      PROVE  TypeOK'
  <2>1. i \in Item /\ fill[w].todo \ {i} \in SUBSET Item
    BY <1>2
  <2>2. CASE FillOwn(w, i)
    <3>1. fill' \in [Filler -> FillState]
      BY <1>1, <2>1, <2>2 DEF FillOwn, FillState, Strategy
    <3>. QED
      BY <2>2, <3>1 DEF FillOwn, TypeOK
  <2>3. CASE FillLookup(w, i)
    <3>. DEFINE b == "serviceaccount" \in declared[i.cert.user]
    <3>1. fill' = [fill EXCEPT ![w].pc = "lookup", ![w].todo = @ \ {i}, ![w].cur = {i},
                              ![w].sa = b]
      BY <2>3 DEF FillLookup
    <3>2. b \in BOOLEAN
      OBVIOUS
    <3>. HIDE DEF b
    <3>3. fill' \in [Filler -> FillState]
      BY <1>1, <2>1, <3>1, <3>2 DEF FillState
    <3>. QED
      BY <2>3, <3>3 DEF FillLookup, TypeOK
  <2>. QED
    BY <1>8, <2>2, <2>3
<1>9. ASSUME NEW i \in fill[w].cur, FillDecide(w, i)
      PROVE  TypeOK'
  <2>. DEFINE s == StrategyOf(fill[w].sa, "basic" \in declared[i.cert.user])
  <2>1. s \in Strategy
    BY DEF StrategyOf, Strategy, LoginStrategy
  <2>2. fill' = [fill EXCEPT ![w].pc = "stamp", ![w].strategy = s]
    BY <1>9 DEF FillDecide
  <2>. HIDE DEF s
  <2>3. fill' \in [Filler -> FillState]
    BY <1>1, <2>1, <2>2 DEF FillState
  <2>. QED
    BY <1>9, <2>3 DEF FillDecide, TypeOK
<1>10. ASSUME NEW i \in fill[w].cur, FillStamp(w, i)
       PROVE  TypeOK'
  <2>1. i.name \in Name /\ i.cert \in Cert /\ i.ann \in Annotations
    BY <1>2 DEF Item, FillFaithful
  <2>2. Backfilled(i.ann, fill[w].strategy, i.cert) \in Annotations
    BY <1>1, <2>1, BackfilledType DEF FillState
  <2>3. secrets' \in [Name -> Secret] /\ revision' \in Nat
    BY <1>10, <2>1, <2>2, WriteType DEF FillStamp, UpdateRead
  <2>. QED
    BY <1>4, <1>10, <2>3 DEF FillStamp, TypeOK
<1>. QED
  BY <1>3, <1>5, <1>6, <1>7, <1>8, <1>9, <1>10 DEF FillStep

\* TypeOK is inductive on its own.
LEMMA TypeStep ==
  ASSUME TypeOK, SnapshotsFaithful, RequestsFaithful, [Next]_vars
  PROVE  TypeOK'
<1>1. CASE Tick
  BY <1>1 DEF Tick, TypeOK
<1>2. ASSUME NEW u \in User, NEW s \in Declarable, Declare(u, s)
      PROVE  TypeOK'
  <2>1. s \in LoginStrategy
    BY ClientConfigAssumption DEF LoginStrategy
  <2>2. declared' \in [User -> SUBSET LoginStrategy]
    BY <1>2, <2>1 DEF Declare, TypeOK
  <2>. QED
    BY <1>2, <2>2 DEF Declare, TypeOK
<1>3. CASE UNCHANGED vars
  BY <1>3 DEF vars, TypeOK
<1>. QED
  BY <1>1, <1>2, <1>3, RequestStepType, SweepStepType, FillStepType DEF Next, SnapshotsFaithful

--------------------------------------------------------------------------------
(* The store: who writes it, and what a write leaves of what was listed *)

\* The four actions that write a Secret; every other one leaves the store alone.
LEMMA StoreWriters ==
  ASSUME [Next]_vars
  PROVE  \/ UNCHANGED storeVars
         \/ \E r \in Req : PutCreate(r) \/ PutUpdate(r)
         \/ \E w \in Sweeper : \E i \in sweep[w] : SweepDelete(w, i)
         \/ \E w \in Filler : \E i \in fill[w].cur : FillStamp(w, i)
<1>1. ASSUME NEW r \in Req, RequestStep(r)
      PROVE  PutCreate(r) \/ PutUpdate(r) \/ UNCHANGED storeVars
  BY <1>1 DEF RequestStep, Begin, Mint, PutAlreadyExists, PutNotFound, Success, Attach, Fail, storeVars
<1>2. ASSUME NEW w \in Sweeper, SweepStep(w)
      PROVE  (\E i \in sweep[w] : SweepDelete(w, i)) \/ UNCHANGED storeVars
  BY <1>2 DEF SweepStep, Sweep, SweepAbort, SweepKeep, SweepConflict, storeVars
<1>3. ASSUME NEW w \in Filler, FillStep(w)
      PROVE  (\E i \in fill[w].cur : FillStamp(w, i)) \/ UNCHANGED storeVars
  BY <1>3 DEF FillStep, Fill, FillSkip, FillOwn, FillLookup, FillDecide, FillSkipped, FillDone, storeVars
<1>4. CASE Tick \/ (\E u \in User, s \in Declarable : Declare(u, s)) \/ UNCHANGED vars
  BY <1>4 DEF Tick, Declare, vars, storeVars
<1>. QED
  BY <1>1, <1>2, <1>3, <1>4 DEF Next

\* What the store may do in one step.
StoreStep ==
  \/ UNCHANGED storeVars
  \/ \E n \in Name, c \in Cert, a \in Annotations : Write(n, c, a)
  \/ \E n \in Name, rv \in Nat : DeleteRead(n, rv)

\* A step leaves the store alone, writes one Secret or deletes one.
LEMMA StoreSteps ==
  ASSUME TypeOK, SnapshotsFaithful, RequestsFaithful, [Next]_vars
  PROVE  StoreStep
<1>1. ASSUME NEW r \in Req, PutCreate(r) \/ PutUpdate(r) PROVE StoreStep
  <2>1. Write(SecretOf(r), req[r].cert, LoginAnnotations(req[r].id.strategy, req[r].cert))
    BY <1>1 DEF PutCreate, PutUpdate, Create, Update
  <2>2. SecretOf(r) \in Name /\ req[r].cert \in Cert
    BY <1>1, SecretOfType DEF TypeOK, Request, RequestsFaithful, OwnCertificate, PutCreate, PutUpdate
  <2>3. req[r].id.strategy \in Strategy
    BY SecretOfType, ClientConfigAssumption DEF Strategy
  <2>. QED
    BY <2>1, <2>2, <2>3, LoginAnnotationsType DEF StoreStep
<1>2. ASSUME NEW w \in Sweeper, NEW i \in sweep[w], SweepDelete(w, i) PROVE StoreStep
  <2>1. i.name \in Name /\ i.rv \in Nat
    BY DEF TypeOK, Item
  <2>. QED
    BY <1>2, <2>1 DEF SweepDelete, StoreStep
<1>3. ASSUME NEW w \in Filler, NEW i \in fill[w].cur, FillStamp(w, i) PROVE StoreStep
  <2>1. i \in Item /\ fill[w].strategy \in Strategy \cup {""}
    BY DEF TypeOK, FillState
  <2>2. i.name \in Name /\ i.cert \in Cert /\ i.ann \in Annotations
    BY <2>1 DEF Item, SnapshotsFaithful, FillFaithful
  <2>3. Backfilled(i.ann, fill[w].strategy, i.cert) \in Annotations
    BY <2>1, <2>2, BackfilledType
  <2>. QED
    BY <1>3, <2>2, <2>3 DEF FillStamp, UpdateRead, StoreStep
<1>. QED
  BY <1>1, <1>2, <1>3, StoreWriters DEF StoreStep

\* Resource versions are never given out twice.
LEMMA RevisionsGivenStep ==
  ASSUME TypeOK, RevisionsGiven, StoreStep
  PROVE  RevisionsGiven'
BY DEF TypeOK, RevisionsGiven, StoreStep, storeVars, Write, DeleteRead, Absent, Secret

\* A faithful snapshot stays faithful whoever writes the Secret.
LEMMA FaithfulKept ==
  ASSUME TypeOK, RevisionsGiven, StoreStep, NEW i \in Item, Faithful(i)
  PROVE  Faithful(i)'
<1>1. i.name \in Name /\ i.rv \in Nat
  BY DEF Item
<1>2. CASE UNCHANGED storeVars
  BY <1>2 DEF Faithful, storeVars
<1>3. ASSUME NEW n \in Name, NEW c \in Cert, NEW a \in Annotations, Write(n, c, a)
      PROVE  Faithful(i)'
  BY <1>1, <1>3 DEF TypeOK, Faithful, Write
<1>4. ASSUME NEW n \in Name, NEW rv \in Nat, DeleteRead(n, rv)
      PROVE  Faithful(i)'
  BY <1>1, <1>4 DEF TypeOK, Faithful, DeleteRead, Absent
<1>. QED
  BY <1>2, <1>3, <1>4 DEF StoreStep

\* A list is faithful when it is taken.
LEMMA ListFaithful ==
  ASSUME TypeOK, RevisionsGiven, UNCHANGED storeVars, NEW N \in SUBSET Name, NEW i \in List(N)
  PROVE  Faithful(i)' /\ i.name \in N
<1>1. i.name \in Name /\ Exists(i.name) /\ i = Listed(i.name) /\ i.name \in N
  BY ListType
<1>2. Faithful(i)
  BY <1>1 DEF Faithful, Listed, Exists, RevisionsGiven
<1>. QED
  BY <1>1, <1>2 DEF Faithful, storeVars

--------------------------------------------------------------------------------
(* The inductive invariant *)

\* What a sweeper still has to judge was listed before, or is listed now.
LEMMA SweepSnapshots ==
  ASSUME TypeOK, [Next]_vars, NEW w \in Sweeper, NEW i \in sweep'[w]
  PROVE  i \in sweep[w] \/ (UNCHANGED storeVars /\ i \in List(StepUpNames))
<1>1. ASSUME NEW v \in Sweeper, SweepStep(v)
      PROVE  i \in sweep[w] \/ (UNCHANGED storeVars /\ i \in List(StepUpNames))
  BY <1>1 DEF SweepStep, Sweep, SweepAbort, SweepKeep, SweepConflict, SweepDelete, Judged, TypeOK, storeVars
<1>2. ASSUME NEW r \in Req, RequestStep(r) PROVE sweep' = sweep
  BY <1>2 DEF RequestStep, Begin, Mint, PutCreate, PutUpdate, PutAlreadyExists, PutNotFound,
              Success, Attach, Fail
<1>3. ASSUME NEW v \in Filler, FillStep(v) PROVE sweep' = sweep
  BY <1>3 DEF FillStep, Fill, FillSkip, FillOwn, FillLookup, FillDecide, FillStamp, FillSkipped, FillDone
<1>. QED
  BY <1>1, <1>2, <1>3 DEF Next, Tick, Declare, vars

\* What a filler still has to stamp was listed before, or is listed now; the
\* Secret it is stamping holds a certificate.
LEMMA FillSnapshots ==
  ASSUME TypeOK, [Next]_vars, NEW w \in Filler
  PROVE  /\ \A i \in fill'[w].todo :
               i \in fill[w].todo \/ (UNCHANGED storeVars /\ i \in List(ClientConfigNames))
         /\ \A i \in fill'[w].cur :
               i \in fill[w].cur \/ (i \in fill[w].todo /\ i.cert # Unreadable)
<1>. DEFINE Goal == /\ \A i \in fill'[w].todo :
                           i \in fill[w].todo \/ (UNCHANGED storeVars /\ i \in List(ClientConfigNames))
                    /\ \A i \in fill'[w].cur :
                           i \in fill[w].cur \/ (i \in fill[w].todo /\ i.cert # Unreadable)
<1>1. ASSUME NEW v \in Filler, FillStep(v) PROVE Goal
  <2>1. fill \in [Filler -> FillState] /\ fill[w] \in FillState /\ fill[v] \in FillState
    BY DEF TypeOK
  <2>2. CASE Fill(v)
    BY <2>1, <2>2 DEF Fill, FillIdle, FillState, storeVars
  <2>3. CASE FillSkipped(v)
    BY <2>1, <2>3 DEF FillSkipped, NextItem, FillIdle, FillState
  <2>4. CASE FillDone(v)
    BY <2>1, <2>4 DEF FillDone, FillIdle, FillState
  <2>5. ASSUME NEW i \in fill[v].todo, FillSkip(v, i) PROVE Goal
    BY <2>1, <2>5 DEF FillSkip, FillState
  <2>6. ASSUME NEW i \in fill[v].todo, FillOwn(v, i) \/ FillLookup(v, i) PROVE Goal
    <3>. DEFINE Taken == /\ fill'[v].todo = fill[v].todo \ {i} /\ fill'[v].cur = {i}
                         /\ v # w => fill'[w] = fill[w]
    <3>1. i.cert # Unreadable
      BY <2>6 DEF FillOwn, FillLookup, Derivable
    <3>2. ASSUME FillOwn(v, i) PROVE Taken
      BY <2>1, <3>2 DEF FillOwn, FillState
    <3>3. ASSUME FillLookup(v, i) PROVE Taken
      <4>. DEFINE b == "serviceaccount" \in declared[i.cert.user]
      <4>1. fill' = [fill EXCEPT ![v].pc = "lookup", ![v].todo = @ \ {i}, ![v].cur = {i},
                                ![v].sa = b]
        BY <3>3 DEF FillLookup
      <4>. HIDE DEF b
      <4>. QED
        BY <2>1, <4>1 DEF FillState
    <3>4. Taken
      BY <2>6, <3>2, <3>3
    <3>. QED
      BY <3>1, <3>4
  <2>7. ASSUME NEW i \in fill[v].cur, FillDecide(v, i) PROVE Goal
    <3>1. fill'[w].todo = fill[w].todo /\ fill'[w].cur = fill[w].cur
      BY <2>1, <2>7 DEF FillDecide, FillState
    <3>. QED
      BY <3>1
  <2>8. ASSUME NEW i \in fill[v].cur, FillStamp(v, i) PROVE Goal
    BY <2>1, <2>8 DEF FillStamp, NextItem, FillIdle, FillState
  <2>. QED
    BY <1>1, <2>2, <2>3, <2>4, <2>5, <2>6, <2>7, <2>8 DEF FillStep
<1>2. ASSUME NEW r \in Req, RequestStep(r) PROVE fill' = fill
  BY <1>2 DEF RequestStep, Begin, Mint, PutCreate, PutUpdate, PutAlreadyExists, PutNotFound,
              Success, Attach, Fail
<1>3. ASSUME NEW v \in Sweeper, SweepStep(v) PROVE fill' = fill
  BY <1>3 DEF SweepStep, Sweep, SweepAbort, SweepKeep, SweepConflict, SweepDelete
<1>. QED
  BY <1>1, <1>2, <1>3 DEF Next, Tick, Declare, vars

\* What the sweepers and fillers listed stays faithful, whoever takes a step.
LEMMA SnapshotsStep ==
  ASSUME TypeOK, SnapshotsFaithful, RequestsFaithful, [Next]_vars
  PROVE  SnapshotsFaithful'
<1>1. StoreStep /\ RevisionsGiven
  BY StoreSteps DEF SnapshotsFaithful
<1>2. RevisionsGiven'
  BY <1>1, RevisionsGivenStep
<1>3. SweepFaithful'
  <2>1. ASSUME NEW w \in Sweeper, NEW i \in sweep'[w]
        PROVE  Faithful(i)' /\ i.name.stepUp
    <3>1. CASE i \in sweep[w]
      <4>1. i \in Item /\ Faithful(i) /\ i.name.stepUp
        BY <3>1 DEF TypeOK, SnapshotsFaithful, SweepFaithful
      <4>. QED
        BY <1>1, <4>1, FaithfulKept
    <3>2. CASE UNCHANGED storeVars /\ i \in List(StepUpNames)
      BY <1>1, <3>2, ListFaithful DEF StepUpNames
    <3>. QED
      BY <3>1, <3>2, SweepSnapshots
  <2>. QED
    BY <2>1 DEF SweepFaithful
<1>4. FillFaithful'
  <2>1. ASSUME NEW w \in Filler, NEW i \in fill'[w].todo
        PROVE  Faithful(i)'
    <3>1. CASE i \in fill[w].todo
      <4>1. i \in Item /\ Faithful(i)
        BY <3>1 DEF TypeOK, FillState, SnapshotsFaithful, FillFaithful
      <4>. QED
        BY <1>1, <4>1, FaithfulKept
    <3>2. CASE UNCHANGED storeVars /\ i \in List(ClientConfigNames)
      BY <1>1, <3>2, ListFaithful DEF ClientConfigNames
    <3>. QED
      BY <3>1, <3>2, FillSnapshots
  <2>2. ASSUME NEW w \in Filler, NEW i \in fill'[w].cur
        PROVE  Faithful(i)' /\ i.cert # Unreadable
    <3>1. i \in fill[w].cur \/ (i \in fill[w].todo /\ i.cert # Unreadable)
      BY FillSnapshots
    <3>2. i \in Item /\ Faithful(i) /\ i.cert # Unreadable
      BY <3>1 DEF TypeOK, FillState, SnapshotsFaithful, FillFaithful
    <3>. QED
      BY <1>1, <3>2, FaithfulKept
  <2>. QED
    BY <2>1, <2>2 DEF FillFaithful
<1>. QED
  BY <1>2, <1>3, <1>4 DEF SnapshotsFaithful

\* A step of a request touches no other request, and a request that is over
\* takes no step.
LEMMA RequestAlone ==
  ASSUME TypeOK, NEW r \in Req, RequestStep(r)
  PROVE  /\ req[r].pc \notin Done
         /\ \A q \in Req : q # r => req'[q] = req[q]
         /\ req'[r].id = req[r].id
         /\ req[r].pc # "ready" => req'[r].after = req[r].after
<1>1. req \in [Req -> Request]
  BY DEF TypeOK
<1>2. ASSUME NEW pc, Goto(r, pc)
      PROVE  /\ \A q \in Req : q # r => req'[q] = req[q]
             /\ req'[r].id = req[r].id /\ req'[r].after = req[r].after
  BY <1>1, <1>2 DEF Goto, Request
<1>3. CASE Begin(r)
  BY <1>1, <1>3 DEF Begin, Request, Done
<1>4. CASE Mint(r)
  BY <1>1, <1>4 DEF Mint, Request, Done
<1>5. CASE Success(r)
  BY <1>1, <1>5 DEF Success, Request, Done
<1>6. CASE PutCreate(r) \/ PutUpdate(r)
  BY <1>2, <1>6 DEF PutCreate, PutUpdate, Done
<1>7. CASE PutAlreadyExists(r) \/ PutNotFound(r) \/ Attach(r) \/ Fail(r)
  BY <1>2, <1>7 DEF PutAlreadyExists, PutNotFound, Attach, Fail, Done
<1>. QED
  BY <1>3, <1>4, <1>5, <1>6, <1>7 DEF RequestStep

\* Every step that is not a request's leaves all of them alone.
LEMMA RequestSteps ==
  ASSUME [Next]_vars
  PROVE  req' = req \/ \E r \in Req : RequestStep(r)
<1>1. ASSUME NEW v \in Sweeper, SweepStep(v) PROVE req' = req
  BY <1>1 DEF SweepStep, Sweep, SweepAbort, SweepKeep, SweepConflict, SweepDelete
<1>2. ASSUME NEW v \in Filler, FillStep(v) PROVE req' = req
  BY <1>2 DEF FillStep, Fill, FillSkip, FillOwn, FillLookup, FillDecide, FillStamp, FillSkipped, FillDone
<1>. QED
  BY <1>1, <1>2 DEF Next, Tick, Declare, vars

\* Requests keep a certificate of their own while they run.
LEMMA RequestsStep ==
  ASSUME TypeOK, RequestsFaithful, [Next]_vars
  PROVE  RequestsFaithful'
<1>1. CASE req' = req
  BY <1>1 DEF RequestsFaithful, OwnCertificate, Done
<1>2. ASSUME NEW r \in Req, RequestStep(r)
      PROVE  RequestsFaithful'
  <2>. DEFINE Ok(q) == /\ req[q].pc # "answered" => req[q].exp = 0
                       /\ req[q].pc = "mint" => ValidateGroups(UserInfoGroups(req[q].id))
                       /\ req[q].pc \in {"create", "update", "sign"} => OwnCertificate(q)
  <2>1. req \in [Req -> Request] /\ req[r] \in Request
    BY DEF TypeOK
  <2>2. Ok(r)
    BY DEF RequestsFaithful
  <2>3. ASSUME NEW pc, Goto(r, pc), pc # "mint",
               pc \in {"create", "update", "sign"} => OwnCertificate(r)
        PROVE  Ok(r)'
    BY <2>1, <2>2, <2>3, <1>2, RequestAlone DEF Goto, Request, OwnCertificate, Done
  <2>4. ASSUME Begin(r) PROVE Ok(r)'
    <3>1. checkGroups(UserInfoGroups(req[r].id), req[r].id.stepUp) =>
            ValidateGroups(UserInfoGroups(req[r].id))
      BY DEF checkGroups
    <3>. QED
      BY <2>1, <2>2, <2>4, <3>1 DEF Begin, Request
  <2>5. ASSUME Mint(r) PROVE Ok(r)'
    <3>. DEFINE c == [user |-> req[r].id.user, groups |-> UserInfoGroups(req[r].id),
                      notAfter |-> Granted(Requested(req[r].id.stepUp)),
                      strategy |-> req[r].id.strategy, by |-> {r}]
    <3>1. c \in Cert
      <4>1. UserInfoGroups(req[r].id) \in SUBSET Group
        BY <2>1, UserInfoGroupsType DEF Request
      <4>2. Granted(Requested(req[r].id.stepUp)) \in Nat
        BY <2>1, SecretOfType, GrantedType, ClientConfigAssumption
      <4>. QED
        BY <4>1, <4>2, SecretOfType, ClientConfigAssumption DEF Cert
    <3>2. req'[r].cert = c /\ req'[r].exp = req[r].exp /\ req'[r].id = req[r].id
          /\ req[r].pc = "mint"
      BY <2>1, <2>5 DEF Mint, Request
    <3>3. c # Unreadable
      BY <3>1, CredentialsAssumption
    <3>. QED
      BY <2>2, <3>2, <3>3 DEF OwnCertificate
  <2>6. ASSUME PutCreate(r) \/ PutUpdate(r) \/ PutAlreadyExists(r) PROVE Ok(r)'
    BY <2>2, <2>3, <2>6 DEF PutCreate, PutUpdate, PutAlreadyExists
  <2>7. ASSUME PutNotFound(r) \/ Attach(r) \/ Fail(r) PROVE Ok(r)'
    BY <2>3, <2>7 DEF PutNotFound, Attach, Fail
  <2>8. ASSUME Success(r) PROVE Ok(r)'
    BY <2>1, <2>8 DEF Success, Request
  <2>9. Ok(r)'
    BY <1>2, <2>4, <2>5, <2>6, <2>7, <2>8 DEF RequestStep
  <2>10. ASSUME NEW q \in Req PROVE Ok(q)'
    BY <1>2, <2>9, RequestAlone DEF RequestsFaithful, OwnCertificate
  <2>11. ASSUME NEW q \in Req, NEW p \in req'[q].after PROVE req'[p].pc \in Done
    <3>1. req'[q].after \in SUBSET Req /\ req[p].pc \in Done
      <4>1. CASE q = r /\ Begin(r)
        BY <2>1, <2>11, <4>1 DEF Begin, Request
      <4>2. CASE ~(q = r /\ Begin(r))
        <5>1. req[r].pc = "ready" => Begin(r)
          BY <1>2 DEF RequestStep, Mint, PutCreate, PutUpdate, PutAlreadyExists, PutNotFound,
             Success, Attach, Fail
        <5>2. req'[q].after = req[q].after
          BY <1>2, <4>2, <5>1, RequestAlone
        <5>. QED
          BY <2>1, <2>11, <5>2 DEF RequestsFaithful, Request
      <4>. QED
        BY <4>1, <4>2
    <3>. QED
      BY <1>2, <3>1, RequestAlone
  <2>. QED
    BY <2>10, <2>11 DEF RequestsFaithful
<1>. QED
  BY <1>1, <1>2, RequestSteps

--------------------------------------------------------------------------------
(* What the four writers store *)

\* A login stores its own certificate with annotations that describe it.
LEMMA PutStores ==
  ASSUME TypeOK, RequestsFaithful, NEW r \in Req, PutCreate(r) \/ PutUpdate(r)
  PROVE  /\ SecretOf(r) \in Name
         /\ req[r].pc \in {"create", "update"}
         /\ OwnCertificate(r) /\ req[r].cert \in Cert
         /\ secrets' = [secrets EXCEPT ![SecretOf(r)] =
              [rv |-> revision + 1, cert |-> req[r].cert,
               ann |-> LoginAnnotations(req[r].id.strategy, req[r].cert)]]
         /\ revision' = revision + 1
         /\ \E pc \in {"sign", "refused"} : Goto(r, pc)
BY SecretOfType DEF TypeOK, Request, RequestsFaithful, OwnCertificate, PutCreate, PutUpdate,
   Create, Update, Write

\* The sweep removes a step-up Secret that is, at that moment, expired.
LEMMA SweepRemoves ==
  ASSUME TypeOK, SnapshotsFaithful, NEW w \in Sweeper, NEW i \in sweep[w], SweepDelete(w, i)
  PROVE  /\ i.name \in Name /\ i.name.stepUp
         /\ secrets[i.name].cert \in Cert
         /\ now >= secrets[i.name].cert.notAfter + Grace
         /\ secrets' = [secrets EXCEPT ![i.name] = Absent]
         /\ req' = req /\ now' = now
<1>1. i \in Item /\ Faithful(i) /\ i.name.stepUp
  BY DEF TypeOK, SnapshotsFaithful, SweepFaithful
<1>2. i.name \in Name /\ i.cert \in Cert /\ ~(now < i.cert.notAfter + Grace)
  BY <1>1 DEF SweepDelete, Expired, Item
<1>3. i.cert = secrets[i.name].cert
  BY <1>1 DEF Faithful, SweepDelete, DeleteRead, Unchanged
<1>4. i.cert.notAfter + Grace \in Nat /\ now \in Nat
  BY <1>2, ClientConfigAssumption DEF Cert, TypeOK
<1>. QED
  BY <1>1, <1>2, <1>3, <1>4 DEF SweepDelete, DeleteRead

\* The backfill rewrites a Secret as it is, its missing annotations apart.
LEMMA FillRewrites ==
  ASSUME TypeOK, SnapshotsFaithful, NEW w \in Filler, NEW i \in fill[w].cur, FillStamp(w, i)
  PROVE  /\ i.name \in Name
         /\ secrets[i.name].cert \in Cert
         /\ secrets[i.name].ann \in Annotations
         /\ Exists(i.name) /\ ValidateGroups(secrets[i.name].cert.groups)
         /\ secrets' = [secrets EXCEPT ![i.name] =
              [rv |-> revision + 1, cert |-> secrets[i.name].cert,
               ann |-> Backfilled(secrets[i.name].ann, fill[w].strategy, secrets[i.name].cert)]]
         /\ req' = req /\ now' = now
<1>1. i \in Item /\ Faithful(i) /\ i.cert # Unreadable
  BY DEF TypeOK, FillState, SnapshotsFaithful, FillFaithful
<1>2. i.name \in Name /\ i.cert \in Cert /\ i.ann \in Annotations
  BY <1>1 DEF Item
<1>3. i.cert = secrets[i.name].cert /\ i.ann = secrets[i.name].ann
  BY <1>1 DEF Faithful, FillStamp, UpdateRead, Unchanged
<1>. QED
  BY <1>1, <1>2, <1>3 DEF FillStamp, UpdateRead, Unchanged, Write

\* The backfill's write keeps the certificate and fills in what is absent.
LEMMA FillRewritesAt ==
  ASSUME TypeOK, SnapshotsFaithful, NEW w \in Filler, NEW i \in fill[w].cur, FillStamp(w, i),
         NEW n \in Name, secrets'[n] # secrets[n]
  PROVE  /\ secrets'[n].cert = secrets[n].cert
         /\ secrets'[n].ann = Backfilled(secrets[n].ann, fill[w].strategy, secrets[n].cert)
         /\ secrets[n].cert \in Cert /\ secrets[n].ann \in Annotations /\ Exists(n)
         /\ ValidateGroups(secrets[n].cert.groups)
<1>. DEFINE x == [rv |-> revision + 1, cert |-> secrets[i.name].cert,
                  ann |-> Backfilled(secrets[i.name].ann, fill[w].strategy, secrets[i.name].cert)]
<1>1. /\ i.name \in Name /\ secrets[i.name].cert \in Cert
      /\ secrets[i.name].ann \in Annotations /\ Exists(i.name)
      /\ ValidateGroups(secrets[i.name].cert.groups)
      /\ secrets' = [secrets EXCEPT ![i.name] = x]
  BY FillRewrites
<1>2. /\ x.cert = secrets[i.name].cert
      /\ x.ann = Backfilled(secrets[i.name].ann, fill[w].strategy, secrets[i.name].cert)
  OBVIOUS
<1>. HIDE DEF x
<1>3. n = i.name /\ secrets'[n] = x
  BY <1>1 DEF TypeOK
<1>. QED
  BY <1>1, <1>2, <1>3

--------------------------------------------------------------------------------
(* The safety properties *)

\* Logins and backfills leave annotations that describe the certificate.
LEMMA AnnotationsStep ==
  ASSUME TypeOK, SnapshotsFaithful, RequestsFaithful, AnnotationsDescribeCertificate, [Next]_vars
  PROVE  AnnotationsDescribeCertificate'
<1>. SUFFICES ASSUME NEW n \in Name, Exists(n)'
              PROVE  /\ secrets'[n].ann.groups # {} =>
                          /\ secrets'[n].cert # Unreadable
                          /\ secrets'[n].ann.groups = {secrets'[n].cert.groups}
                          /\ ValidateGroups(secrets'[n].cert.groups)
                     /\ secrets'[n].ann.notAfter # 0 =>
                          /\ secrets'[n].cert # Unreadable
                          /\ secrets'[n].ann.notAfter = secrets'[n].cert.notAfter
  BY DEF AnnotationsDescribeCertificate
<1>0. secrets \in [Name -> Secret]
  BY DEF TypeOK
<1>1. CASE secrets'[n] = secrets[n]
  BY <1>1 DEF AnnotationsDescribeCertificate, Exists
<1>2. CASE UNCHANGED storeVars
  BY <1>1, <1>2 DEF storeVars
<1>3. ASSUME NEW r \in Req, PutCreate(r) \/ PutUpdate(r), secrets'[n] # secrets[n]
      PROVE  /\ secrets'[n].cert = req[r].cert
             /\ secrets'[n].ann = LoginAnnotations(req[r].id.strategy, req[r].cert)
             /\ req[r].cert # Unreadable /\ ValidateGroups(req[r].cert.groups)
  BY <1>0, <1>3, PutStores DEF OwnCertificate
<1>4. ASSUME NEW w \in Sweeper, NEW i \in sweep[w], SweepDelete(w, i)
      PROVE  secrets'[n] = secrets[n]
  BY <1>0, <1>4, SweepRemoves DEF Exists, Absent
<1>5. ASSUME NEW w \in Filler, NEW i \in fill[w].cur, FillStamp(w, i), secrets'[n] # secrets[n]
      PROVE  /\ secrets'[n].cert = secrets[n].cert
             /\ secrets'[n].ann = Backfilled(secrets[n].ann, fill[w].strategy, secrets[n].cert)
             /\ secrets[n].cert \in Cert /\ secrets[n].ann \in Annotations /\ Exists(n)
             /\ ValidateGroups(secrets[n].cert.groups)
  BY <1>0, <1>5, FillRewritesAt
<1>6. ASSUME NEW w \in Filler, NEW i \in fill[w].cur, FillStamp(w, i), secrets'[n] # secrets[n]
      PROVE  /\ secrets'[n].ann.groups \in {secrets[n].ann.groups, {secrets[n].cert.groups}}
             /\ secrets'[n].ann.notAfter = secrets[n].ann.notAfter
             /\ secrets'[n].cert # Unreadable
  BY <1>5, <1>6, CredentialsAssumption DEF Backfilled, Annotations
<1>7. CASE \E r \in Req : PutCreate(r) \/ PutUpdate(r)
  <2>1. PICK r \in Req : PutCreate(r) \/ PutUpdate(r)
    BY <1>7
  <2>2. CASE secrets'[n] # secrets[n]
    <3>1. /\ secrets'[n].cert = req[r].cert /\ req[r].cert # Unreadable
          /\ ValidateGroups(req[r].cert.groups)
          /\ secrets'[n].ann = LoginAnnotations(req[r].id.strategy, req[r].cert)
      BY <1>3, <2>1, <2>2
    <3>2. /\ secrets'[n].ann.groups = {secrets'[n].cert.groups}
          /\ secrets'[n].ann.notAfter = secrets'[n].cert.notAfter
      BY <3>1 DEF LoginAnnotations
    <3>. QED
      BY <3>1, <3>2
  <2>. QED
    BY <1>1, <2>2
<1>8. CASE \E w \in Filler : \E i \in fill[w].cur : FillStamp(w, i)
  <2>0. PICK w \in Filler : \E i \in fill[w].cur : FillStamp(w, i)
    BY <1>8
  <2>1. PICK i \in fill[w].cur : FillStamp(w, i)
    BY <2>0
  <2>2. CASE secrets'[n] # secrets[n]
    <3>1. secrets[n].ann.notAfter # 0 => secrets[n].ann.notAfter = secrets[n].cert.notAfter
      BY <1>5, <2>1, <2>2 DEF AnnotationsDescribeCertificate
    <3>2. secrets[n].ann.groups # {} => secrets[n].ann.groups = {secrets[n].cert.groups}
      BY <1>5, <2>1, <2>2 DEF AnnotationsDescribeCertificate
    <3>. QED
      BY <1>5, <1>6, <2>1, <2>2, <3>1, <3>2
  <2>. QED
    BY <1>1, <2>2
<1>. QED
  BY <1>1, <1>2, <1>4, <1>7, <1>8, StoreWriters

\* Logins and backfills leave a login's recorded strategy alone.
LEMMA StrategyStep ==
  ASSUME TypeOK, SnapshotsFaithful, RequestsFaithful, LoginStrategyStands, [Next]_vars
  PROVE  LoginStrategyStands'
<1>. SUFFICES ASSUME NEW n \in Name, Exists(n)', secrets'[n].cert # Unreadable,
                     secrets'[n].cert.by # {}
              PROVE  secrets'[n].ann.strategy = secrets'[n].cert.strategy
  BY DEF LoginStrategyStands
<1>0. secrets \in [Name -> Secret]
  BY DEF TypeOK
<1>1. CASE secrets'[n] = secrets[n]
  BY <1>1 DEF LoginStrategyStands, Exists
<1>2. CASE UNCHANGED storeVars
  BY <1>1, <1>2 DEF storeVars
<1>3. ASSUME NEW r \in Req, PutCreate(r) \/ PutUpdate(r), secrets'[n] # secrets[n]
      PROVE  secrets'[n].ann.strategy = secrets'[n].cert.strategy
  BY <1>0, <1>3, PutStores DEF OwnCertificate, LoginAnnotations
<1>4. ASSUME NEW w \in Sweeper, NEW i \in sweep[w], SweepDelete(w, i)
      PROVE  secrets'[n] = secrets[n]
  BY <1>0, <1>4, SweepRemoves DEF Exists, Absent
<1>5. ASSUME NEW w \in Filler, NEW i \in fill[w].cur, FillStamp(w, i), secrets'[n] # secrets[n]
      PROVE  secrets'[n].ann.strategy = secrets'[n].cert.strategy
  <2>1. /\ secrets'[n].cert = secrets[n].cert
        /\ secrets'[n].ann = Backfilled(secrets[n].ann, fill[w].strategy, secrets[n].cert)
        /\ secrets[n].cert \in Cert /\ secrets[n].ann \in Annotations /\ Exists(n)
    BY <1>0, <1>5, FillRewritesAt
  <2>2. secrets[n].ann.strategy = secrets[n].cert.strategy
    BY <2>1 DEF LoginStrategyStands
  <2>3. secrets[n].ann.strategy # ""
    BY <2>1, <2>2 DEF Cert, LoginStrategy
  <2>. QED
    BY <2>1, <2>2, <2>3 DEF Backfilled, Annotations
<1>. QED
  BY <1>1, <1>2, <1>3, <1>4, <1>5, StoreWriters

\* No writer brings back a credential that predates an answered login.
LEMMA NotRolledBackStep ==
  ASSUME TypeOK, SnapshotsFaithful, RequestsFaithful, StoredNotRolledBack, [Next]_vars
  PROVE  StoredNotRolledBack'
<1>. DEFINE Good(c, r) == c # Unreadable /\ c.by # {} /\ c.by \cap req[r].after = {}
<1>. SUFFICES ASSUME NEW r \in Req, req'[r].pc \in {"sign", "answered"},
                     Exists(SecretOf(r))'
              PROVE  Good(secrets[SecretOf(r)].cert, r)'
  BY DEF StoredNotRolledBack
<1>0. secrets \in [Name -> Secret] /\ req \in [Req -> Request] /\ SecretOf(r) \in Name
  BY SecretOfType DEF TypeOK
<1>1. req'[r].id = req[r].id /\ SecretOf(r)' = SecretOf(r)
  <2>1. req'[r].id = req[r].id
    BY RequestSteps, RequestAlone
  <2>. QED
    BY <2>1 DEF SecretOf
<1>2. ASSUME req[r].pc \in {"sign", "answered"}, req'[r].after = req[r].after,
             Exists(SecretOf(r)), secrets'[SecretOf(r)].cert = secrets[SecretOf(r)].cert
      PROVE  Good(secrets[SecretOf(r)].cert, r)'
  BY <1>1, <1>2 DEF StoredNotRolledBack
<1>3. CASE UNCHANGED storeVars
  <2>1. req[r].pc \in {"sign", "answered"} /\ req'[r].after = req[r].after
    <3>1. CASE req' = req
      BY <3>1
    <3>2. ASSUME NEW q \in Req, RequestStep(q), q # r
          PROVE  req'[r] = req[r]
      BY <3>2, RequestAlone
    <3>3. ASSUME RequestStep(r)
          PROVE  req[r].pc = "sign"
      <4>1. ~PutCreate(r) /\ ~PutUpdate(r)
        BY <1>3 DEF storeVars, PutCreate, PutUpdate, Create, Update, Write, TypeOK
      <4>2. ~Begin(r) /\ ~Mint(r)
        BY <1>0 DEF Begin, Mint, Request
      <4>3. ~PutAlreadyExists(r) /\ ~PutNotFound(r) /\ ~Fail(r)
        BY <1>0 DEF PutAlreadyExists, PutNotFound, Fail, Goto, Request
      <4>. QED
        BY <3>3, <4>1, <4>2, <4>3 DEF RequestStep, Success, Attach
    <3>. QED
      BY <3>1, <3>2, <3>3, RequestSteps, RequestAlone
  <2>. QED
    BY <1>1, <1>2, <1>3, <2>1 DEF storeVars, Exists
<1>4. ASSUME NEW q \in Req, PutCreate(q) \/ PutUpdate(q)
      PROVE  Good(secrets[SecretOf(r)].cert, r)'
  <2>1. /\ SecretOf(q) \in Name /\ OwnCertificate(q) /\ req[q].cert \in Cert
        /\ req[q].pc \in {"create", "update"} /\ RequestStep(q)
        /\ secrets'[SecretOf(q)].cert = req[q].cert
        /\ \A n \in Name \ {SecretOf(q)} : secrets'[n] = secrets[n]
    BY <1>0, <1>4, PutStores DEF RequestStep
  <2>2. req'[r].after = req[r].after /\ (q # r => req'[r] = req[r])
    BY <2>1, RequestAlone
  <2>3. CASE SecretOf(q) = SecretOf(r)
    <3>1. q \notin req[r].after
      BY <2>1 DEF RequestsFaithful, Done
    <3>. QED
      BY <1>1, <2>1, <2>2, <2>3, <3>1 DEF OwnCertificate
  <2>4. CASE SecretOf(q) # SecretOf(r)
    BY <1>0, <1>1, <1>2, <2>1, <2>2, <2>4 DEF Exists
  <2>. QED
    BY <2>3, <2>4
<1>5. ASSUME NEW w \in Sweeper, NEW i \in sweep[w], SweepDelete(w, i)
      PROVE  Good(secrets[SecretOf(r)].cert, r)'
  <2>1. req' = req /\ secrets'[SecretOf(r)] = secrets[SecretOf(r)]
    BY <1>0, <1>1, <1>5, SweepRemoves DEF Exists, Absent
  <2>. QED
    BY <1>1, <1>2, <2>1 DEF Exists
<1>6. ASSUME NEW w \in Filler, NEW i \in fill[w].cur, FillStamp(w, i)
      PROVE  Good(secrets[SecretOf(r)].cert, r)'
  <2>1. req' = req
    BY <1>6, FillRewrites
  <2>2. CASE secrets'[SecretOf(r)] = secrets[SecretOf(r)]
    BY <1>1, <1>2, <2>1, <2>2 DEF Exists
  <2>3. CASE secrets'[SecretOf(r)] # secrets[SecretOf(r)]
    BY <1>0, <1>2, <1>6, <2>1, <2>3, FillRewritesAt
  <2>. QED
    BY <2>2, <2>3
<1>. QED
  BY <1>3, <1>4, <1>5, <1>6, StoreWriters

\* No step signs a token that outlives its certificate.
LEMMA TokenStep ==
  ASSUME TypeOK, RequestsFaithful, TokenWithinItsCertificate, [Next]_vars
  PROVE  TokenWithinItsCertificate'
<1>0. req \in [Req -> Request]
  BY DEF TypeOK
<1>1. ASSUME NEW r \in Req, RequestStep(r), req'[r].exp # 0
      PROVE  /\ req'[r].cert # Unreadable
             /\ req'[r].exp <= req'[r].cert.notAfter
  <2>1. req[r].exp = 0
    BY <1>1, RequestAlone DEF RequestsFaithful, Done
  <2>2. Success(r)
    BY <1>0, <1>1, <2>1 DEF RequestStep, Begin, Mint, PutCreate, PutUpdate, PutAlreadyExists,
       PutNotFound, Attach, Fail, Goto, Request
  <2>3. req[r].cert \in Cert /\ req[r].cert # Unreadable
    BY <1>0, <2>2 DEF Success, RequestsFaithful, OwnCertificate, Request
  <2>4. /\ req'[r].cert = req[r].cert
        /\ req'[r].exp = now + tokenDuration(Requested(req[r].id.stepUp), req[r].cert.notAfter)
    BY <1>0, <2>2 DEF Success, Request
  <2>. QED
    BY <2>3, <2>4, TokenBounded, SecretOfType, ClientConfigAssumption DEF Cert
<1>. QED
  BY <1>0, <1>1, RequestSteps, RequestAlone DEF TokenWithinItsCertificate

--------------------------------------------------------------------------------
(* The theorems *)

Inv ==
  /\ TypeOK /\ SnapshotsFaithful /\ RequestsFaithful
  /\ AnnotationsDescribeCertificate /\ LoginStrategyStands
  /\ StoredNotRolledBack /\ TokenWithinItsCertificate

\* The inductive invariant holds initially.
LEMMA InitInv == Init => Inv
<1>. SUFFICES ASSUME Init PROVE Inv
  OBVIOUS
<1>1. TypeOK
  BY InitType
<1>2. ASSUME NEW n \in Name PROVE LegacyFacts(n, secrets[n])
  <2>1. secrets[n] \in LegacySecrets(n)
    BY DEF Init
  <2>. QED
    BY <2>1, LegacyContents
<1>3. SnapshotsFaithful
  BY <1>2 DEF Init, FillIdle, SnapshotsFaithful, RevisionsGiven, SweepFaithful, FillFaithful, LegacyFacts
<1>4. ASSUME NEW r \in Req
      PROVE  req[r].pc = "ready" /\ req[r].exp = 0 /\ req[r].after = {}
  BY DEF Init
<1>5. RequestsFaithful /\ StoredNotRolledBack /\ TokenWithinItsCertificate
  BY <1>4 DEF RequestsFaithful, StoredNotRolledBack, TokenWithinItsCertificate
<1>6. AnnotationsDescribeCertificate /\ LoginStrategyStands
  BY <1>2 DEF AnnotationsDescribeCertificate, LoginStrategyStands, LegacyFacts
<1>. QED
  BY <1>1, <1>3, <1>5, <1>6 DEF Inv

\* Every step preserves the inductive invariant.
LEMMA NextInv == Inv /\ [Next]_vars => Inv'
BY TypeStep, SnapshotsStep, RequestsStep, AnnotationsStep, StrategyStep, NotRolledBackStep,
   TokenStep DEF Inv

\* The invariant, for any instance: the theorems below are its parts.
THEOREM Invariance == Spec => []Inv
BY InitInv, NextInv, PTL DEF Spec

\* Every variable keeps its type (TypeOK of ClientConfig).
THEOREM TypeCorrect == Spec => []TypeOK
<1>1. Inv => TypeOK
  BY DEF Inv
<1>. QED
  BY <1>1, Invariance, PTL

\* storage.Put, backfill.Run: whatever logins, upgrades and backfills interleave,
\* the recorded groups and validity are those of the certificate beside them.
THEOREM AnnotationsCorrect == Spec => []AnnotationsDescribeCertificate
<1>1. Inv => AnnotationsDescribeCertificate
  BY DEF Inv
<1>. QED
  BY <1>1, Invariance, PTL

\* backfill.Run: no backfill replaces the strategy a login recorded.
THEOREM StrategyCorrect == Spec => []LoginStrategyStands
<1>1. Inv => LoginStrategyStands
  BY DEF Inv
<1>. QED
  BY <1>1, Invariance, PTL

\* storage.Put: an answered login is never rolled back to what predates it.
THEOREM LoginsStand == Spec => []AnsweredNotRolledBack
<1>1. Inv => AnsweredNotRolledBack
  BY DEF Inv, StoredNotRolledBack, AnsweredNotRolledBack
<1>. QED
  BY <1>1, Invariance, PTL

\* encode.Success: no token outlives the certificate minted with it.
THEOREM TokensBounded == Spec => []TokenWithinItsCertificate
<1>1. Inv => TokenWithinItsCertificate
  BY DEF Inv
<1>. QED
  BY <1>1, Invariance, PTL

--------------------------------------------------------------------------------
(* Refinement: ClientConfig implements CredentialLifecycle *)

\* A write of one Secret changes what that name holds, and nothing else.
LEMMA HeldWritten ==
  ASSUME TypeOK, NEW n \in Name, NEW x \in Secret, secrets' = [secrets EXCEPT ![n] = x]
  PROVE  Held' = [Held EXCEPT ![n] = IF x.cert = Unreadable THEN {} ELSE {x.cert}]
<1>. DEFINE h == IF x.cert = Unreadable THEN {} ELSE {x.cert}
<1>1. ASSUME NEW m \in Name PROVE Held'[m] = [Held EXCEPT ![n] = h][m]
  <2>1. CASE m = n
    BY <2>1 DEF TypeOK, Held
  <2>2. CASE m # n
    BY <2>2 DEF TypeOK, Held
  <2>. QED
    BY <2>1, <2>2
<1>. HIDE DEF h
<1>2. Held' = [m \in Name |-> Held'[m]] /\ Held = [m \in Name |-> Held[m]]
  BY DEF Held
<1>3. Held' = [Held EXCEPT ![n] = h]
  BY <1>1, <1>2
<1>. QED
  BY <1>3 DEF h

\* The two specifications speak of the same credentials.
LEMMA SameCredentials ==
  /\ AsLifecycle!Name = Name
  /\ AsLifecycle!Cert = Cert
  /\ \A g : AsLifecycle!IsReserved(g) <=> IsReserved(g)
BY DEF AsLifecycle!Name, Name, AsLifecycle!Cert, Cert, AsLifecycle!LoginStrategy, LoginStrategy,
   AsLifecycle!IsReserved, IsReserved

\* Only a tick moves the clock.
LEMMA ClockSteps ==
  ASSUME [Next]_vars
  PROVE  now' = now \/ Tick
<1>1. ASSUME NEW r \in Req, RequestStep(r) PROVE now' = now
  BY <1>1 DEF RequestStep, Begin, Mint, PutCreate, PutUpdate, PutAlreadyExists, PutNotFound,
     Success, Attach, Fail
<1>2. ASSUME NEW w \in Sweeper, SweepStep(w) PROVE now' = now
  BY <1>2 DEF SweepStep, Sweep, SweepAbort, SweepKeep, SweepConflict, SweepDelete
<1>3. ASSUME NEW w \in Filler, FillStep(w) PROVE now' = now
  BY <1>3 DEF FillStep, Fill, FillSkip, FillOwn, FillLookup, FillDecide, FillStamp, FillSkipped, FillDone
<1>. QED
  BY <1>1, <1>2, <1>3 DEF Next, Declare, vars

\* An initial state shows the lifecycle an initial state.
LEMMA InitRefines == Init => AsLifecycle!LifecycleInit
<1>. SUFFICES ASSUME Init PROVE AsLifecycle!LifecycleInit
  OBVIOUS
<1>1. ASSUME NEW n \in Name, NEW c \in Held[n]
      PROVE  c \in Cert /\ AsLifecycle!MayHold(n, c)
  <2>1. secrets[n] \in LegacySecrets(n) /\ LegacyFacts(n, secrets[n])
    BY LegacyContents DEF Init
  <2>2. c = secrets[n].cert /\ c # Unreadable
    BY DEF Held
  <2>3. c \in Cert /\ n = ClientConfigSecretName(c.user) /\ \A g \in c.groups : ~IsReserved(g)
    BY <2>1, <2>2 DEF LegacyFacts
  <2>. QED
    BY <2>3, SameCredentials DEF AsLifecycle!MayHold, ClientConfigSecretName
<1>2. Held = [n \in Name |-> Held[n]]
  BY DEF Held
<1>3. Held \in [Name -> SUBSET Cert]
  BY <1>1, <1>2
<1>. QED
  BY <1>1, <1>3, SameCredentials DEF AsLifecycle!LifecycleInit, Init

\* Every step shows the lifecycle a step or a stutter.
LEMMA StepRefines ==
  Inv /\ [Next]_vars => [AsLifecycle!LifecycleNext]_(AsLifecycle!lifecycleVars)
<1>. SUFFICES ASSUME Inv, [Next]_vars
              PROVE  AsLifecycle!LifecycleNext \/ (Held' = Held /\ now' = now)
  BY DEF AsLifecycle!lifecycleVars
<1>. USE DEF Inv
<1>0. Held = [n \in Name |-> Held[n]] /\ secrets \in [Name -> Secret]
  BY DEF Held, TypeOK
<1>1. CASE Tick
  <2>1. Held' = Held
    BY <1>1 DEF Tick, Held
  <2>. QED
    BY <1>1, <2>1 DEF Tick, AsLifecycle!LifecycleNext, AsLifecycle!Advance
<1>2. now' = now \/ Tick
  BY ClockSteps
<1>3. CASE UNCHANGED storeVars /\ now' = now
  BY <1>3 DEF storeVars, Held
<1>4. ASSUME NEW r \in Req, PutCreate(r) \/ PutUpdate(r)
      PROVE  AsLifecycle!LifecycleNext \/ (Held' = Held /\ now' = now)
  <2>. DEFINE n == SecretOf(r)
              c == req[r].cert
              x == [rv |-> revision + 1, cert |-> c, ann |-> LoginAnnotations(req[r].id.strategy, c)]
  <2>1. n \in Name /\ OwnCertificate(r) /\ c \in Cert /\ secrets' = [secrets EXCEPT ![n] = x]
    BY <1>4, PutStores
  <2>2. x \in Secret
    <3>1. LoginAnnotations(req[r].id.strategy, c) \in Annotations
      BY <2>1, SecretOfType, LoginAnnotationsType, ClientConfigAssumption DEF Strategy
    <3>. QED
      BY <2>1, <3>1 DEF Secret, TypeOK
  <2>3. Held' = [Held EXCEPT ![n] = {c}]
    <3>1. x.cert = c /\ c # Unreadable
      BY <2>1, CredentialsAssumption
    <3>. HIDE DEF x, n, c
    <3>. QED
      BY <2>1, <2>2, <3>1, HeldWritten
  <2>4. now' = now
    BY <1>4 DEF PutCreate, PutUpdate
  <2>5. AsLifecycle!MayHold(n, c) /\ c.by # {}
    BY <2>1, SecretOfType, UserInfoGroupsType, SameCredentials
       DEF AsLifecycle!MayHold, OwnCertificate
  <2>. HIDE DEF n, c
  <2>6. CASE c \in Held[n]
    <3>1. Held[n] = {c}
      BY <2>1, <2>6 DEF Held
    <3>. QED
      BY <1>0, <2>1, <2>3, <2>4, <3>1
  <2>7. CASE c \notin Held[n]
    <3>1. c \in Held'[n] \ Held[n]
      BY <1>0, <2>1, <2>3, <2>7
    <3>2. AsLifecycle!Rotate(n)
      BY <2>3, <2>4, <2>5, <3>1 DEF AsLifecycle!Rotate
    <3>. QED
      BY <2>1, <3>2, SameCredentials DEF AsLifecycle!LifecycleNext
  <2>. QED
    BY <2>6, <2>7
<1>5. ASSUME NEW w \in Sweeper, NEW i \in sweep[w], SweepDelete(w, i)
      PROVE  AsLifecycle!LifecycleNext
  <2>1. /\ i.name \in Name /\ i.name.stepUp /\ now' = now
        /\ secrets[i.name].cert \in Cert
        /\ now >= secrets[i.name].cert.notAfter + Grace
        /\ secrets' = [secrets EXCEPT ![i.name] = Absent]
    BY <1>5, SweepRemoves
  <2>2. Absent \in Secret /\ Absent.cert = Unreadable
    BY DEF Absent, Secret, NoAnnotations, Annotations
  <2>3. Held' = [Held EXCEPT ![i.name] = {}]
    BY <2>1, <2>2, HeldWritten
  <2>4. secrets[i.name].cert \in Held[i.name]
    BY <2>1, CredentialsAssumption DEF Held
  <2>5. AsLifecycle!Remove(i.name)
    BY <2>1, <2>3, <2>4 DEF AsLifecycle!Remove
  <2>. QED
    BY <2>1, <2>5, SameCredentials DEF AsLifecycle!LifecycleNext
<1>6. ASSUME NEW w \in Filler, NEW i \in fill[w].cur, FillStamp(w, i)
      PROVE  Held' = Held /\ now' = now
  <2>1. ASSUME NEW n \in Name PROVE secrets'[n].cert = secrets[n].cert
    BY <1>6, FillRewritesAt
  <2>2. Held' = Held
    BY <2>1 DEF Held
  <2>. QED
    BY <1>6, <2>2, FillRewrites
<1>. QED
  BY <1>1, <1>2, <1>3, <1>4, <1>5, <1>6, StoreWriters

\* The detailed specification implements the abstract one: sessions are only
\* replaced, by logins of users they are named after, and step-ups are removed
\* only when expired (LifecycleSpec of ClientConfig).
THEOREM ImplementsLifecycle == Spec => LifecycleSpec
BY InitInv, NextInv, InitRefines, StepRefines, PTL
   DEF Spec, LifecycleSpec, AsLifecycle!Lifecycle

--------------------------------------------------------------------------------
(* Refinement: the requests' part of ClientConfig implements Minting *)

\* What a request's step shows of minting, if anything.
LEMMA RequestMints ==
  ASSUME Inv, NEW r \in Req, RequestStep(r)
  PROVE  LET x == req[r]  y == req'[r] IN
         \/ Phase(y) = Phase(x) /\ ExpiryOf(y) = ExpiryOf(x)
         \/ /\ Phase(x) = "asking" /\ Phase(y) = "minted"
            /\ ExpiryOf(y) \in (now + 1)..(now + Requested(x.id.stepUp))
         \/ Phase(x) = "minted" /\ Phase(y) = "stored" /\ ExpiryOf(y) = ExpiryOf(x)
         \/ Phase(x) = "stored" /\ Phase(y) = "answered" /\ ExpiryOf(y) = 0
         \/ Phase(x) \notin {"answered", "refused"} /\ Phase(y) = "refused" /\ ExpiryOf(y) = 0
<1>. TypeOK
  BY DEF Inv
<1>. DEFINE x == req[r]
            y == req'[r]
<1>1. x \in Request /\ req \in [Req -> Request]
  BY DEF TypeOK
<1>2. ASSUME NEW pc, Goto(r, pc) PROVE y.pc = pc /\ y.cert = x.cert
  BY <1>1, <1>2 DEF Goto, Request
<1>3. CASE Begin(r)
  <2>1. x.pc = "ready" /\ y.pc \in {"mint", "refused"}
    BY <1>1, <1>3 DEF Begin, Request
  <2>. QED
    BY <2>1 DEF Phase, ExpiryOf, Done
<1>4. CASE Mint(r)
  <2>. DEFINE n == Granted(Requested(x.id.stepUp))
              c == [user |-> x.id.user, groups |-> UserInfoGroups(x.id), notAfter |-> n,
                    strategy |-> x.id.strategy, by |-> {r}]
  <2>1. x.pc = "mint" /\ CANotAfter > now /\ req' = [req EXCEPT ![r].pc = "create", ![r].cert = c]
    BY <1>4 DEF Mint
  <2>2. c.notAfter = n
    OBVIOUS
  <2>3. n \in (now + 1)..(now + Requested(x.id.stepUp))
    <3>1. x.id.stepUp \in BOOLEAN
      BY <1>1, ClientConfigAssumption DEF Request
    <3>. QED
      BY <2>1, <3>1, ClientConfigAssumption DEF TypeOK, Requested, Granted, Lesser
  <2>. HIDE DEF c, n
  <2>4. y.pc = "create" /\ y.cert = c
    BY <1>1, <2>1 DEF Request
  <2>. QED
    BY <2>1, <2>2, <2>3, <2>4 DEF Phase, ExpiryOf, Done
<1>5. CASE PutCreate(r) \/ PutUpdate(r)
  <2>1. x.pc \in {"create", "update"} /\ y.pc \in {"sign", "refused"} /\ y.cert = x.cert
    BY <1>2, <1>5 DEF PutCreate, PutUpdate
  <2>. QED
    BY <2>1 DEF Phase, ExpiryOf, Done
<1>6. CASE PutAlreadyExists(r)
  <2>1. x.pc = "create" /\ y.pc = "update" /\ y.cert = x.cert
    BY <1>2, <1>6 DEF PutAlreadyExists
  <2>. QED
    BY <2>1 DEF Phase, ExpiryOf, Done
<1>7. CASE PutNotFound(r) \/ Fail(r)
  <2>1. x.pc \in {"mint", "create", "update", "sign"} /\ y.pc = "refused"
    BY <1>2, <1>7 DEF PutNotFound, Fail
  <2>. QED
    BY <2>1 DEF Phase, ExpiryOf, Done
<1>8. CASE Success(r) \/ Attach(r)
  <2>1. x.pc = "sign" /\ y.pc = "answered"
    BY <1>1, <1>2, <1>8 DEF Success, Attach, Request
  <2>. QED
    BY <2>1 DEF Phase, ExpiryOf, Done
<1>. QED
  BY <1>3, <1>4, <1>5, <1>6, <1>7, <1>8 DEF RequestStep

\* Nobody has asked for anything yet.
LEMMA InitMints == Init => AsMinting!MintingInit
<1>. SUFFICES ASSUME Init PROVE AsMinting!MintingInit
  OBVIOUS
<1>1. \A r \in Req : req[r].id \in Identity /\ req[r].pc = "ready"
  BY DEF Init
<1>2. \A r \in Req : req[r].id.stepUp \in BOOLEAN
  BY <1>1, ClientConfigAssumption
<1>3. \A r \in Req : Requested(req[r].id.stepUp) \in Nat
  BY <1>2, ClientConfigAssumption DEF Requested
<1>4. \A r \in Req : Phase(req[r]) = "asking" /\ ExpiryOf(req[r]) = 0
  BY <1>1 DEF Phase, ExpiryOf, Done
<1>. QED
  BY <1>3, <1>4 DEF Init, AsMinting!MintingInit, Asked, Phases, Expiries

\* Every step shows minting a step or a stutter.
LEMMA StepMints ==
  Inv /\ [Next]_vars => [AsMinting!MintingNext]_(AsMinting!mintingVars)
<1>. SUFFICES ASSUME Inv, [Next]_vars
              PROVE  AsMinting!MintingNext \/ UNCHANGED <<now, Asked, Phases, Expiries>>
  BY DEF AsMinting!mintingVars
<1>. TypeOK
  BY DEF Inv
<1>1. CASE req' = req
  <2>1. UNCHANGED <<Asked, Phases, Expiries>>
    BY <1>1 DEF Asked, Phases, Expiries
  <2>2. now' = now \/ Tick
    BY ClockSteps
  <2>. QED
    BY <2>1, <2>2 DEF Tick, AsMinting!MintingNext, AsMinting!Advance
<1>2. ASSUME NEW r \in Req, RequestStep(r)
      PROVE  AsMinting!MintingNext \/ UNCHANGED <<now, Asked, Phases, Expiries>>
  <2>. DEFINE x == req[r]
              y == req'[r]
  <2>1. now' = now
    BY <1>2 DEF RequestStep, Begin, Mint, PutCreate, PutUpdate, PutAlreadyExists, PutNotFound,
       Success, Attach, Fail
  <2>2. y.id = x.id /\ \A q \in Req : q # r => req'[q] = req[q]
    BY <1>2, RequestAlone
  <2>3. Asked' = Asked
    BY <2>2 DEF Asked
  <2>4. /\ Phases[r] = Phase(x) /\ Expiries[r] = ExpiryOf(x) /\ Expiries'[r] = ExpiryOf(y)
        /\ Asked[r] = Requested(x.id.stepUp)
    BY DEF Phases, Expiries, Asked
  <2>5. /\ Phases' = [Phases EXCEPT ![r] = Phase(y)]
        /\ Expiries' = [Expiries EXCEPT ![r] = ExpiryOf(y)]
        /\ Phases' = [q \in Req |-> IF q \in {r} THEN Phase(y) ELSE Phases[q]]
        /\ Expiries' = [q \in Req |-> IF q \in {r} THEN ExpiryOf(y) ELSE Expiries[q]]
    BY <2>2 DEF Phases, Expiries
  <2>6. Phases' = Phases \/ Phase(y) # Phase(x)
    BY <2>5 DEF Phases
  <2>7. Expiries' = Expiries \/ ExpiryOf(y) # ExpiryOf(x)
    BY <2>5 DEF Expiries
  <2>. HIDE DEF x, y
  <2>8. CASE Phase(y) = Phase(x) /\ ExpiryOf(y) = ExpiryOf(x)
    BY <2>1, <2>3, <2>6, <2>7, <2>8
  <2>9. CASE /\ Phase(x) = "asking" /\ Phase(y) = "minted"
             /\ ExpiryOf(y) \in (now + 1)..(now + Requested(x.id.stepUp))
    <3>1. AsMinting!Mint(r)
      BY <2>1, <2>3, <2>4, <2>5, <2>9 DEF AsMinting!Mint
    <3>. QED
      BY <3>1 DEF AsMinting!MintingNext
  <2>10. CASE Phase(x) = "minted" /\ Phase(y) = "stored" /\ ExpiryOf(y) = ExpiryOf(x)
    <3>1. AsMinting!Keep(r)
      BY <2>1, <2>3, <2>4, <2>5, <2>7, <2>10 DEF AsMinting!Keep
    <3>. QED
      BY <3>1 DEF AsMinting!MintingNext
  <2>11. CASE Phase(x) = "stored" /\ Phase(y) = "answered" /\ ExpiryOf(y) = 0
    <3>1. AsMinting!Answer(r)
      BY <2>1, <2>3, <2>4, <2>5, <2>11 DEF AsMinting!Answer, AsMinting!Finish
    <3>. QED
      BY <3>1 DEF AsMinting!MintingNext
  <2>12. CASE Phase(x) \notin {"answered", "refused"} /\ Phase(y) = "refused" /\ ExpiryOf(y) = 0
    <3>1. AsMinting!Refuse({r})
      BY <2>1, <2>3, <2>4, <2>5, <2>12 DEF AsMinting!Refuse, AsMinting!Finish, AsMinting!Over
    <3>. QED
      BY <3>1 DEF AsMinting!MintingNext
  <2>. QED
    BY <1>2, <2>8, <2>9, <2>10, <2>11, <2>12, RequestMints DEF x, y
<1>. QED
  BY <1>1, <1>2, RequestSteps

\* A request mints one certificate, while it waits for it and within what it asks
\* for, and stores and answers that one (Minted of ClientConfig).
THEOREM ImplementsMinting == Spec => Minted
BY InitInv, NextInv, InitMints, StepMints, PTL DEF Spec, Minted, AsMinting!MintingSpec
================================================================================
