--------------------------- MODULE OwnIdentityProofs ---------------------------
(***************************************************************************)
(* Proofs about OwnIdentity, for any number of replicas, any durations and *)
(* any threshold.                                                          *)
(*                                                                         *)
(* That no write brings an earlier certificate back is not inductive: a    *)
(* replica, or a call whose caller is gone, could be about to write        *)
(* anything.  CallsFaithful says what they are about to write: the         *)
(* certificate they read if the Secret has not changed since, or one that  *)
(* was just signed.                                                        *)
(***************************************************************************)
EXTENDS OwnIdentity, TLAPS

\* A certificate in hand that was signed within the last unit.
JustSigned(c) == c # None /\ Age(c) \in {0, 1}

\* Replica p, at w, is about to write something faithful, C being the CSRs and s
\* the stored certificate.
Faithful(w, p, C, s) ==
  /\ w.pc = "sync" => w.read # None /\ (w.same => w.read = s)
  /\ w.pc = "store" => JustSigned(w.cert)
  /\ w.pc = "await" => \A r \in C : r.by = {p} /\ r.cert # None => JustSigned(r.cert)

\* So is a call that is still on its way.
FaithfulCall(c, s) ==
  /\ c.op = "sync" => c.read # None /\ (c.same => c.read = s)
  /\ c.op = "store" => JustSigned(c.cert)

CallsFaithful ==
  /\ \A p \in Replica : Faithful(work[p], p, csr, stored.cert)
  /\ \A c \in late : FaithfulCall(c, stored.cert)

Inv == TypeOK /\ AnnotationsDescribeCertificate /\ CallsFaithful

--------------------------------------------------------------------------------
(* Facts about the operators *)

\* The wait until a certificate's renewal point is a number.
LEMMA RenewInType ==
  ASSUME NEW c \in Cert
  PROVE  RenewIn(c) \in Int
<1>1. c.life \in Nat /\ c.left \in Nat
  BY DEF Cert
<1>2. ThresholdNum \in Nat /\ ThresholdDen \in Nat /\ ThresholdDen > 0
  BY OwnIdentityAssumption
<1>3. c.life * ThresholdNum \in Nat
  BY <1>1, <1>2
<1>. DEFINE m == c.life * ThresholdNum
<1>4. ASSUME NEW k \in Nat PROVE k \div ThresholdDen \in Int
  BY <1>2
<1>5. m \div ThresholdDen \in Int
  BY <1>3, <1>4
<1>. QED
  BY <1>1, <1>5 DEF RenewIn

\* The floor makes it a wait.
LEMMA SleepForType ==
  ASSUME NEW d \in Int
  PROVE  sleepFor(d) \in Nat
BY OwnIdentityAssumption DEF sleepFor

\* What the signer issues was just signed.
LEMMA IssuedType ==
  ASSUME TypeOK
  PROVE  Issued \in Cert /\ JustSigned(Issued)
<1>1. Granted \in Nat
  BY OwnIdentityAssumption DEF TypeOK, Granted, Lesser
<1>2. Issued \in Cert /\ Age(Issued) = 0
  BY <1>1, OwnIdentityAssumption DEF Issued, Cert, Age
<1>. QED
  BY <1>2, NoneAssumption DEF JustSigned

\* A unit later a certificate is still a certificate, and one just signed has
\* been for a unit.
LEMMA OlderType ==
  ASSUME NEW c \in Cert \cup {None}
  PROVE  /\ Older(c) \in Cert \cup {None}
         /\ (Older(c) = None) <=> (c = None)
         /\ c # None /\ Age(c) = 0 => JustSigned(Older(c))
<1>1. CASE c = None
  BY <1>1 DEF Older
<1>2. CASE c # None
  <2>1. c \in Cert /\ c.life \in Nat /\ c.left \in Nat
    BY <1>2 DEF Cert
  <2>2. Older(c) = [c EXCEPT !.left = Less(c.left)]
    BY <1>2, <2>1 DEF Older, Cert
  <2>3. Less(c.left) \in Nat /\ c.left - Less(c.left) \in {0, 1}
    BY <2>1 DEF Less
  <2>4. Older(c) \in Cert /\ Older(c).life = c.life /\ Older(c).left = Less(c.left)
    BY <2>1, <2>2, <2>3 DEF Cert
  <2>5. Older(c) # None
    BY <2>4, NoneAssumption
  <2>6. ASSUME c.life - Backdate - c.left = 0
        PROVE  Older(c).life - Backdate - Older(c).left \in {0, 1}
    <3>1. Backdate \in Nat
      BY OwnIdentityAssumption
    <3>. QED
      BY <2>1, <2>3, <2>4, <2>6, <3>1
  <2>. QED
    BY <1>2, <2>4, <2>5, <2>6 DEF JustSigned, Age
<1>. QED
  BY <1>1, <1>2

\* The record of a replica that rests is well typed.
LEMMA RestingType ==
  ASSUME TypeOK, NEW p \in Replica, NEW d \in Nat
  PROVE  Resting(p, d) \in Work /\ Resting(p, d).pc \in {"backfill", "sleep"}
BY DEF TypeOK, Work, Pc, Resting, Idle

\* So is that of a replica whose annotations are written or given up.
LEMMA SettledType ==
  ASSUME TypeOK, NEW p \in Replica
  PROVE  Settled(p) \in Work /\ Settled(p).pc \in {"backfill", "sleep"}
<1>1. work[p].cert \in Cert \cup {None} /\ work[p].wait \in Nat
  BY DEF TypeOK, Work
<1>2. CASE work[p].cert = None
  BY <1>1, <1>2, RestingType DEF Settled
<1>3. CASE work[p].cert # None
  <2>1. sleepFor(RenewIn(work[p].cert)) \in Nat
    BY <1>1, <1>3, RenewInType, SleepForType
  <2>. QED
    BY <1>3, <2>1, RestingType DEF Settled
<1>. QED
  BY <1>2, <1>3

\* A write leaves every reader well typed, with an old resourceVersion, and where
\* it was.
LEMMA OutdatedType ==
  ASSUME TypeOK
  PROVE  /\ Outdated(work) \in [Replica -> Work]
         /\ \A q \in Replica :
              /\ Outdated(work)[q].pc = work[q].pc /\ Outdated(work)[q].cert = work[q].cert
              /\ Outdated(work)[q].read = work[q].read /\ Outdated(work)[q].same = FALSE
         /\ \A C \in SUBSET Call : OutdatedCalls(C) \in SUBSET Call
<1>1. Outdated(work) \in [Replica -> Work]
  BY DEF TypeOK, Outdated, Work
<1>2. ASSUME NEW q \in Replica
      PROVE  /\ Outdated(work)[q].pc = work[q].pc /\ Outdated(work)[q].cert = work[q].cert
             /\ Outdated(work)[q].read = work[q].read /\ Outdated(work)[q].same = FALSE
  BY DEF TypeOK, Outdated, Work
<1>3. ASSUME NEW C \in SUBSET Call PROVE OutdatedCalls(C) \in SUBSET Call
  BY DEF OutdatedCalls, Call
<1>. QED
  BY <1>1, <1>2, <1>3

\* What a replica was calling when it stopped is a call.
LEMMA InFlightType ==
  ASSUME TypeOK, NEW p \in Replica
  PROVE  InFlight(p) \in SUBSET Call
BY DEF TypeOK, Work, Call, InFlight

\* The idle record is well typed.
LEMMA IdleType ==
  ASSUME NEW pc \in Pc
  PROVE  Idle(pc) \in Work /\ [Idle(pc) EXCEPT !.first = TRUE] \in Work
BY DEF Idle, Work

--------------------------------------------------------------------------------
(* Type correctness *)

\* The initial states satisfy the invariant.
LEMMA InitInv == Init => Inv
<1>. SUFFICES ASSUME Init PROVE Inv
  OBVIOUS
<1>1. TypeOK
  BY IdleType, OwnIdentityAssumption DEF Init, TypeOK, Pc
<1>2. CallsFaithful
  BY DEF Init, CallsFaithful, Faithful, Idle
<1>3. AnnotationsDescribeCertificate
  BY DEF Init, AnnotationsDescribeCertificate
<1>. QED
  BY <1>1, <1>2, <1>3 DEF Inv

\* The steps of the election preserve the types.
LEMMA LeadStepType ==
  ASSUME TypeOK, NEW p \in Replica, LeadStep(p)
  PROVE  TypeOK'
<1>1. CASE Start(p)
  BY <1>1, IdleType DEF TypeOK, Start, Becomes, Pc
<1>2. CASE Acquire(p)
  BY <1>2, IdleType, OwnIdentityAssumption DEF TypeOK, Acquire, Becomes, Pc
<1>3. ASSUME NEW pc \in Pc, Stop(p, pc), Troubled \/ trouble' = trouble PROVE TypeOK'
  <2>1. work' \in [Replica -> Work]
    BY <1>3, IdleType DEF TypeOK, Stop, Becomes
  <2>2. late' \in SUBSET Call /\ holder' \in SUBSET Replica
    BY <1>3, InFlightType DEF TypeOK, Stop
  <2>3. trouble' \in 0..(MaxTrouble + 1)
    BY <1>3, OwnIdentityAssumption DEF TypeOK, Troubled, Lesser
  <2>. QED
    BY <1>3, <2>1, <2>2, <2>3 DEF TypeOK, Stop
<1>. QED
  BY <1>1, <1>2, <1>3 DEF LeadStep, Lose, Crash, Pc

\* The steps of Ensure and of the loop preserve the types.
LEMMA EnsureStepType ==
  ASSUME Inv, NEW p \in Replica, EnsureStep(p)
  PROVE  TypeOK'
<1>. USE DEF Becomes
<1>. TypeOK
  BY DEF Inv
<1>1. work[p] \in Work /\ RetryInterval \in Nat
  BY OwnIdentityAssumption DEF TypeOK
<1>2. ASSUME NEW w \in Work, work' = [work EXCEPT ![p] = w],
             UNCHANGED <<stored, csr, ca, holder, vacant, late>>,
             trouble' \in 0..(MaxTrouble + 1)
      PROVE  TypeOK'
  BY <1>2 DEF TypeOK
<1>3. Troubled => trouble' \in 0..(MaxTrouble + 1)
  BY OwnIdentityAssumption DEF TypeOK, Troubled, Lesser
<1>4. CASE ReadFails(p) \/ CsrReplaced(p) \/ IssueFails(p)
  BY <1>1, <1>2, <1>3, <1>4, RestingType DEF ReadFails, CsrReplaced, IssueFails, TypeOK
<1>5. CASE Current(p)
  <2>1. stored.cert \in Cert
    BY <1>5 DEF TypeOK, Current, Fresh
  <2>2. sleepFor(RenewIn(stored.cert)) \in Nat
    BY <2>1, RenewInType, SleepForType
  <2>. DEFINE w == Resting(p, sleepFor(RenewIn(stored.cert)))
  <2>3. w \in Work
    BY <2>2, RestingType
  <2>4. [w EXCEPT !.pc = "sync", !.first = work[p].first, !.read = stored.cert, !.same = TRUE]
          \in Work
    BY <1>1, <2>1, <2>3 DEF Work, Pc
  <2>. QED
    BY <1>2, <1>5, <2>3, <2>4 DEF Current, TypeOK
<1>6. CASE Due(p) \/ BackfillDone(p)
  BY <1>1, <1>2, <1>6 DEF Due, BackfillDone, Work, Pc, TypeOK
<1>7. CASE Wake(p)
  BY <1>2, <1>7, IdleType DEF Wake, Pc, TypeOK
<1>8. CASE Readback(p)
  <2>1. [work[p] EXCEPT !.pc = "sync", !.read = stored.cert, !.same = TRUE] \in Work
    BY <1>1 DEF Work, Pc, TypeOK
  <2>. QED
    BY <1>2, <1>8, <2>1, SettledType DEF Readback, TypeOK
<1>9. CASE AnnotateFails(p)
  BY <1>2, <1>9, SettledType DEF AnnotateFails, TypeOK
<1>10. CASE IssueCsr(p)
  BY <1>1, <1>10 DEF IssueCsr, TypeOK, Work, Pc, Csr
<1>11. CASE Collect(p)
  <2>1. PICK r \in csr : work' = [work EXCEPT ![p] = [work[p] EXCEPT !.pc = "store", !.cert = r.cert]]
    BY <1>11 DEF Collect
  <2>2. r.cert \in Cert \cup {None}
    BY DEF TypeOK, Csr
  <2>3. [work[p] EXCEPT !.pc = "store", !.cert = r.cert] \in Work
    BY <1>1, <2>2 DEF Work, Pc
  <2>. QED
    BY <1>11, <2>1, <2>3 DEF Collect, TypeOK
<1>12. CASE Store(p)
  <2>1. work[p].cert \in Cert \cup {None}
    BY <1>1 DEF Work
  <2>2. stored' = [cert |-> work[p].cert, ann |-> None]
    BY <1>12 DEF Store, Rewrite
  <2>3. work' \in [Replica -> Work]
    BY <1>12, OutdatedType DEF Store, Work, Pc
  <2>4. late' \in SUBSET Call
    BY <1>12, OutdatedType DEF Store, TypeOK
  <2>5. trouble' \in 0..(MaxTrouble + 1)
    <3>1. Age(work[p].cert) \in {0, 1}
      BY <1>12 DEF Store, Inv, CallsFaithful, Faithful, JustSigned
    <3>. QED
      BY <1>12, <3>1, OwnIdentityAssumption DEF Store, Lesser
  <2>. QED
    BY <1>12, <2>1, <2>2, <2>3, <2>4, <2>5 DEF Store, TypeOK
<1>13. CASE Annotate(p)
  <2>1. work[p].read \in Cert \cup {None}
    BY <1>1 DEF Work
  <2>. QED
    BY <1>13, <2>1, OutdatedType, SettledType DEF Annotate, Sync, Rewrite, TypeOK
<1>. QED
  BY <1>4, <1>5, <1>6, <1>7, <1>8, <1>9, <1>10, <1>11, <1>12, <1>13 DEF EnsureStep

\* The steps of the environment preserve the types.
LEMMA EnvironmentType ==
  ASSUME TypeOK, Tick \/ Rotate \/ Sign \/ Wipe \/ \E c \in late : Arrive(c)
  PROVE  TypeOK'
<1>1. CASE Tick
  <2>1. stored' \in [cert: Cert \cup {None}, ann: Cert \cup {None}]
    BY <1>1, OlderType DEF Tick, TypeOK
  <2>2. csr' \in SUBSET Csr
    BY <1>1, OlderType DEF Tick, TypeOK, Csr
  <2>3. ASSUME NEW p \in Replica PROVE Later(work[p]) \in Work
    <3>1. work[p] \in Work /\ BackfillTime \in Nat
      BY OwnIdentityAssumption DEF TypeOK
    <3>2. Less(work[p].wait) \in Nat /\ Lesser(work[p].spent + 1, BackfillTime) \in Nat
      BY <3>1 DEF Work, Less, Lesser
    <3>. QED
      BY <3>1, <3>2, OlderType DEF Later, Work
  <2>4. work' \in [Replica -> Work]
    BY <1>1, <2>3 DEF Tick
  <2>5. ca' \in CAMin..CALife /\ vacant' \in 0..LeaseDuration
    BY <1>1, OwnIdentityAssumption DEF Tick, TypeOK, Lesser
  <2>6. trouble' \in 0..(MaxTrouble + 1)
    BY <1>1, OwnIdentityAssumption DEF Tick, TypeOK, Troubled, Lesser
  <2>. QED
    BY <1>1, <2>1, <2>2, <2>4, <2>5, <2>6 DEF Tick, TypeOK
<1>2. CASE Rotate
  BY <1>2, OwnIdentityAssumption DEF Rotate, TypeOK
<1>3. CASE Sign
  <2>1. csr' \in SUBSET Csr
    BY <1>3, IssuedType DEF Sign, TypeOK, Csr
  <2>. QED
    BY <1>3, <2>1 DEF Sign, TypeOK
<1>4. CASE Wipe
  BY <1>4, OutdatedType DEF Wipe, Rewrite, TypeOK
<1>5. ASSUME NEW c \in late, Arrive(c) PROVE TypeOK'
  <2>1. c \in Call /\ late \ {c} \in SUBSET Call
    BY DEF TypeOK
  <2>2. work' \in [Replica -> Work] /\ late' \in SUBSET Call
    BY <1>5, <2>1, OutdatedType DEF Arrive, TypeOK
  <2>3. csr' \in SUBSET Csr
    <3>1. [by |-> {}, cert |-> None] \in Csr
      BY DEF Csr
    <3>. QED
      BY <1>5, <3>1 DEF Arrive, TypeOK
  <2>4. stored' \in [cert: Cert \cup {None}, ann: Cert \cup {None}]
    <3>1. c.cert \in Cert \cup {None} /\ c.read \in Cert \cup {None}
      BY <2>1 DEF Call
    <3>. QED
      BY <1>5, <3>1 DEF Arrive, Rewrite, Sync, TypeOK
  <2>. QED
    BY <1>5, <2>2, <2>3, <2>4 DEF Arrive, TypeOK
<1>. QED
  BY <1>1, <1>2, <1>3, <1>4, <1>5

\* Every step preserves the types.
LEMMA TypeStep ==
  ASSUME Inv, [Next]_vars
  PROVE  TypeOK'
<1>1. CASE UNCHANGED vars
  BY <1>1 DEF Inv, TypeOK, vars
<1>2. CASE Next
  BY <1>2, LeadStepType, EnsureStepType, EnvironmentType DEF Inv, Next
<1>. QED
  BY <1>1, <1>2

--------------------------------------------------------------------------------
(* What is about to be written *)

\* A replica whose step writes nothing and calls nobody matters only by itself.
LEMMA BecomesFaithful ==
  ASSUME CallsFaithful, TypeOK, NEW p \in Replica, NEW w, Becomes(p, w),
         UNCHANGED <<stored, csr, late>>, Faithful(w, p, csr, stored.cert)
  PROVE  CallsFaithful'
<1>1. \A q \in Replica : work'[q] = IF q = p THEN w ELSE work[q]
  BY DEF Becomes, TypeOK
<1>. QED
  BY <1>1 DEF CallsFaithful

\* After a write whoever read the Secret writes no more.
LEMMA OutdatedFaithful ==
  ASSUME CallsFaithful, TypeOK, NEW s
  PROVE  /\ \A q \in Replica : Faithful(Outdated(work)[q], q, csr, s)
         /\ \A C \in SUBSET late : \A c \in OutdatedCalls(C) : FaithfulCall(c, s)
<1>1. \A q \in Replica : Faithful(Outdated(work)[q], q, csr, s)
  BY OutdatedType DEF CallsFaithful, Faithful
<1>2. ASSUME NEW C \in SUBSET late, NEW c \in OutdatedCalls(C) PROVE FaithfulCall(c, s)
  <2>1. PICK d \in C : c = [d EXCEPT !.same = FALSE]
    BY <1>2 DEF OutdatedCalls
  <2>2. d \in Call /\ FaithfulCall(d, stored.cert)
    BY DEF CallsFaithful, TypeOK
  <2>3. c.op = d.op /\ c.read = d.read /\ c.cert = d.cert /\ c.same = FALSE
    BY <2>1, <2>2 DEF Call
  <2>. QED
    BY <2>2, <2>3 DEF FaithfulCall
<1>. QED
  BY <1>1, <1>2

\* The election leaves behind only what the replica was about to write.
LEMMA LeadStepFaithful ==
  ASSUME Inv, NEW p \in Replica, LeadStep(p)
  PROVE  CallsFaithful'
<1>. TypeOK /\ CallsFaithful
  BY DEF Inv
<1>1. ASSUME NEW pc \in {"standby", "down", "ensure"}, NEW b \in BOOLEAN
      PROVE  Faithful([Idle(pc) EXCEPT !.first = b], p, csr, stored.cert)
             /\ Faithful(Idle(pc), p, csr, stored.cert)
  BY <1>1 DEF Faithful, Idle
<1>2. CASE Start(p)
  BY <1>1, <1>2, BecomesFaithful DEF Start
<1>3. CASE Acquire(p)
  BY <1>1, <1>3, BecomesFaithful DEF Acquire
<1>4. ASSUME NEW pc \in {"standby", "down"}, Stop(p, pc) PROVE CallsFaithful'
  <2>1. \A q \in Replica : work'[q] = IF q = p THEN Idle(pc) ELSE work[q]
    BY <1>4 DEF Stop, Becomes, TypeOK
  <2>2. \A q \in Replica : Faithful(work'[q], q, csr, stored.cert)
    BY <1>1, <2>1 DEF CallsFaithful
  <2>3. \A c \in InFlight(p) : FaithfulCall(c, stored.cert)
    BY DEF InFlight, CallsFaithful, Faithful, FaithfulCall
  <2>. QED
    BY <1>4, <2>2, <2>3 DEF Stop, CallsFaithful
<1>. QED
  BY <1>2, <1>3, <1>4 DEF LeadStep, Lose, Crash

\* Ensure writes what it just had signed, or what it read.
LEMMA EnsureStepFaithful ==
  ASSUME Inv, NEW p \in Replica, EnsureStep(p)
  PROVE  CallsFaithful'
<1>. TypeOK /\ CallsFaithful
  BY DEF Inv
<1>. DEFINE s == stored.cert
<1>1. ASSUME NEW w, w.pc \in {"ensure", "issue", "backfill", "sleep"}
      PROVE  Faithful(w, p, csr, s)
  BY <1>1 DEF Faithful
<1>2. work[p] \in Work /\ RetryInterval \in Nat
  BY OwnIdentityAssumption DEF TypeOK
<1>3. CASE ReadFails(p) \/ CsrReplaced(p) \/ IssueFails(p)
  <2>1. Faithful(Resting(p, RetryInterval), p, csr, s)
    BY <1>1, <1>2, RestingType
  <2>. QED
    BY <1>3, <2>1, BecomesFaithful DEF ReadFails, CsrReplaced, IssueFails
<1>4. CASE Current(p)
  <2>1. s \in Cert /\ s # None
    BY <1>4 DEF TypeOK, Current, Fresh
  <2>. DEFINE w == Resting(p, sleepFor(RenewIn(s)))
              v == [w EXCEPT !.pc = "sync", !.first = work[p].first, !.read = s, !.same = TRUE]
  <2>2. w \in Work /\ w.pc \in {"backfill", "sleep"}
    BY <2>1, RenewInType, SleepForType, RestingType
  <2>3. v.pc = "sync" /\ v.read = s
    BY <2>2 DEF Work
  <2>4. Faithful(w, p, csr, s) /\ Faithful(v, p, csr, s)
    BY <1>1, <2>1, <2>2, <2>3 DEF Faithful
  <2>. QED
    BY <1>4, <2>4, BecomesFaithful DEF Current
<1>5. CASE Due(p) \/ BackfillDone(p) \/ Wake(p)
  <2>1. CASE Due(p)
    <3>1. [work[p] EXCEPT !.pc = "issue"].pc = "issue"
      BY <1>2 DEF Work
    <3>2. Faithful([work[p] EXCEPT !.pc = "issue"], p, csr, s)
      BY <3>1 DEF Faithful
    <3>. QED
      BY <2>1, <3>2, BecomesFaithful DEF Due
  <2>2. CASE BackfillDone(p)
    <3>1. [work[p] EXCEPT !.pc = "sleep", !.spent = 0].pc = "sleep"
      BY <1>2 DEF Work
    <3>2. Faithful([work[p] EXCEPT !.pc = "sleep", !.spent = 0], p, csr, s)
      BY <3>1 DEF Faithful
    <3>. QED
      BY <2>2, <3>2, BecomesFaithful DEF BackfillDone
  <2>3. CASE Wake(p)
    <3>1. Faithful(Idle("ensure"), p, csr, s)
      BY <1>1 DEF Idle
    <3>. QED
      BY <2>3, <3>1, BecomesFaithful DEF Wake
  <2>. QED
    BY <1>5, <2>1, <2>2, <2>3
<1>6. CASE Readback(p)
  <2>. DEFINE v == [work[p] EXCEPT !.pc = "sync", !.read = s, !.same = TRUE]
  <2>1. v.pc = "sync" /\ v.read = s
    BY <1>2 DEF Work
  <2>2. stored.ann # s => s # None
    BY DEF Inv, AnnotationsDescribeCertificate
  <2>3. Faithful(Settled(p), p, csr, s) /\ (s # None => Faithful(v, p, csr, s))
    BY <1>1, <2>1, SettledType DEF Faithful
  <2>. QED
    BY <1>6, <2>2, <2>3, BecomesFaithful DEF Readback
<1>7. CASE AnnotateFails(p)
  BY <1>1, <1>7, SettledType, BecomesFaithful DEF AnnotateFails
<1>8. CASE IssueCsr(p)
  <2>1. \A q \in Replica : work'[q] = IF q = p THEN [work[p] EXCEPT !.pc = "await"] ELSE work[q]
    BY <1>8 DEF IssueCsr, Becomes, TypeOK
  <2>2. \A r \in csr' : r.cert = None
    BY <1>8 DEF IssueCsr
  <2>3. [work[p] EXCEPT !.pc = "await"].pc = "await"
    BY <1>2 DEF Work
  <2>4. \A q \in Replica : Faithful(work'[q], q, csr', s)
    BY <2>1, <2>2, <2>3 DEF CallsFaithful, Faithful
  <2>. QED
    BY <1>8, <2>4 DEF IssueCsr, CallsFaithful
<1>9. CASE Collect(p)
  <2>1. PICK r \in csr : /\ r.by = {p} /\ r.cert # None
                         /\ work' = [work EXCEPT ![p] = [work[p] EXCEPT !.pc = "store", !.cert = r.cert]]
    BY <1>9 DEF Collect, Becomes
  <2>. DEFINE v == [work[p] EXCEPT !.pc = "store", !.cert = r.cert]
  <2>2. JustSigned(r.cert)
    BY <1>9, <2>1 DEF Collect, CallsFaithful, Faithful
  <2>3. v.pc = "store" /\ v.cert = r.cert
    BY <1>2 DEF Work
  <2>4. Faithful(v, p, {}, s)
    BY <2>2, <2>3 DEF Faithful
  <2>5. \A q \in Replica : work'[q] = IF q = p THEN v ELSE work[q]
    BY <2>1 DEF TypeOK
  <2>6. \A q \in Replica : Faithful(work'[q], q, {}, s)
    BY <2>4, <2>5 DEF CallsFaithful, Faithful
  <2>. QED
    BY <1>9, <2>6 DEF Collect, CallsFaithful
<1>10. CASE Store(p) \/ Annotate(p)
  <2>1. PICK v : /\ work' = [Outdated(work) EXCEPT ![p] = v]
                 /\ v.pc \in {"readback", "backfill", "sleep"}
    <3>1. CASE Store(p)
      <4>1. work' = [Outdated(work) EXCEPT ![p] = [Outdated(work)[p] EXCEPT !.pc = "readback"]]
        BY <3>1, OutdatedType DEF Store
      <4>2. [Outdated(work)[p] EXCEPT !.pc = "readback"].pc = "readback"
        BY OutdatedType DEF Work
      <4>. QED
        BY <4>1, <4>2
    <3>2. CASE Annotate(p)
      BY <3>2, SettledType DEF Annotate
    <3>. QED
      BY <1>10, <3>1, <3>2
  <2>2. csr' = csr /\ late' = OutdatedCalls(late)
    BY <1>10 DEF Store, Annotate
  <2>3. \A q \in Replica : work'[q] = IF q = p THEN v ELSE Outdated(work)[q]
    BY <2>1, OutdatedType
  <2>4. \A q \in Replica : Faithful(work'[q], q, csr', stored'.cert)
    BY <2>1, <2>2, <2>3, OutdatedFaithful DEF Faithful
  <2>. QED
    BY <2>2, <2>4, OutdatedFaithful DEF CallsFaithful
<1>. QED
  BY <1>3, <1>4, <1>5, <1>6, <1>7, <1>8, <1>9, <1>10 DEF EnsureStep

\* Time makes nothing older than a unit that is still to be written; what else
\* happens around authn changes what is stored, or asks it for nothing.
LEMMA EnvironmentFaithful ==
  ASSUME Inv, Tick \/ Rotate \/ Sign \/ Wipe \/ \E c \in late : Arrive(c)
  PROVE  CallsFaithful'
<1>. TypeOK /\ CallsFaithful
  BY DEF Inv
<1>1. CASE Tick
  <2>1. ASSUME NEW p \in Replica PROVE Faithful(Later(work[p]), p, csr', stored'.cert)
    <3>. DEFINE w == work[p]
    <3>1. /\ w \in Work
          /\ w.cert \in Cert \cup {None} /\ w.read \in Cert \cup {None}
      BY DEF TypeOK, Work
    <3>2. /\ Later(w).pc = w.pc /\ Later(w).cert = Older(w.cert)
          /\ Later(w).read = Older(w.read) /\ Later(w).same = w.same
      BY <3>1 DEF Later, Work
    <3>3. stored'.cert = Older(stored.cert)
      BY <1>1 DEF Tick
    <3>4. Faithful(w, p, csr, stored.cert) /\ Prompt(p)
      BY <1>1 DEF CallsFaithful, Tick
    <3>5. w.pc = "sync" => Older(w.read) # None /\ (w.same => Older(w.read) = Older(stored.cert))
      BY <3>1, <3>4, OlderType DEF Faithful
    <3>6. w.pc = "store" => JustSigned(Older(w.cert))
      BY <3>1, <3>4, OlderType DEF Faithful, Prompt, JustSigned
    <3>7. ASSUME w.pc = "await", NEW r \in csr', r.by = {p}, r.cert # None
          PROVE  JustSigned(r.cert)
      <4>1. PICK d \in csr : r = [d EXCEPT !.cert = Older(d.cert)]
        BY <1>1 DEF Tick
      <4>2. d \in Csr /\ d.cert \in Cert \cup {None}
        BY DEF TypeOK, Csr
      <4>3. r.by = d.by /\ r.cert = Older(d.cert)
        BY <4>1, <4>2 DEF Csr
      <4>4. d.cert # None /\ Age(d.cert) = 0
        BY <3>4, <3>7, <4>2, <4>3, OlderType DEF Prompt
      <4>. QED
        BY <4>2, <4>3, <4>4, OlderType
    <3>. QED
      BY <3>2, <3>3, <3>5, <3>6, <3>7 DEF Faithful
  <2>2. work' = [p \in Replica |-> Later(work[p])] /\ late' = {}
    BY <1>1 DEF Tick
  <2>. QED
    BY <2>1, <2>2 DEF CallsFaithful
<1>2. CASE Rotate
  BY <1>2 DEF Rotate, CallsFaithful
<1>3. CASE Sign
  <2>1. PICK r \in csr : csr' = {[r EXCEPT !.cert = Issued]}
    BY <1>3 DEF Sign
  <2>2. r \in Csr
    BY DEF TypeOK
  <2>3. \A d \in csr' : d.cert = Issued
    BY <2>1, <2>2 DEF Csr
  <2>4. JustSigned(Issued)
    BY IssuedType
  <2>. QED
    BY <1>3, <2>3, <2>4 DEF Sign, CallsFaithful, Faithful
<1>4. CASE Wipe
  <2>1. late \in SUBSET late
    OBVIOUS
  <2>. QED
    BY <1>4, <2>1, OutdatedFaithful DEF Wipe, CallsFaithful
<1>5. ASSUME NEW c \in late, Arrive(c) PROVE CallsFaithful'
  <2>1. CASE c.op = "issue" /\ csr' = {[by |-> {}, cert |-> None]}
             /\ late' = late \ {c} /\ UNCHANGED <<stored, work>>
    BY <2>1 DEF CallsFaithful, Faithful
  <2>2. CASE work' = Outdated(work) /\ late' = OutdatedCalls(late \ {c}) /\ csr' = csr
    <3>1. late \ {c} \in SUBSET late
      OBVIOUS
    <3>2. \A q \in Replica : Faithful(work'[q], q, csr', stored'.cert)
      BY <2>2, OutdatedFaithful
    <3>3. \A d \in late' : FaithfulCall(d, stored'.cert)
      BY <2>2, <3>1, OutdatedFaithful
    <3>. QED
      BY <3>2, <3>3 DEF CallsFaithful
  <2>. QED
    BY <1>5, <2>1, <2>2 DEF Arrive
<1>. QED
  BY <1>1, <1>2, <1>3, <1>4, <1>5

\* Every step leaves only faithful calls.
LEMMA FaithfulStep ==
  ASSUME Inv, [Next]_vars
  PROVE  CallsFaithful'
<1>1. CASE UNCHANGED vars
  BY <1>1 DEF Inv, CallsFaithful, vars
<1>2. CASE Next
  BY <1>2, LeadStepFaithful, EnsureStepFaithful, EnvironmentFaithful DEF Next
<1>. QED
  BY <1>1, <1>2

--------------------------------------------------------------------------------
(* What is stored *)

\* A step that touches the Secret lets it age, empties it, writes back the
\* certificate that is there, or stores one that was just signed; the annotations
\* describe it or are dropped.
LEMMA StoredStep ==
  ASSUME Inv, [Next]_vars
  PROVE  \/ stored' = stored
         \/ stored' = [cert |-> Older(stored.cert), ann |-> Older(stored.ann)]
         \/ /\ stored'.ann \in {None, stored'.cert}
            /\ stored'.cert \in {None, stored.cert} \/ JustSigned(stored'.cert)
<1>. TypeOK /\ CallsFaithful
  BY DEF Inv
<1>. DEFINE Aged    == stored' = [cert |-> Older(stored.cert), ann |-> Older(stored.ann)]
            Written == /\ stored'.ann \in {None, stored'.cert}
                       /\ stored'.cert \in {None, stored.cert} \/ JustSigned(stored'.cert)
<1>1. CASE UNCHANGED vars
  BY <1>1 DEF vars
<1>2. CASE Tick \/ Rotate \/ Sign
  BY <1>2 DEF Tick, Rotate, Sign
<1>3. CASE Wipe
  BY <1>3 DEF Wipe, Rewrite
<1>4. ASSUME NEW c \in late, Arrive(c) PROVE stored' = stored \/ Written
  <2>1. FaithfulCall(c, stored.cert)
    BY DEF CallsFaithful
  <2>. QED
    BY <1>4, <2>1 DEF Arrive, Rewrite, Sync, FaithfulCall
<1>5. ASSUME NEW p \in Replica, LeadStep(p) PROVE stored' = stored
  BY <1>5 DEF LeadStep, Start, Acquire, Lose, Crash, Stop
<1>6. ASSUME NEW p \in Replica, EnsureStep(p) PROVE stored' = stored \/ Written
  <2>1. Faithful(work[p], p, csr, stored.cert)
    BY DEF CallsFaithful
  <2>2. CASE Store(p)
    BY <2>1, <2>2 DEF Store, Rewrite, Faithful
  <2>3. CASE Annotate(p)
    BY <2>1, <2>3 DEF Annotate, Sync, Rewrite, Faithful
  <2>. QED
    BY <1>6, <2>2, <2>3 DEF EnsureStep, ReadFails, Current, Due, IssueCsr, Collect,
       CsrReplaced, IssueFails, Readback, AnnotateFails, BackfillDone, Wake
<1>. QED
  BY <1>1, <1>2, <1>3, <1>4, <1>5, <1>6 DEF Next

\* The annotations keep describing the certificate.
LEMMA AnnotationsStep ==
  ASSUME Inv, [Next]_vars
  PROVE  AnnotationsDescribeCertificate'
<1>1. stored.ann # None => stored.ann = stored.cert
  BY DEF Inv, AnnotationsDescribeCertificate
<1>2. CASE stored' = stored
  BY <1>1, <1>2 DEF AnnotationsDescribeCertificate
<1>3. CASE stored' = [cert |-> Older(stored.cert), ann |-> Older(stored.ann)]
  BY <1>1, <1>3 DEF AnnotationsDescribeCertificate, Older
<1>4. CASE stored'.ann \in {None, stored'.cert}
  BY <1>4 DEF AnnotationsDescribeCertificate
<1>. QED
  BY <1>2, <1>3, <1>4, StoredStep

--------------------------------------------------------------------------------
(* The theorems *)

\* The inductive invariant: types, annotations, and what every replica and every
\* late call is about to write.
THEOREM Invariance == Spec => []Inv
<1>1. Inv /\ [Next]_vars => Inv'
  BY TypeStep, FaithfulStep, AnnotationsStep DEF Inv
<1>. QED
  BY InitInv, <1>1, PTL DEF Spec

\* Whatever the replicas, durations and threshold, the state is well typed: in
\* particular the loop never waits for a negative time (sleepFor).
THEOREM TypeCorrect == Spec => []TypeOK
<1>1. Inv => TypeOK
  BY DEF Inv
<1>. QED
  BY Invariance, <1>1, PTL

\* The annotations of the Secret are absent or describe the certificate beside
\* them, however leads, writes and late calls interleave (syncAnnotations).
THEOREM AnnotationsCorrect == Spec => []AnnotationsDescribeCertificate
<1>1. Inv => AnnotationsDescribeCertificate
  BY DEF Inv
<1>. QED
  BY Invariance, <1>1, PTL

\* No write brings an earlier certificate back: what replaces the stored one was
\* signed within the last unit (syncAnnotations, issue).
THEOREM NoRollback == Spec => NeverRolledBack
<1>1. ASSUME Inv, [Next]_vars, NEW c \in {stored'.cert} \ {None, stored.cert, Older(stored.cert)}
      PROVE  Age(c) <= 1
  <2>1. JustSigned(c)
    BY <1>1, StoredStep
  <2>. QED
    BY <2>1 DEF JustSigned
<1>2. Inv /\ [Next]_vars =>
        [\A c \in {stored'.cert} \ {None, stored.cert, Older(stored.cert)} : Age(c) <= 1]_vars
  BY <1>1
<1>. QED
  BY Invariance, <1>2, PTL DEF Spec, NeverRolledBack

--------------------------------------------------------------------------------
(* The schedule and the budget of trouble *)

\* How long a replica that leads waits until it issues, beyond the renewal point of
\* the stored certificate: the floor, a retry, the backfill.
Pending(w) ==
  CASE w.pc \in {"readback", "sync"} ->
         (IF w.cert = None THEN w.wait ELSE sleepFor(RenewIn(w.cert)))
           + (IF w.first THEN BackfillTime ELSE 0)
    [] w.pc = "backfill" -> w.wait + (BackfillTime - w.spent)
    [] w.pc = "sleep"    -> w.wait
    [] OTHER             -> 0

\* The CSR a replica awaits was replaced, and a call that may replace one.
Replaced(p) == work[p].pc = "await" /\ \A r \in csr : r.by # {p}
LateIssue   == \E c \in late : c.op = "issue"

Reserve(t) == Cost * (MaxTrouble - t)
RoomFor(n) == stored.cert.left > n + Reserve(trouble)

\* What is left of the stored certificate covers the wait of whoever leads, or is to
\* lead, and the trouble that is still to be endured.
Ample ==
  stored.cert # None /\ trouble <= MaxTrouble =>
    /\ holder = {} => RoomFor(LeaseDuration - vacant)
    /\ \A p \in holder : RoomFor(Pending(work[p]))
    /\ LateIssue \/ (\E p \in Replica : Replaced(p)) => RoomFor(RetryInterval + BackfillTime)

\* Only the holder of the Lease runs ownIdentity.
Led ==
  /\ \A p \in Replica : work[p].pc \notin {"down", "standby"} => holder = {p}
  /\ \A p \in holder : holder = {p} /\ work[p].pc \notin {"down", "standby"}

Waits == \A p \in Replica : Pending(work[p]) \in 0..LongestWait /\ work[p].spent \in 0..BackfillTime

\* Every certificate about was granted by the signer.
Proper(c) == c # None => c.life - Backdate \in Shortest..Longest /\ c.left <= c.life - Backdate

ProperCerts ==
  /\ Proper(stored.cert)
  /\ \A r \in csr : Proper(r.cert)
  /\ \A c \in late : Proper(c.cert)
  /\ \A p \in Replica : Proper(work[p].cert)

\* There is one CSR named authn at most.
SoleCsr == \A r, d \in csr : r = d

RoomInv == Led /\ SoleCsr /\ ProperCerts /\ Waits /\ Ample

\* The renewal point, rounded down.
LEMMA UntilBounds ==
  ASSUME NEW l \in Nat
  PROVE  /\ Until(l) \in Nat
         /\ ThresholdDen * Until(l) <= l * ThresholdNum
         /\ l * ThresholdNum < ThresholdDen * Until(l) + ThresholdDen
<1>1. PICK a \in Nat : a = l * ThresholdNum
  BY OwnIdentityAssumption
<1>2. PICK d \in Nat : d = ThresholdDen /\ d > 0
  BY OwnIdentityAssumption
<1>3. PICK q \in Int : q = a \div d
  BY <1>2
<1>4. a % d \in 0..(d - 1) /\ a = d * q + (a % d)
  BY <1>2, <1>3
<1>5. q \in Nat /\ d * q <= a /\ a < d * q + d
  BY <1>2, <1>4
<1>. QED
  BY <1>1, <1>2, <1>3, <1>5 DEF Until

\* What is less by less than one is not more.
LEMMA Factor ==
  ASSUME NEW a \in Int, NEW b \in Int, NEW d \in Nat, d > 0, d * a < d * b + d
  PROVE  a <= b
<1>1. SUFFICES ASSUME a >= b + 1 PROVE FALSE
  OBVIOUS
<1>2. PICK k \in Nat : a = b + 1 + k
  <2>1. a - b - 1 \in Nat
    BY <1>1
  <2>. QED
    BY <2>1
<1>3. d * a = d * b + d + d * k
  BY <1>2
<1>4. d * k >= 0
  OBVIOUS
<1>. QED
  BY <1>3, <1>4

\* A longer certificate is renewed later, and leaves more after its renewal point.
LEMMA UntilMonotone ==
  ASSUME NEW l \in Nat, NEW m \in Nat, l <= m
  PROVE  Until(l) <= Until(m) /\ l - Until(l) <= m - Until(m)
<1>1. PICK k \in Nat : m = l + k
  <2>1. m - l \in Nat
    OBVIOUS
  <2>. QED
    BY <2>1
<1>2. PICK d \in Nat : d = ThresholdDen /\ d > 0
  BY OwnIdentityAssumption
<1>3. PICK n \in Nat : n = ThresholdNum /\ n < d
  BY <1>2, OwnIdentityAssumption
<1>4. PICK x \in Nat : x = Until(l) /\ d * x <= l * n /\ l * n < d * x + d
  BY <1>2, <1>3, UntilBounds
<1>5. PICK y \in Nat : y = Until(m) /\ d * y <= m * n /\ m * n < d * y + d
  BY <1>2, <1>3, UntilBounds
<1>6. m * n = l * n + k * n /\ 0 <= k * n
  BY <1>1
<1>7. k * n <= d * k
  <2>1. PICK e \in Nat : d = n + e
    <3>1. d - n \in Nat
      BY <1>3
    <3>. QED
      BY <3>1
  <2>2. d * k = k * n + k * e /\ 0 <= k * e
    BY <2>1
  <2>. QED
    BY <2>2
<1>8. x <= y
  <2>1. l * n \in Nat /\ m * n \in Nat /\ d * x \in Nat /\ d * y \in Nat /\ k * n \in Nat
    OBVIOUS
  <2>2. d * x < d * y + d
    BY <1>4, <1>5, <1>6, <2>1
  <2>. QED
    BY <1>2, <2>2, Factor
<1>9. y <= x + k
  <2>1. l * n \in Nat /\ m * n \in Nat /\ d * x \in Nat /\ d * y \in Nat /\ k * n \in Nat /\ d * k \in Nat
    OBVIOUS
  <2>2. d * (x + k) = d * x + d * k
    OBVIOUS
  <2>3. d * y < d * (x + k) + d
    BY <1>4, <1>5, <1>6, <1>7, <2>1, <2>2
  <2>. QED
    BY <1>2, <2>3, Factor
<1>. QED
  BY <1>1, <1>4, <1>5, <1>8, <1>9

\* The sizes the schedule is reckoned with.
LEMMA Sizes ==
  /\ Shortest \in Nat /\ Shortest > 0 /\ Longest \in Nat /\ Shortest <= Longest
  /\ Cost \in Nat /\ Cost >= 1 /\ Cost >= LeaseDuration /\ Cost >= RetryInterval + BackfillTime
  /\ Until(Longest + Backdate) \in Nat
  /\ LongestWait \in Nat /\ LongestWait >= Cost
  /\ LongestWait >= sleepFor(Until(Longest + Backdate) - Backdate) + BackfillTime
<1>1. Shortest \in Nat /\ Shortest > 0 /\ Longest \in Nat /\ Shortest <= Longest
  BY OwnIdentityAssumption DEF Shortest, Longest, Lesser
<1>2. Cost \in Nat /\ Cost >= 1 /\ Cost >= LeaseDuration /\ Cost >= RetryInterval + BackfillTime
  BY OwnIdentityAssumption DEF Cost, Greater
<1>3. Until(Longest + Backdate) \in Nat
  BY <1>1, UntilBounds, OwnIdentityAssumption
<1>4. sleepFor(Until(Longest + Backdate) - Backdate) \in Nat
  BY <1>3, SleepForType, OwnIdentityAssumption
<1>. QED
  BY <1>1, <1>2, <1>3, <1>4, OwnIdentityAssumption DEF LongestWait, Greater

\* Each thing that goes wrong takes its share of what is kept for trouble.
LEMMA ReserveShare ==
  ASSUME NEW t \in 0..MaxTrouble
  PROVE  /\ Reserve(t) \in Nat /\ Reserve(t) <= Cost * MaxTrouble
         /\ t + 1 <= MaxTrouble => Reserve(t) = Reserve(t + 1) + Cost
<1>1. PICK k \in Nat : MaxTrouble = t + k
  <2>1. MaxTrouble - t \in Nat
    BY OwnIdentityAssumption
  <2>. QED
    BY <2>1, OwnIdentityAssumption
<1>2. PICK c \in Nat : c = Cost
  BY Sizes
<1>3. MaxTrouble - t = k /\ MaxTrouble - (t + 1) = k - 1
  BY <1>1
<1>4. Reserve(t) = c * k /\ Reserve(t + 1) = c * (k - 1)
  BY <1>2, <1>3 DEF Reserve
<1>5. c * k \in Nat /\ c * (t + k) = c * t + c * k /\ c * t \in Nat
  OBVIOUS
<1>6. c * k = c * (k - 1) + c
  OBVIOUS
<1>. QED
  BY <1>1, <1>2, <1>4, <1>5, <1>6

\* A certificate of the signer's: when it is due, and what is left of it then.
LEMMA ProperSchedule ==
  ASSUME RoomForTrouble, NEW c \in Cert, Proper(c)
  PROVE  /\ RenewIn(c) \in Int /\ sleepFor(RenewIn(c)) \in Nat
         /\ sleepFor(RenewIn(c)) + BackfillTime <= LongestWait
         /\ c.left - RenewIn(c) >= MinSleep + BackfillTime + Cost * MaxTrouble
<1>1. /\ c.life \in Nat /\ c.left \in Nat /\ c.life > 0 /\ c.left <= c.life - Backdate
      /\ Shortest + Backdate \in Nat /\ Longest + Backdate \in Nat
      /\ Shortest + Backdate <= c.life /\ c.life <= Longest + Backdate
  BY Sizes, NoneAssumption, OwnIdentityAssumption DEF Proper, Cert
<1>2. Until(c.life) \in Nat /\ RenewIn(c) = (c.left - c.life) + Until(c.life)
  BY <1>1, UntilBounds DEF RenewIn, Until
<1>3. RenewIn(c) <= Until(Longest + Backdate) - Backdate
  BY <1>1, <1>2, UntilMonotone, Sizes, OwnIdentityAssumption
<1>4. sleepFor(RenewIn(c)) <= sleepFor(Until(Longest + Backdate) - Backdate)
  BY <1>1, <1>2, <1>3, Sizes, OwnIdentityAssumption DEF sleepFor
<1>5. sleepFor(RenewIn(c)) \in Nat
  BY RenewInType, SleepForType
<1>6. sleepFor(Until(Longest + Backdate) - Backdate) \in Nat
  BY Sizes, SleepForType, OwnIdentityAssumption
<1>7. sleepFor(RenewIn(c)) + BackfillTime <= LongestWait
  BY <1>4, <1>5, <1>6, Sizes, OwnIdentityAssumption
<1>8. PICK m \in Nat : m = Shortest + Backdate
  BY <1>1
<1>9. Until(m) \in Nat /\ m - Until(m) <= c.life - Until(c.life)
  BY <1>1, <1>8, UntilBounds, UntilMonotone
<1>10. PICK k \in Nat : k = Cost * MaxTrouble
  BY Sizes, OwnIdentityAssumption
<1>11. m - Until(m) >= MinSleep + BackfillTime + k
  BY <1>8, <1>10 DEF RoomForTrouble
<1>12. c.left - RenewIn(c) >= MinSleep + BackfillTime + k
  BY <1>1, <1>2, <1>9, <1>11, OwnIdentityAssumption
<1>. QED
  BY <1>2, <1>5, <1>7, <1>10, <1>12, RenewInType

\* What the signer issues, and what is left of it later.
LEMMA ProperIssued ==
  ASSUME TypeOK
  PROVE  Proper(Issued)
<1>1. ca \in Nat /\ CAMin <= ca /\ ca <= CALife
  BY OwnIdentityAssumption DEF TypeOK
<1>2. Granted \in Shortest..Longest
  BY <1>1, OwnIdentityAssumption DEF Granted, Shortest, Longest, Lesser
<1>. QED
  BY <1>2, Sizes, OwnIdentityAssumption DEF Issued, Proper

LEMMA ProperOlder ==
  ASSUME NEW c \in Cert \cup {None}, Proper(c)
  PROVE  /\ Proper(Older(c))
         /\ c # None => /\ sleepFor(RenewIn(Older(c))) <= sleepFor(RenewIn(c))
                        /\ Older(c).left = Less(c.left)
<1>1. CASE c = None
  BY <1>1 DEF Older
<1>2. CASE c # None
  <2>1. c \in Cert /\ c.life \in Nat /\ c.left \in Nat
    BY <1>2 DEF Cert
  <2>2. Less(c.left) \in Nat /\ Less(c.left) <= c.left
    BY <2>1 DEF Less
  <2>3. Older(c) \in Cert /\ Older(c).life = c.life /\ Older(c).left = Less(c.left)
    BY <1>2, <2>1, <2>2 DEF Older, Cert
  <2>4. Proper(Older(c))
    BY <1>2, <2>1, <2>2, <2>3, OwnIdentityAssumption, Sizes DEF Proper
  <2>5. RenewIn(c) \in Int /\ RenewIn(Older(c)) \in Int
    BY <2>1, <2>3, RenewInType
  <2>6. RenewIn(Older(c)) <= RenewIn(c)
    <3>1. Until(c.life) \in Nat
      BY <2>1, UntilBounds
    <3>. QED
      BY <2>1, <2>2, <2>3, <3>1 DEF RenewIn, Until
  <2>. QED
    BY <2>3, <2>4, <2>5, <2>6, OwnIdentityAssumption DEF sleepFor
<1>. QED
  BY <1>1, <1>2

\* A replica that rests, after the backfill if it is its first Ensure.
LEMMA RestingWait ==
  ASSUME TypeOK, NEW p \in Replica, NEW d \in Nat
  PROVE  /\ Pending(Resting(p, d)) = d + (IF work[p].first THEN BackfillTime ELSE 0)
         /\ Resting(p, d).spent = 0 /\ Resting(p, d).cert = None
         /\ Resting(p, d).pc \in {"backfill", "sleep"}
<1>. DEFINE v == Resting(p, d)
<1>1. /\ v.pc = IF work[p].first THEN "backfill" ELSE "sleep"
      /\ v.wait = d /\ v.spent = 0 /\ v.cert = None
  BY DEF Resting, Idle
<1>2. Pending(v) = d + (IF work[p].first THEN BackfillTime ELSE 0)
  BY <1>1, OwnIdentityAssumption DEF Pending
<1>. QED
  BY <1>1, <1>2

\* Whether the annotations are written or not, the wait is the same.
LEMMA SettledWait ==
  ASSUME TypeOK, NEW p \in Replica, work[p].pc \in {"readback", "sync"}
  PROVE  /\ Pending(Settled(p)) = Pending(work[p])
         /\ Settled(p).spent = 0 /\ Settled(p).cert = None
         /\ Settled(p).pc \in {"backfill", "sleep"}
<1>1. work[p].cert \in Cert \cup {None} /\ work[p].wait \in Nat
  BY DEF TypeOK, Work
<1>2. PICK d \in Nat : d = IF work[p].cert = None THEN work[p].wait ELSE sleepFor(RenewIn(work[p].cert))
  BY <1>1, RenewInType, SleepForType
<1>3. Settled(p) = Resting(p, d)
  BY <1>2 DEF Settled
<1>4. Pending(work[p]) = d + (IF work[p].first THEN BackfillTime ELSE 0)
  BY <1>2 DEF Pending
<1>. QED
  BY <1>3, <1>4, RestingWait

\* What a step of the replica that leads comes to: it stores a certificate, goes on,
\* fails and waits to retry, or finds the stored certificate current.
LEMMA EnsureOutcome ==
  ASSUME Inv, Waits, NEW p \in Replica, EnsureStep(p)
  PROVE  LET w == work[p]  v == work'[p]  b == IF w.first THEN BackfillTime ELSE 0 IN
         /\ \A q \in Replica \ {p} :
              /\ work'[q].pc = work[q].pc /\ work'[q].cert = work[q].cert /\ work'[q].wait = work[q].wait
              /\ work'[q].first = work[q].first /\ work'[q].spent = work[q].spent
         /\ UNCHANGED <<ca, holder, vacant>>
         /\ w.pc \notin {"down", "standby"} /\ v.pc \notin {"down", "standby"}
         /\ v.spent \in {0, w.spent}
         /\ v.cert \in {None, w.cert} \/ (w.pc = "await" /\ \E r \in csr : v.cert = r.cert)
         /\ v.pc = "await" => \E r \in csr' : r.by = {p}
         /\ csr' = csr \/ (\A r \in csr' : r.cert = None)
         /\ \A c \in late' : \E d \in late : c.op = d.op /\ c.cert = d.cert
         /\ \/ /\ w.pc = "store" /\ stored'.cert = w.cert
               /\ trouble' = Lesser(Age(w.cert), MaxTrouble + 1)
               /\ v.pc = "readback" /\ v.cert = w.cert /\ v.first = w.first
            \/ stored'.cert = stored.cert /\ trouble' = trouble /\ Pending(v) <= Pending(w)
            \/ stored'.cert = stored.cert /\ Troubled /\ Pending(v) = RetryInterval + b
            \/ /\ stored'.cert = stored.cert /\ trouble' = trouble /\ Replaced(p)
               /\ Pending(v) = RetryInterval + b
            \/ /\ stored'.cert = stored.cert /\ trouble' = trouble /\ Fresh
               /\ Pending(v) = sleepFor(RenewIn(stored.cert)) + b
<1>. TypeOK /\ CallsFaithful
  BY DEF Inv
<1>. DEFINE w == work[p]
            v == work'[p]
            b == IF w.first THEN BackfillTime ELSE 0
            Kept == \A q \in Replica \ {p} :
              /\ work'[q].pc = work[q].pc /\ work'[q].cert = work[q].cert /\ work'[q].wait = work[q].wait
              /\ work'[q].first = work[q].first /\ work'[q].spent = work[q].spent
<1>1. /\ w \in Work /\ w.cert \in Cert \cup {None} /\ w.wait \in Nat /\ w.spent \in Nat /\ w.spent <= BackfillTime
      /\ RetryInterval \in Nat /\ BackfillTime \in Nat /\ Pending(w) \in Nat
  BY OwnIdentityAssumption, Sizes DEF TypeOK, Work, Waits
<1>2. ASSUME NEW u, Becomes(p, u) PROVE Kept /\ v = u
  BY <1>2 DEF Becomes, TypeOK
<1>3. late' = late => \A c \in late' : \E d \in late : c.op = d.op /\ c.cert = d.cert
  OBVIOUS
<1>4. CASE ReadFails(p) \/ IssueFails(p) \/ CsrReplaced(p)
  <2>1. v = Resting(p, RetryInterval) /\ Kept
    BY <1>2, <1>4 DEF ReadFails, IssueFails, CsrReplaced
  <2>2. CASE ReadFails(p) \/ IssueFails(p)
    BY <1>1, <1>3, <2>1, <2>2, RestingWait DEF ReadFails, IssueFails
  <2>3. CASE CsrReplaced(p)
    BY <1>1, <1>3, <2>1, <2>3, RestingWait DEF CsrReplaced, Replaced
  <2>. QED
    BY <1>4, <2>2, <2>3
<1>5. CASE Current(p)
  <2>1. stored.cert \in Cert /\ stored.cert # None /\ Fresh
    BY <1>5 DEF TypeOK, Current, Fresh
  <2>2. PICK d \in Nat : d = sleepFor(RenewIn(stored.cert))
    BY <2>1, RenewInType, SleepForType
  <2>. DEFINE x == Resting(p, d)
              y == [x EXCEPT !.pc = "sync", !.first = work[p].first, !.read = stored.cert, !.same = TRUE]
  <2>3. v \in {x, y} /\ Kept
    BY <1>2, <1>5, <2>2 DEF Current
  <2>4. x \in Work /\ x.wait = d
    BY RestingType DEF Resting, Idle
  <2>5. /\ y.pc = "sync" /\ y.first = w.first /\ y.wait = d
        /\ y.cert = x.cert /\ y.spent = x.spent
    BY <2>4 DEF Work
  <2>6. Pending(x) = d + b /\ x.cert = None /\ x.spent = 0 /\ x.pc \in {"backfill", "sleep"}
    BY RestingWait
  <2>7. Pending(y) = d + b
    BY <2>5, <2>6 DEF Pending
  <2>8. Pending(v) = d + b /\ v.cert = None /\ v.spent = 0 /\ v.pc \in {"backfill", "sleep", "sync"}
    BY <2>3, <2>5, <2>6, <2>7
  <2>. QED
    BY <1>3, <1>5, <2>1, <2>2, <2>3, <2>8 DEF Current
<1>6. CASE Due(p)
  <2>1. v = [w EXCEPT !.pc = "issue"] /\ Kept
    BY <1>2, <1>6 DEF Due
  <2>2. v.pc = "issue" /\ v.cert = w.cert /\ v.spent = w.spent /\ Pending(v) = 0
    BY <1>1, <2>1 DEF Work, Pending
  <2>. QED
    BY <1>1, <1>3, <1>6, <2>1, <2>2 DEF Due
<1>7. CASE BackfillDone(p)
  <2>1. v = [w EXCEPT !.pc = "sleep", !.spent = 0] /\ Kept
    BY <1>2, <1>7 DEF BackfillDone
  <2>2. v.pc = "sleep" /\ v.cert = w.cert /\ v.spent = 0 /\ v.wait = w.wait
    BY <1>1, <2>1 DEF Work
  <2>3. Pending(v) <= Pending(w)
    BY <1>1, <1>7, <2>2 DEF Pending, BackfillDone
  <2>. QED
    BY <1>1, <1>3, <1>7, <2>1, <2>2, <2>3 DEF BackfillDone
<1>8. CASE Wake(p)
  <2>1. v = Idle("ensure") /\ Kept
    BY <1>2, <1>8 DEF Wake
  <2>2. v.pc = "ensure" /\ v.cert = None /\ v.spent = 0 /\ Pending(v) = 0
    BY <2>1 DEF Idle, Pending
  <2>. QED
    BY <1>1, <1>3, <1>8, <2>1, <2>2 DEF Wake
<1>9. CASE Readback(p)
  <2>. DEFINE y == [w EXCEPT !.pc = "sync", !.read = stored.cert, !.same = TRUE]
  <2>1. v \in {Settled(p), y} /\ Kept
    BY <1>2, <1>9 DEF Readback
  <2>2. /\ y.pc = "sync" /\ y.first = w.first /\ y.wait = w.wait
        /\ y.cert = w.cert /\ y.spent = w.spent
    BY <1>1 DEF Work
  <2>3. w.pc = "readback" /\ Pending(y) = Pending(w)
    BY <1>9, <2>2 DEF Pending, Readback
  <2>4. /\ Pending(v) = Pending(w) /\ v.cert \in {None, w.cert} /\ v.spent \in {0, w.spent}
        /\ v.pc \in {"backfill", "sleep", "sync"}
    BY <2>1, <2>2, <2>3, SettledWait
  <2>. QED
    BY <1>1, <1>3, <1>9, <2>1, <2>3, <2>4 DEF Readback
<1>10. CASE AnnotateFails(p)
  <2>1. v = Settled(p) /\ Kept
    BY <1>2, <1>10 DEF AnnotateFails
  <2>. QED
    BY <1>1, <1>3, <1>10, <2>1, SettledWait DEF AnnotateFails
<1>11. CASE IssueCsr(p)
  <2>1. v = [w EXCEPT !.pc = "await"] /\ Kept
    BY <1>2, <1>11 DEF IssueCsr
  <2>2. v.pc = "await" /\ v.cert = w.cert /\ v.spent = w.spent /\ Pending(v) = 0
    BY <1>1, <2>1 DEF Work, Pending
  <2>3. (\A r \in csr' : r.cert = None) /\ \E r \in csr' : r.by = {p}
    BY <1>11 DEF IssueCsr
  <2>. QED
    BY <1>1, <1>3, <1>11, <2>1, <2>2, <2>3 DEF IssueCsr
<1>12. CASE Collect(p)
  <2>1. PICK r \in csr : Becomes(p, [w EXCEPT !.pc = "store", !.cert = r.cert])
    BY <1>12 DEF Collect
  <2>2. v = [w EXCEPT !.pc = "store", !.cert = r.cert] /\ Kept
    BY <1>2, <2>1
  <2>3. v.pc = "store" /\ v.cert = r.cert /\ v.spent = w.spent /\ Pending(v) = 0
    BY <1>1, <2>2 DEF Work, Pending
  <2>. QED
    BY <1>1, <1>3, <1>12, <2>2, <2>3 DEF Collect
\* A write: the others have an old resourceVersion.
<1>13. ASSUME late' = OutdatedCalls(late)
       PROVE  \A c \in late' : \E d \in late : c.op = d.op /\ c.cert = d.cert
  BY <1>13 DEF OutdatedCalls, TypeOK, Call
<1>14. ASSUME NEW u, work' = [Outdated(work) EXCEPT ![p] = u] PROVE Kept /\ v = u
  <2>1. \A q \in Replica : Outdated(work)[q] = [work[q] EXCEPT !.same = FALSE]
    BY DEF Outdated
  <2>2. \A q \in Replica : /\ Outdated(work)[q].pc = work[q].pc /\ Outdated(work)[q].cert = work[q].cert
                           /\ Outdated(work)[q].wait = work[q].wait /\ Outdated(work)[q].first = work[q].first
                           /\ Outdated(work)[q].spent = work[q].spent
    BY <2>1 DEF TypeOK, Work
  <2>. QED
    BY <1>14, <2>2, OutdatedType
<1>15. CASE Annotate(p)
  <2>1. v = Settled(p) /\ Kept
    BY <1>14, <1>15 DEF Annotate
  <2>2. stored'.cert = stored.cert
    BY <1>15 DEF Annotate, Sync, Rewrite, CallsFaithful, Faithful
  <2>. QED
    BY <1>1, <1>13, <1>15, <2>1, <2>2, SettledWait DEF Annotate
<1>16. CASE Store(p)
  <2>. DEFINE u == [Outdated(work)[p] EXCEPT !.pc = "readback"]
  <2>1. work' = [Outdated(work) EXCEPT ![p] = u]
    BY <1>16, OutdatedType DEF Store
  <2>2. v = u /\ Kept
    BY <1>14, <2>1
  <2>3. Outdated(work)[p] = [w EXCEPT !.same = FALSE]
    BY DEF Outdated
  <2>4. u.pc = "readback" /\ u.cert = w.cert /\ u.first = w.first /\ u.spent = w.spent
    BY <1>1, <2>3 DEF Work
  <2>. QED
    BY <1>1, <1>13, <1>16, <2>2, <2>4 DEF Store, Rewrite
<1>. QED
  BY <1>4, <1>5, <1>6, <1>7, <1>8, <1>9, <1>10, <1>11, <1>12, <1>15, <1>16 DEF EnsureStep

\* signup deletes the CSR of its name before it creates another.
LEMMA SoleStep ==
  ASSUME TypeOK, SoleCsr, [Next]_vars
  PROVE  SoleCsr'
<1>1. CASE csr' = csr
  BY <1>1 DEF SoleCsr
<1>2. ASSUME NEW r, csr' = {r} PROVE SoleCsr'
  BY <1>2 DEF SoleCsr
<1>3. CASE csr' = {}
  BY <1>3 DEF SoleCsr
<1>4. CASE Tick
  BY <1>4 DEF Tick, SoleCsr
<1>5. CASE Sign \/ \E c \in late : Arrive(c)
  BY <1>1, <1>2, <1>5 DEF Sign, Arrive
<1>6. ASSUME NEW p \in Replica, EnsureStep(p) PROVE SoleCsr'
  <2>1. CASE IssueCsr(p)
    BY <1>2, <2>1 DEF IssueCsr
  <2>2. CASE Collect(p)
    BY <1>3, <2>2 DEF Collect
  <2>. QED
    BY <1>1, <1>6, <2>1, <2>2 DEF EnsureStep, ReadFails, Current, Due, CsrReplaced, IssueFails, Store,
       Readback, Annotate, AnnotateFails, BackfillDone, Wake
<1>7. ASSUME NEW p \in Replica, LeadStep(p) PROVE SoleCsr'
  BY <1>1, <1>7 DEF LeadStep, Start, Acquire, Lose, Crash, Stop
<1>. QED
  BY <1>1, <1>4, <1>5, <1>6, <1>7 DEF Next, Rotate, Wipe, vars

\* Nobody runs ownIdentity without the Lease.
LEMMA LedStep ==
  ASSUME Inv, Led, Waits, [Next]_vars
  PROVE  Led'
<1>. TypeOK
  BY DEF Inv
<1>. DEFINE Leading(w) == w.pc \notin {"down", "standby"}
<1>1. ASSUME holder' = holder, \A p \in Replica : Leading(work'[p]) <=> Leading(work[p]) PROVE Led'
  BY <1>1 DEF Led, TypeOK
<1>2. CASE UNCHANGED vars
  BY <1>1, <1>2 DEF vars
<1>3. CASE Tick \/ Rotate \/ Sign \/ Wipe \/ \E c \in late : Arrive(c)
  <2>1. ASSUME NEW p \in Replica PROVE Later(work[p]).pc = work[p].pc /\ Outdated(work)[p].pc = work[p].pc
    <3>1. work[p] \in Work
      BY DEF TypeOK
    <3>2. Later(work[p]).pc = work[p].pc
      BY <3>1 DEF Later, Work
    <3>3. Outdated(work)[p] = [work[p] EXCEPT !.same = FALSE]
      BY DEF Outdated
    <3>. QED
      BY <3>1, <3>2, <3>3 DEF Work
  <2>. QED
    BY <1>1, <1>3, <2>1 DEF Tick, Rotate, Sign, Wipe, Arrive
<1>4. ASSUME NEW p \in Replica, LeadStep(p) PROVE Led'
  <2>1. CASE Start(p)
    <3>1. work' = [work EXCEPT ![p] = Idle("standby")] /\ work[p].pc = "down" /\ holder' = holder
      BY <2>1 DEF Start, Becomes
    <3>2. \A q \in Replica : work'[q] = IF q = p THEN Idle("standby") ELSE work[q]
      BY <3>1 DEF TypeOK
    <3>. QED
      BY <1>1, <3>1, <3>2 DEF Idle
  <2>2. CASE Acquire(p)
    <3>. DEFINE v == [Idle("ensure") EXCEPT !.first = TRUE]
    <3>1. \A q \in Replica : work'[q] = IF q = p THEN v ELSE work[q]
      BY <2>2 DEF Acquire, Becomes, TypeOK
    <3>2. v.pc = "ensure" /\ holder = {} /\ holder' = {p}
      BY <2>2 DEF Acquire, Idle
    <3>. QED
      BY <3>1, <3>2 DEF Led
  <2>3. ASSUME NEW pc \in {"down", "standby"}, Stop(p, pc) PROVE Led'
    <3>1. \A q \in Replica : work'[q] = IF q = p THEN Idle(pc) ELSE work[q]
      BY <2>3 DEF Stop, Becomes, TypeOK
    <3>2. ~Leading(Idle(pc)) /\ holder' = holder \ {p}
      BY <2>3 DEF Stop, Idle
    <3>3. ASSUME NEW q \in Replica, Leading(work'[q]) PROVE holder' = {q}
      <4>1. q # p /\ Leading(work[q])
        BY <3>1, <3>2, <3>3
      <4>. QED
        BY <3>2, <4>1 DEF Led
    <3>4. ASSUME NEW q \in holder' PROVE holder' = {q} /\ Leading(work'[q])
      <4>1. q \in Replica /\ q # p /\ holder = {q} /\ Leading(work[q])
        BY <3>2, <3>4 DEF Led, TypeOK
      <4>. QED
        BY <3>1, <3>2, <4>1
    <3>. QED
      BY <3>3, <3>4 DEF Led
  <2>. QED
    BY <1>4, <2>1, <2>2, <2>3 DEF LeadStep, Lose, Crash
<1>5. ASSUME NEW p \in Replica, EnsureStep(p) PROVE Led'
  <2>1. /\ holder' = holder /\ Leading(work[p]) /\ Leading(work'[p])
        /\ \A q \in Replica \ {p} : work'[q].pc = work[q].pc
    BY <1>5, EnsureOutcome
  <2>. QED
    BY <1>1, <2>1
<1>. QED
  BY <1>2, <1>3, <1>4, <1>5 DEF Next

\* A call that was on its way when the lead ended carries what the replica had.
LEMMA InFlightCert ==
  ASSUME TypeOK, NEW p \in Replica, NEW c \in InFlight(p)
  PROVE  c.cert = work[p].cert /\ c.op = work[p].pc
BY DEF InFlight

\* Certificates come from the signer, and only grow older.
LEMMA ProperStep ==
  ASSUME Inv, Waits, ProperCerts, [Next]_vars
  PROVE  ProperCerts'
<1>. TypeOK /\ CallsFaithful
  BY DEF Inv
<1>1. CASE UNCHANGED vars
  BY <1>1 DEF ProperCerts, vars
<1>2. Proper(None)
  BY DEF Proper
<1>3. CASE Tick
  <2>1. Proper(stored'.cert)
    BY <1>3, ProperOlder DEF Tick, ProperCerts, TypeOK
  <2>2. ASSUME NEW r \in csr' PROVE Proper(r.cert)
    <3>1. PICK d \in csr : r = [d EXCEPT !.cert = Older(d.cert)]
      BY <1>3 DEF Tick
    <3>2. r.cert = Older(d.cert) /\ d.cert \in Cert \cup {None}
      BY <3>1 DEF TypeOK, Csr
    <3>. QED
      BY <3>2, ProperOlder DEF ProperCerts
  <2>3. ASSUME NEW p \in Replica PROVE Proper(work'[p].cert)
    <3>1. work[p].cert \in Cert \cup {None} /\ Later(work[p]).cert = Older(work[p].cert)
      BY DEF TypeOK, Work, Later
    <3>. QED
      BY <1>3, <3>1, ProperOlder DEF Tick, ProperCerts
  <2>4. late' = {}
    BY <1>3 DEF Tick
  <2>. QED
    BY <2>1, <2>2, <2>3, <2>4 DEF ProperCerts
<1>4. CASE Rotate
  BY <1>4 DEF Rotate, ProperCerts
<1>5. CASE Sign
  <2>1. PICK r \in csr : csr' = {[r EXCEPT !.cert = Issued]}
    BY <1>5 DEF Sign
  <2>2. \A d \in csr' : d.cert = Issued
    BY <2>1 DEF TypeOK, Csr
  <2>. QED
    BY <1>5, <2>2, ProperIssued DEF Sign, ProperCerts
<1>6. \A p \in Replica : Proper(Outdated(work)[p].cert)
  BY OutdatedType DEF ProperCerts
<1>7. ASSUME NEW C \in SUBSET late, NEW c \in OutdatedCalls(C) PROVE Proper(c.cert)
  BY <1>7 DEF ProperCerts, OutdatedCalls, TypeOK, Call
<1>8. CASE Wipe
  BY <1>2, <1>6, <1>7, <1>8 DEF Wipe, Rewrite, ProperCerts
<1>9. ASSUME NEW c \in late, Arrive(c) PROVE ProperCerts'
  <2>1. CASE c.op = "issue" /\ csr' = {[by |-> {}, cert |-> None]}
             /\ late' = late \ {c} /\ UNCHANGED <<stored, work>>
    BY <1>2, <2>1 DEF ProperCerts
  <2>2. CASE /\ work' = Outdated(work) /\ late' = OutdatedCalls(late \ {c}) /\ csr' = csr
             /\ stored'.cert \in {c.cert, stored.cert}
    BY <1>6, <1>7, <2>2 DEF ProperCerts
  <2>3. c.op = "sync" /\ Sync(c.read, c.same) => stored'.cert = stored.cert
    BY DEF Sync, Rewrite, CallsFaithful, FaithfulCall
  <2>. QED
    BY <1>9, <2>1, <2>2, <2>3 DEF Arrive, Rewrite
<1>10. ASSUME NEW p \in Replica, LeadStep(p) PROVE ProperCerts'
  <2>1. ASSUME NEW w, Becomes(p, w), w.cert = None, UNCHANGED <<stored, csr, late>> PROVE ProperCerts'
    BY <1>2, <2>1 DEF Becomes, TypeOK, ProperCerts
  <2>2. CASE Start(p) \/ Acquire(p)
    BY <2>1, <2>2 DEF Start, Acquire, Idle
  <2>3. ASSUME NEW pc, Stop(p, pc) PROVE ProperCerts'
    <3>1. \A q \in Replica : work'[q] = IF q = p THEN Idle(pc) ELSE work[q]
      BY <2>3 DEF Stop, Becomes, TypeOK
    <3>2. \A c \in late' : Proper(c.cert)
      BY <2>3, InFlightCert DEF Stop, ProperCerts
    <3>. QED
      BY <1>2, <2>3, <3>1, <3>2 DEF Stop, ProperCerts, Idle
  <2>. QED
    BY <1>10, <2>2, <2>3 DEF LeadStep, Lose, Crash
<1>11. ASSUME NEW p \in Replica, EnsureStep(p) PROVE ProperCerts'
  <2>. DEFINE w == work[p]
              v == work'[p]
  <2>1. /\ \A q \in Replica \ {p} : work'[q].cert = work[q].cert
        /\ v.cert \in {None, w.cert} \/ (w.pc = "await" /\ \E r \in csr : v.cert = r.cert)
        /\ csr' = csr \/ (\A r \in csr' : r.cert = None)
        /\ \A c \in late' : \E d \in late : c.op = d.op /\ c.cert = d.cert
        /\ stored'.cert \in {stored.cert, w.cert}
    BY <1>11, EnsureOutcome
  <2>. QED
    BY <1>2, <2>1 DEF ProperCerts
<1>. QED
  BY <1>1, <1>3, <1>4, <1>5, <1>8, <1>9, <1>10, <1>11 DEF Next

\* A unit of time shortens no wait but those that run, and lengthens none.
LEMMA LaterWait ==
  ASSUME TypeOK, ProperCerts, Waits, NEW p \in Replica
  PROVE  /\ Pending(Later(work[p])) \in Nat /\ Pending(Later(work[p])) <= Pending(work[p])
         /\ Later(work[p]).spent \in 0..BackfillTime
         /\ Later(work[p]).pc = work[p].pc
         /\ work[p].pc \in {"sleep", "backfill"} /\ ~Busy(p) =>
              Pending(Later(work[p])) + 1 <= Pending(work[p])
<1>. DEFINE w == work[p]
            v == Later(w)
<1>1. /\ w \in Work /\ w.cert \in Cert \cup {None} /\ w.wait \in Nat /\ w.spent \in Nat /\ w.spent <= BackfillTime
      /\ BackfillTime \in Nat
  BY OwnIdentityAssumption DEF TypeOK, Work, Waits
<1>2. /\ v.pc = w.pc /\ v.cert = Older(w.cert) /\ v.first = w.first
      /\ v.wait = IF w.pc = "sleep" THEN Less(w.wait) ELSE w.wait
      /\ v.spent = IF w.pc = "backfill" THEN Lesser(w.spent + 1, BackfillTime) ELSE w.spent
  BY <1>1 DEF Later, Work
<1>3. v.spent \in 0..BackfillTime
  BY <1>1, <1>2 DEF Lesser
<1>4. CASE w.pc \in {"readback", "sync"}
  <2>. DEFINE d(c) == IF c = None THEN w.wait ELSE sleepFor(RenewIn(c))
              b    == IF w.first THEN BackfillTime ELSE 0
  <2>1. Pending(w) = d(w.cert) + b /\ Pending(v) = d(Older(w.cert)) + b
    BY <1>2, <1>4 DEF Pending
  <2>2. d(w.cert) \in Nat /\ d(Older(w.cert)) \in Nat
    BY <1>1, OlderType, RenewInType, SleepForType
  <2>3. d(Older(w.cert)) <= d(w.cert)
    BY <1>1, OlderType, ProperOlder DEF ProperCerts
  <2>. QED
    BY <1>1, <1>2, <1>3, <1>4, <2>1, <2>2, <2>3
<1>5. CASE w.pc = "backfill"
  BY <1>1, <1>2, <1>3, <1>5 DEF Pending, Lesser, Busy
<1>6. CASE w.pc = "sleep"
  BY <1>1, <1>2, <1>3, <1>6 DEF Pending, Less, Busy
<1>7. CASE w.pc \notin {"readback", "sync", "backfill", "sleep"}
  BY <1>1, <1>2, <1>3, <1>7 DEF Pending
<1>. QED
  BY <1>4, <1>5, <1>6, <1>7

\* No wait is longer than the longest.
LEMMA WaitsStep ==
  ASSUME RoomForTrouble, Inv, Waits, ProperCerts, [Next]_vars
  PROVE  Waits'
<1>. TypeOK
  BY DEF Inv
<1>1. CASE UNCHANGED vars
  BY <1>1 DEF Waits, vars, Pending
<1>2. LongestWait \in Nat /\ BackfillTime \in Nat
  BY Sizes, OwnIdentityAssumption
<1>3. CASE Tick
  BY <1>2, <1>3, LaterWait DEF Tick, Waits
<1>4. CASE Rotate \/ Sign
  BY <1>4 DEF Rotate, Sign, Waits, Pending
<1>5. ASSUME work' = Outdated(work) PROVE Waits'
  <2>1. ASSUME NEW p \in Replica
        PROVE  Pending(Outdated(work)[p]) = Pending(work[p]) /\ Outdated(work)[p].spent = work[p].spent
    <3>1. Outdated(work)[p] = [work[p] EXCEPT !.same = FALSE]
      BY DEF Outdated
    <3>2. /\ Outdated(work)[p].pc = work[p].pc /\ Outdated(work)[p].cert = work[p].cert
          /\ Outdated(work)[p].wait = work[p].wait /\ Outdated(work)[p].first = work[p].first
          /\ Outdated(work)[p].spent = work[p].spent
      BY <3>1 DEF TypeOK, Work
    <3>. QED
      BY <3>2 DEF Pending
  <2>. QED
    BY <1>5, <2>1 DEF Waits
<1>6. CASE Wipe \/ \E c \in late : Arrive(c)
  <2>1. work' = work \/ work' = Outdated(work)
    BY <1>6 DEF Wipe, Arrive
  <2>. QED
    BY <1>5, <2>1 DEF Waits
<1>7. ASSUME NEW p \in Replica, LeadStep(p) PROVE Waits'
  <2>1. ASSUME NEW pc \in {"down", "standby"}
        PROVE  Pending(Idle(pc)) = 0 /\ Idle(pc).spent = 0
    BY <2>1 DEF Pending, Idle
  <2>2. Pending([Idle("ensure") EXCEPT !.first = TRUE]) = 0 /\ [Idle("ensure") EXCEPT !.first = TRUE].spent = 0
    BY DEF Pending, Idle
  <2>3. PICK u : Becomes(p, u) /\ Pending(u) = 0 /\ u.spent = 0
    BY <1>7, <2>1, <2>2 DEF LeadStep, Start, Acquire, Lose, Crash, Stop
  <2>. QED
    BY <1>2, <2>3 DEF Becomes, TypeOK, Waits
<1>8. ASSUME NEW p \in Replica, EnsureStep(p) PROVE Waits'
  <2>. DEFINE w == work[p]
              v == work'[p]
              b == IF w.first THEN BackfillTime ELSE 0
  <2>1. /\ b \in 0..BackfillTime /\ RetryInterval \in Nat /\ Pending(w) \in Nat /\ Pending(w) <= LongestWait
        /\ w.spent \in 0..BackfillTime
    BY <1>2, OwnIdentityAssumption DEF Waits
  <2>2. ASSUME NEW q \in Replica \ {p} PROVE Pending(work'[q]) = Pending(work[q]) /\ work'[q].spent = work[q].spent
    BY <1>8, <2>2, EnsureOutcome DEF Pending
  <2>3. v.spent \in 0..BackfillTime
    BY <1>2, <1>8, <2>1, EnsureOutcome
  <2>4. ASSUME NEW c \in Cert, Proper(c) PROVE sleepFor(RenewIn(c)) + b \in 0..LongestWait
    BY <1>2, <2>1, <2>4, ProperSchedule
  <2>5. Pending(v) \in 0..LongestWait
    <3>1. CASE w.pc = "store" /\ v.pc = "readback" /\ v.cert = w.cert /\ v.first = w.first
      <4>1. w.cert \in Cert /\ w.cert # None
        BY <3>1 DEF Inv, CallsFaithful, Faithful, JustSigned, TypeOK, Work
      <4>2. Pending(v) = sleepFor(RenewIn(w.cert)) + b
        BY <3>1, <4>1 DEF Pending
      <4>. QED
        BY <2>4, <4>1, <4>2 DEF ProperCerts
    <3>2. CASE Pending(v) <= Pending(w)
      <4>1. Pending(v) \in Nat
        <5>1. v \in Work /\ v.spent \in 0..BackfillTime /\ v.cert \in Cert \cup {None} /\ v.wait \in Nat
          BY <2>3, TypeStep DEF TypeOK, Work
        <5>2. (v.cert # None) => sleepFor(RenewIn(v.cert)) \in Nat
          BY <5>1, RenewInType, SleepForType
        <5>. QED
          BY <1>2, <5>1, <5>2 DEF Pending
      <4>. QED
        BY <1>2, <2>1, <3>2, <4>1
    <3>3. CASE Pending(v) = RetryInterval + b
      BY <1>2, <2>1, <3>3, Sizes
    <3>4. CASE Fresh /\ Pending(v) = sleepFor(RenewIn(stored.cert)) + b
      <4>1. stored.cert \in Cert
        BY <3>4 DEF Fresh, TypeOK
      <4>. QED
        BY <2>4, <3>4, <4>1 DEF ProperCerts
    <3>. QED
      BY <1>8, <3>1, <3>2, <3>3, <3>4, EnsureOutcome
  <2>. QED
    BY <2>2, <2>3, <2>5 DEF Waits
<1>. QED
  BY <1>1, <1>3, <1>4, <1>6, <1>7, <1>8 DEF Next

\* There is room for no wait at all: whoever leads, or is to lead.
LEMMA RoomLeft ==
  ASSUME Inv, Waits, Led, Ample, stored.cert # None, trouble <= MaxTrouble
  PROVE  RoomFor(0) /\ stored.cert.left \in Nat /\ stored.cert.left > 0
<1>. TypeOK
  BY DEF Inv
<1>1. stored.cert \in Cert /\ stored.cert.left \in Nat /\ trouble \in 0..MaxTrouble
  BY OwnIdentityAssumption DEF TypeOK, Cert
<1>2. PICK k \in Nat : k = Reserve(trouble)
  BY <1>1, ReserveShare
<1>3. PICK n \in Nat : stored.cert.left > n + k
  <2>1. CASE holder = {}
    BY <1>2, <2>1, OwnIdentityAssumption DEF Ample, RoomFor, TypeOK
  <2>2. ASSUME NEW p \in holder PROVE \E n \in Nat : stored.cert.left > n + k
    <3>1. p \in Replica /\ Pending(work[p]) \in Nat
      BY Sizes DEF TypeOK, Waits
    <3>. QED
      BY <1>2, <3>1 DEF Ample, RoomFor
  <2>. QED
    BY <2>1, <2>2
<1>. QED
  BY <1>1, <1>2, <1>3 DEF RoomFor

\* A certificate that was just signed covers any wait and all the trouble.
LEMMA RoomAnew ==
  ASSUME RoomForTrouble, NEW c \in Cert, Proper(c), JustSigned(c), NEW t \in 0..MaxTrouble,
         NEW n \in Nat, n <= LongestWait
  PROVE  c.left > n + Reserve(t)
<1>1. c.life \in Nat /\ c.left \in Nat /\ c.left >= (c.life - Backdate) - 1 /\ c.life - Backdate >= Shortest
  BY NoneAssumption, OwnIdentityAssumption, Sizes DEF Cert, Proper, JustSigned, Age
<1>2. PICK k \in Nat : k = Cost * MaxTrouble
  BY Sizes, OwnIdentityAssumption
<1>3. PICK r \in Nat : r = Reserve(t) /\ r <= k
  BY <1>2, ReserveShare
<1>4. Shortest - 1 > LongestWait + k
  BY <1>2 DEF RoomForTrouble
<1>. QED
  BY <1>1, <1>3, <1>4, Sizes, OwnIdentityAssumption

\* A step that stores one that was just signed.
LEMMA AmpleAnew ==
  ASSUME RoomForTrouble, TypeOK', Waits', ProperCerts', stored'.cert # None => JustSigned(stored'.cert)
  PROVE  Ample'
<1>. SUFFICES ASSUME stored'.cert # None, trouble' <= MaxTrouble PROVE Ample'
  BY DEF Ample
<1>1. stored'.cert \in Cert /\ Proper(stored'.cert) /\ trouble' \in 0..MaxTrouble
  BY OwnIdentityAssumption DEF TypeOK, ProperCerts
<1>2. ASSUME NEW n \in Nat, n <= LongestWait PROVE stored'.cert.left > n + Reserve(trouble')
  BY <1>1, <1>2, RoomAnew
<1>3. LeaseDuration - vacant' \in Nat /\ LeaseDuration - vacant' <= LongestWait
  <2>1. PICK x \in 0..LeaseDuration : x = vacant'
    BY DEF TypeOK
  <2>2. LeaseDuration \in Nat /\ LongestWait \in Nat /\ LeaseDuration <= LongestWait
    BY Sizes, OwnIdentityAssumption
  <2>3. PICK m \in Nat : m = LongestWait
    BY <2>2
  <2>4. LeaseDuration - x \in Nat /\ LeaseDuration - x <= m
    BY <2>2, <2>3
  <2>. QED
    BY <2>1, <2>3, <2>4
<1>4. \A p \in holder' : Pending(work'[p]) \in Nat /\ Pending(work'[p]) <= LongestWait
  BY Sizes DEF TypeOK, Waits
<1>5. RetryInterval + BackfillTime \in Nat /\ RetryInterval + BackfillTime <= LongestWait
  BY Sizes, OwnIdentityAssumption
<1>. QED
  BY <1>2, <1>3, <1>4, <1>5 DEF Ample, RoomFor

\* What goes wrong costs no more than its share.
LEMMA Spent ==
  ASSUME Inv, Waits, Led, Ample, stored.cert # None, Troubled, trouble' <= MaxTrouble
  PROVE  /\ trouble + 1 = trouble' /\ trouble \in 0..MaxTrouble /\ trouble' \in 0..MaxTrouble
         /\ \A n \in Nat : n <= Cost => stored.cert.left > n + Reserve(trouble')
         /\ \A n \in Nat : RoomFor(n) => stored.cert.left > n + 1 + Reserve(trouble')
<1>1. trouble \in Nat /\ trouble' = trouble + 1 /\ trouble <= MaxTrouble
  BY OwnIdentityAssumption DEF Inv, TypeOK, Troubled, Lesser
<1>2. trouble \in 0..MaxTrouble /\ trouble' \in 0..MaxTrouble
  BY <1>1, OwnIdentityAssumption
<1>3. PICK k \in Nat : k = Reserve(trouble')
  BY <1>2, ReserveShare
<1>4. Reserve(trouble) = k + Cost
  BY <1>1, <1>2, <1>3, ReserveShare
<1>5. stored.cert.left \in Nat /\ stored.cert.left > k + Cost
  BY <1>1, <1>3, <1>4, RoomLeft, Sizes DEF RoomFor
<1>6. \A n \in Nat : RoomFor(n) => stored.cert.left > n + 1 + k
  BY <1>3, <1>4, <1>5, Sizes DEF RoomFor
<1>. QED
  BY <1>1, <1>2, <1>3, <1>5, <1>6, Sizes

\* A unit of time is part of a wait, or trouble.
LEMMA TickAmple ==
  ASSUME RoomForTrouble, Inv, RoomInv, Tick
  PROVE  Ample'
<1>. TypeOK /\ Led /\ Waits /\ Ample /\ ProperCerts
  BY DEF Inv, RoomInv
<1>. SUFFICES ASSUME stored'.cert # None, trouble' <= MaxTrouble PROVE Ample'
  BY DEF Ample
<1>1. stored'.cert = Older(stored.cert) /\ stored.cert \in Cert \cup {None}
  BY DEF Tick, TypeOK
<1>2. stored.cert # None /\ stored'.cert.left = Less(stored.cert.left)
  BY <1>1, OlderType, ProperOlder DEF ProperCerts
<1>3. trouble \in Nat /\ trouble <= MaxTrouble
  BY OwnIdentityAssumption DEF Tick, TypeOK, Troubled, Lesser
<1>4. stored.cert.left \in Nat /\ stored'.cert.left = stored.cert.left - 1
  BY <1>2, <1>3, RoomLeft DEF Less
<1>5. \A p \in Replica : /\ work'[p] = Later(work[p])
                         /\ Pending(work'[p]) \in Nat /\ Pending(work'[p]) <= Pending(work[p])
                         /\ work'[p].pc = work[p].pc
  BY LaterWait DEF Tick
<1>6. holder' = holder /\ ~LateIssue' /\ \A p \in Replica : Replaced(p)' => Replaced(p)
  <2>1. \A r \in csr : [r EXCEPT !.cert = Older(r.cert)] \in csr' /\ [r EXCEPT !.cert = Older(r.cert)].by = r.by
    BY DEF Tick, TypeOK, Csr
  <2>. QED
    BY <1>5, <2>1 DEF Tick, LateIssue, Replaced
<1>7. LeaseDuration \in Nat /\ vacant \in 0..LeaseDuration /\ RetryInterval + BackfillTime \in Nat
  BY OwnIdentityAssumption DEF TypeOK
<1>8. CASE Orphaned \/ \E p \in Replica : Busy(p)
  <2>1. Troubled
    BY <1>8 DEF Tick
  <2>2. trouble' \in 0..MaxTrouble
    BY <1>2, <2>1, Spent
  <2>3. PICK k \in Nat : k = Reserve(trouble')
    BY <2>2, ReserveShare
  <2>4. ASSUME NEW n \in Nat, NEW m \in Nat, RoomFor(n), m <= n PROVE RoomFor(m)'
    <3>1. stored.cert.left > n + 1 + k
      BY <1>2, <2>1, <2>3, <2>4, Spent
    <3>. QED
      BY <1>4, <2>3, <2>4, <3>1 DEF RoomFor
  <2>5. holder' = {} => RoomFor(LeaseDuration - vacant)'
    <3>1. SUFFICES ASSUME holder' = {} PROVE RoomFor(LeaseDuration - vacant)'
      OBVIOUS
    <3>2. vacant' = Lesser(vacant + 1, LeaseDuration)
      BY <1>6, <3>1 DEF Tick
    <3>3. LeaseDuration - vacant \in Nat /\ LeaseDuration - vacant' \in Nat /\ LeaseDuration - vacant' <= LeaseDuration - vacant
      BY <1>7, <3>2 DEF Lesser
    <3>4. RoomFor(LeaseDuration - vacant)
      BY <1>2, <1>3, <1>6, <3>1 DEF Ample
    <3>. QED
      BY <2>4, <3>3, <3>4 DEF RoomFor
  <2>6. ASSUME NEW p \in holder' PROVE RoomFor(Pending(work[p]))'
    <3>1. p \in Replica /\ p \in holder /\ Pending(work[p]) \in Nat
      BY <1>6, Sizes DEF TypeOK, Waits
    <3>2. RoomFor(Pending(work[p]))
      BY <1>2, <1>3, <3>1 DEF Ample
    <3>. QED
      BY <1>5, <2>4, <3>1, <3>2 DEF RoomFor
  <2>7. (\E p \in Replica : Replaced(p)') => RoomFor(RetryInterval + BackfillTime)'
    BY <1>2, <1>3, <1>6, <1>7, <2>4 DEF Ample
  <2>. QED
    BY <1>6, <2>5, <2>6, <2>7 DEF Ample
<1>9. CASE ~(Orphaned \/ \E p \in Replica : Busy(p))
  <2>1. trouble' = trouble /\ trouble \in 0..MaxTrouble
    BY <1>3, <1>9, OwnIdentityAssumption DEF Tick
  <2>2. PICK k \in Nat : k = Reserve(trouble)
    BY <2>1, ReserveShare
  <2>3. ASSUME NEW n \in Nat, NEW m \in Nat, RoomFor(n), m + 1 <= n PROVE RoomFor(m)'
    BY <1>4, <2>1, <2>2, <2>3 DEF RoomFor
  <2>4. holder' = {} => RoomFor(LeaseDuration - vacant)'
    <3>1. SUFFICES ASSUME holder' = {} PROVE RoomFor(LeaseDuration - vacant)'
      OBVIOUS
    <3>2. vacant' = Lesser(vacant + 1, LeaseDuration) /\ vacant # LeaseDuration
      BY <1>6, <1>9, <3>1 DEF Tick, Orphaned
    <3>3. LeaseDuration - vacant \in Nat /\ LeaseDuration - vacant' \in Nat /\ (LeaseDuration - vacant') + 1 <= LeaseDuration - vacant
      BY <1>7, <3>2 DEF Lesser
    <3>4. RoomFor(LeaseDuration - vacant)
      BY <1>2, <1>3, <1>6, <3>1 DEF Ample
    <3>. QED
      BY <2>3, <3>3, <3>4 DEF RoomFor
  <2>5. ASSUME NEW p \in holder' PROVE RoomFor(Pending(work[p]))'
    <3>1. p \in Replica /\ p \in holder /\ Pending(work[p]) \in Nat
      BY <1>6, Sizes DEF TypeOK, Waits
    <3>2. work[p].pc \in {"sleep", "backfill"} /\ ~Busy(p)
      BY <1>9, <3>1 DEF Led, TypeOK, Work, Pc, Busy
    <3>3. RoomFor(Pending(work[p]))
      BY <1>2, <1>3, <3>1 DEF Ample
    <3>4. Pending(work'[p]) \in Nat /\ Pending(work'[p]) + 1 <= Pending(work[p])
      BY <1>5, <3>1, <3>2, LaterWait
    <3>. QED
      BY <2>3, <3>1, <3>3, <3>4 DEF RoomFor
  <2>6. \A p \in Replica : ~Replaced(p)'
    BY <1>6, <1>9 DEF Replaced, Busy
  <2>. QED
    BY <1>6, <2>4, <2>5, <2>6 DEF Ample
<1>. QED
  BY <1>8, <1>9

\* The Lease changes hands within its share.
LEMMA LeadAmple ==
  ASSUME RoomForTrouble, Inv, RoomInv, NEW p \in Replica, LeadStep(p)
  PROVE  Ample'
<1>. TypeOK /\ Led /\ Waits /\ Ample
  BY DEF Inv, RoomInv
<1>. SUFFICES ASSUME stored'.cert # None, trouble' <= MaxTrouble PROVE Ample'
  BY DEF Ample
<1>1. stored' = stored /\ csr' = csr /\ stored.cert # None
  BY DEF LeadStep, Start, Acquire, Lose, Crash, Stop
<1>2. PICK w : /\ \A q \in Replica : work'[q] = IF q = p THEN w ELSE work[q]
               /\ w.pc \in {"down", "standby", "ensure"}
  <2>1. Idle("standby").pc = "standby" /\ Idle("down").pc = "down" /\ [Idle("ensure") EXCEPT !.first = TRUE].pc = "ensure"
    BY DEF Idle
  <2>2. PICK w : Becomes(p, w) /\ w.pc \in {"down", "standby", "ensure"}
    BY <2>1 DEF LeadStep, Start, Acquire, Lose, Crash, Stop
  <2>. QED
    BY <2>2 DEF Becomes, TypeOK
<1>3. Pending(w) = 0 /\ \A q \in Replica : Replaced(q)' => Replaced(q)
  BY <1>1, <1>2 DEF Pending, Replaced
\* Nothing went wrong for whoever leads.
<1>4. ASSUME trouble' = trouble, late' = late,
             holder' = {} => holder = {} /\ vacant' = vacant,
             \A q \in holder' : q = p \/ q \in holder
      PROVE  Ample'
  <2>1. trouble <= MaxTrouble /\ RoomFor(0)
    BY <1>1, <1>4, RoomLeft
  <2>2. holder' = {} => RoomFor(LeaseDuration - vacant)'
    BY <1>1, <1>4, <2>1 DEF Ample, RoomFor
  <2>3. ASSUME NEW q \in holder' PROVE RoomFor(Pending(work[q]))'
    <3>1. CASE q = p
      <4>1. Pending(work'[q]) = 0
        BY <1>2, <1>3, <3>1
      <4>. QED
        BY <1>1, <1>4, <2>1, <4>1 DEF RoomFor
    <3>2. CASE q # p
      <4>1. q \in holder /\ q \in Replica /\ work'[q] = work[q]
        BY <1>2, <1>4, <2>3, <3>2 DEF TypeOK
      <4>2. RoomFor(Pending(work[q]))
        BY <1>1, <2>1, <4>1 DEF Ample
      <4>. QED
        BY <1>1, <1>4, <4>1, <4>2 DEF RoomFor
    <3>. QED
      BY <3>1, <3>2
  <2>4. LateIssue' \/ (\E q \in Replica : Replaced(q)') => RoomFor(RetryInterval + BackfillTime)'
    BY <1>1, <1>3, <1>4, <2>1 DEF Ample, RoomFor, LateIssue
  <2>. QED
    BY <2>2, <2>3, <2>4 DEF Ample
<1>5. CASE Start(p)
  BY <1>4, <1>5 DEF Start
<1>6. CASE Acquire(p)
  BY <1>4, <1>6 DEF Acquire
\* The lead ends.
<1>7. CASE Troubled /\ holder' = {} /\ vacant' = vacant
  <2>1. ASSUME NEW n \in Nat, n <= Cost PROVE RoomFor(n)'
    BY <1>1, <1>7, <2>1, Spent DEF RoomFor
  <2>2. LeaseDuration - vacant' \in Nat /\ LeaseDuration - vacant' <= Cost
    BY <1>7, Sizes, OwnIdentityAssumption DEF TypeOK
  <2>3. RetryInterval + BackfillTime \in Nat /\ RetryInterval + BackfillTime <= Cost
    BY Sizes, OwnIdentityAssumption
  <2>4. RoomFor(LeaseDuration - vacant)'
    BY <2>1, <2>2 DEF RoomFor
  <2>. QED
    BY <1>7, <2>1, <2>3, <2>4 DEF Ample
<1>8. CASE Lose(p)
  BY <1>7, <1>8 DEF Lose, Stop
<1>9. CASE Crash(p)
  <2>1. CASE holder = {p}
    BY <1>7, <1>9, <2>1 DEF Crash, Stop
  <2>2. CASE holder # {p}
    <3>1. p \notin holder /\ work[p].pc \in {"down", "standby"}
      BY <2>2 DEF Led
    <3>2. InFlight(p) = {}
      BY <3>1 DEF InFlight
    <3>. QED
      BY <1>4, <1>9, <2>2, <3>1, <3>2 DEF Crash, Stop
  <2>. QED
    BY <2>1, <2>2
<1>. QED
  BY <1>5, <1>6, <1>8, <1>9 DEF LeadStep

\* Whoever leads issues in time, fails at the cost of its share, or waits no longer
\* than the stored certificate allows.
LEMMA EnsureAmple ==
  ASSUME RoomForTrouble, Inv, RoomInv, NEW p \in Replica, EnsureStep(p), TypeOK', Waits', ProperCerts'
  PROVE  Ample'
<1>. TypeOK /\ CallsFaithful /\ Led /\ Waits /\ Ample /\ ProperCerts
  BY DEF Inv, RoomInv
<1>. DEFINE w == work[p]
            v == work'[p]
            b == IF w.first THEN BackfillTime ELSE 0
<1>1. /\ UNCHANGED <<holder, vacant>> /\ holder = {p} /\ holder' = {p}
      /\ v.pc = "await" => \E r \in csr' : r.by = {p}
      /\ LateIssue' => LateIssue
  <2>1. UNCHANGED <<ca, holder, vacant>> /\ w.pc \notin {"down", "standby"}
    BY EnsureOutcome
  <2>2. v.pc = "await" => \E r \in csr' : r.by = {p}
    BY EnsureOutcome
  <2>3. \A c \in late' : \E d \in late : c.op = d.op
    BY EnsureOutcome
  <2>. QED
    BY <2>1, <2>2, <2>3 DEF Led, LateIssue
<1>2. \A q \in Replica : ~Replaced(q)'
  <2>1. \A q \in Replica \ {p} : work'[q].pc = work[q].pc
    BY EnsureOutcome
  <2>2. \A q \in Replica \ {p} : work[q].pc # "await"
    BY <1>1 DEF Led
  <2>. QED
    BY <1>1, <2>1, <2>2 DEF Replaced
<1>3. b \in Nat /\ b <= BackfillTime /\ RetryInterval + b \in Nat /\ RetryInterval + BackfillTime \in Nat
  BY OwnIdentityAssumption
<1>4. CASE w.pc = "store" /\ stored'.cert = w.cert
  <2>1. JustSigned(w.cert)
    BY <1>4 DEF CallsFaithful, Faithful
  <2>. QED
    BY <1>4, <2>1, AmpleAnew
<1>5. CASE w.pc # "store" \/ stored'.cert # w.cert
  <2>. SUFFICES ASSUME stored'.cert # None, trouble' <= MaxTrouble PROVE Ample'
    BY DEF Ample
  <2>. DEFINE Same == stored'.cert = stored.cert /\ trouble' = trouble
  <2>1. ASSUME RoomFor(Pending(work[p]))', LateIssue => RoomFor(RetryInterval + BackfillTime)' PROVE Ample'
    BY <1>1, <1>2, <2>1 DEF Ample
  <2>2. Pending(w) \in Nat /\ Pending(v) \in Nat
    BY Sizes DEF Waits
  <2>3. ASSUME Same
        PROVE  /\ stored.cert # None /\ trouble \in 0..MaxTrouble /\ stored.cert \in Cert
               /\ stored.cert.left \in Nat /\ RoomFor(Pending(w)) /\ Reserve(trouble) \in Nat
               /\ LateIssue => RoomFor(RetryInterval + BackfillTime)'
    <3>1. stored.cert # None /\ trouble \in 0..MaxTrouble /\ trouble <= MaxTrouble
      BY <2>3, OwnIdentityAssumption DEF TypeOK
    <3>2. stored.cert \in Cert /\ stored.cert.left \in Nat
      BY <3>1 DEF TypeOK, Cert
    <3>3. RoomFor(Pending(w)) /\ (LateIssue => RoomFor(RetryInterval + BackfillTime))
      BY <1>1, <3>1 DEF Ample
    <3>. QED
      BY <2>3, <3>1, <3>2, <3>3, ReserveShare DEF RoomFor
  <2>4. CASE Same /\ Pending(v) <= Pending(w)
    <3>1. stored.cert.left > Pending(v) + Reserve(trouble)
      BY <2>2, <2>3, <2>4 DEF RoomFor
    <3>2. RoomFor(Pending(work[p]))'
      BY <2>4, <3>1 DEF RoomFor
    <3>. QED
      BY <2>1, <2>3, <2>4, <3>2
  <2>5. CASE stored'.cert = stored.cert /\ Troubled /\ Pending(v) = RetryInterval + b
    <3>1. RetryInterval + b <= Cost /\ RetryInterval + BackfillTime <= Cost
      BY <1>3, Sizes, OwnIdentityAssumption
    <3>2. stored.cert.left > Pending(v) + Reserve(trouble')
      BY <1>3, <2>5, <3>1, Spent
    <3>3. stored.cert.left > RetryInterval + BackfillTime + Reserve(trouble')
      BY <1>3, <2>5, <3>1, Spent
    <3>. QED
      BY <2>1, <2>5, <3>2, <3>3 DEF RoomFor
  <2>6. CASE Same /\ Replaced(p) /\ Pending(v) = RetryInterval + b
    <3>1. RoomFor(RetryInterval + BackfillTime)
      BY <2>3, <2>6, OwnIdentityAssumption DEF Ample
    <3>2. stored.cert.left > Pending(v) + Reserve(trouble)
      BY <1>3, <2>3, <2>6, <3>1, OwnIdentityAssumption DEF RoomFor
    <3>. QED
      BY <2>1, <2>3, <2>6, <3>2 DEF RoomFor
  <2>7. CASE Same /\ Fresh /\ Pending(v) = sleepFor(RenewIn(stored.cert)) + b
    <3>. DEFINE d == RenewIn(stored.cert)
    <3>1. PICK k \in Nat : k = Cost * MaxTrouble
      BY Sizes, OwnIdentityAssumption
    <3>2. PICK r \in Nat : r = Reserve(trouble) /\ r <= k
      BY <2>3, <2>7, <3>1, ReserveShare
    <3>3. d \in Int /\ d > 0 /\ stored.cert.left - d >= MinSleep + BackfillTime + k
      BY <2>3, <2>7, <3>1, ProperSchedule DEF Fresh, ProperCerts
    <3>4. sleepFor(d) \in Nat /\ sleepFor(d) < d + MinSleep
      BY <3>3, OwnIdentityAssumption DEF sleepFor
    <3>5. stored.cert.left > Pending(v) + r
      BY <1>3, <2>3, <2>7, <3>2, <3>3, <3>4, OwnIdentityAssumption
    <3>. QED
      BY <2>1, <2>3, <2>7, <3>2, <3>5 DEF RoomFor
  <2>. QED
    BY <1>5, <2>4, <2>5, <2>6, <2>7, EnsureOutcome
<1>. QED
  BY <1>4, <1>5

\* What else happens takes no time, or stores a certificate that was just signed.
LEMMA EnvironmentAmple ==
  ASSUME RoomForTrouble, Inv, RoomInv, TypeOK', Waits', ProperCerts',
         Rotate \/ Sign \/ Wipe \/ \E c \in late : Arrive(c)
  PROVE  Ample'
<1>. TypeOK /\ CallsFaithful /\ SoleCsr /\ Waits /\ Ample
  BY DEF Inv, RoomInv
<1>1. CASE Rotate
  BY <1>1 DEF Rotate, Ample, RoomFor, LateIssue, Replaced, Pending
<1>2. CASE Sign
  <2>1. \A p \in Replica : Replaced(p)' => Replaced(p)
    <3>1. PICK r \in csr : csr' = {[r EXCEPT !.cert = Issued]}
      BY <1>2 DEF Sign
    <3>2. csr = {r}
      BY <3>1 DEF SoleCsr
    <3>3. [r EXCEPT !.cert = Issued].by = r.by
      BY DEF TypeOK, Csr
    <3>. QED
      BY <1>2, <3>1, <3>2, <3>3 DEF Sign, Replaced
  <2>. QED
    BY <1>2, <2>1 DEF Sign, Ample, RoomFor, LateIssue, Pending
<1>3. CASE Wipe
  BY <1>3 DEF Wipe, Rewrite, Ample
<1>4. ASSUME NEW c \in late, Arrive(c) PROVE Ample'
  <2>1. UNCHANGED <<holder, vacant, trouble>>
    BY <1>4 DEF Arrive
  <2>2. CASE c.op = "issue" /\ late' = late \ {c} /\ UNCHANGED <<stored, work>>
    <3>1. LateIssue
      BY <2>2 DEF LateIssue
    <3>. QED
      BY <2>1, <2>2, <3>1 DEF Ample, RoomFor, Pending
  <2>3. CASE c.op = "store" /\ Rewrite(c.cert, None)
    <3>1. JustSigned(c.cert) /\ stored'.cert = c.cert
      BY <2>3 DEF Rewrite, CallsFaithful, FaithfulCall
    <3>. QED
      BY <3>1, AmpleAnew
  <2>4. CASE /\ c.op = "sync" /\ Sync(c.read, c.same) /\ csr' = csr
             /\ work' = Outdated(work) /\ late' = OutdatedCalls(late \ {c})
    <3>1. stored'.cert = stored.cert
      BY <2>4 DEF Sync, Rewrite, CallsFaithful, FaithfulCall
    <3>2. LateIssue' => LateIssue
      BY <2>4 DEF LateIssue, OutdatedCalls, TypeOK, Call
    <3>3. ASSUME NEW p \in Replica
          PROVE  Pending(work'[p]) = Pending(work[p]) /\ work'[p].pc = work[p].pc
      <4>1. work'[p] = [work[p] EXCEPT !.same = FALSE]
        BY <2>4 DEF Outdated
      <4>2. /\ work'[p].pc = work[p].pc /\ work'[p].cert = work[p].cert /\ work'[p].wait = work[p].wait
            /\ work'[p].first = work[p].first /\ work'[p].spent = work[p].spent
        BY <4>1 DEF TypeOK, Work
      <4>. QED
        BY <4>2 DEF Pending
    <3>4. \A p \in Replica : Replaced(p)' => Replaced(p)
      BY <2>4, <3>3 DEF Replaced
    <3>5. holder \subseteq Replica
      BY DEF TypeOK
    <3>. QED
      BY <2>1, <3>1, <3>2, <3>3, <3>4, <3>5 DEF Ample, RoomFor
  <2>. QED
    BY <1>4, <2>2, <2>3, <2>4 DEF Arrive
<1>. QED
  BY <1>1, <1>2, <1>3, <1>4

\* The budget is kept by every step.
THEOREM Budget == ASSUME RoomForTrouble PROVE Spec => []RoomInv
<1>1. ASSUME Init PROVE RoomInv
  <2>1. \A p \in Replica : work[p] = Idle("standby")
    BY <1>1 DEF Init
  <2>2. Idle("standby").pc = "standby" /\ Idle("standby").cert = None /\ Idle("standby").spent = 0
        /\ Pending(Idle("standby")) = 0
    BY DEF Idle, Pending
  <2>3. Led
    BY <1>1, <2>1, <2>2 DEF Init, Led
  <2>4. ProperCerts
    BY <1>1, <2>1, <2>2 DEF Init, ProperCerts, Proper
  <2>5. Waits
    <3>1. 0 \in 0..LongestWait /\ 0 \in 0..BackfillTime
      BY Sizes, OwnIdentityAssumption
    <3>. QED
      BY <2>1, <2>2, <3>1 DEF Waits
  <2>6. Ample
    BY <1>1 DEF Init, Ample
  <2>7. SoleCsr
    BY <1>1 DEF Init, SoleCsr
  <2>. QED
    BY <2>3, <2>4, <2>5, <2>6, <2>7 DEF RoomInv
<1>2. Inv /\ RoomInv /\ [Next]_vars => RoomInv'
  <2>1. SUFFICES ASSUME Inv, RoomInv, [Next]_vars PROVE RoomInv'
    OBVIOUS
  <2>2. Led /\ SoleCsr /\ Waits /\ ProperCerts /\ Ample
    BY <2>1 DEF RoomInv
  <2>3. TypeOK' /\ Led' /\ SoleCsr' /\ ProperCerts' /\ Waits'
    BY <2>1, <2>2, TypeStep, LedStep, SoleStep, ProperStep, WaitsStep DEF Inv
  <2>4. ASSUME UNCHANGED vars PROVE Ample'
    <3>1. UNCHANGED <<stored, csr, holder, vacant, work, late, trouble>>
      BY <2>4 DEF vars
    <3>2. UNCHANGED <<LateIssue, Reserve(trouble)>> /\ \A p \in Replica : Replaced(p)' <=> Replaced(p)
      BY <3>1 DEF LateIssue, Replaced, Reserve
    <3>3. \A p \in holder : Pending(work[p])' = Pending(work[p])
      BY <3>1
    <3>. QED
      BY <2>2, <3>1, <3>2, <3>3 DEF Ample, RoomFor
  <2>5. ASSUME Next PROVE Ample'
    BY <2>1, <2>3, <2>5, TickAmple, LeadAmple, EnsureAmple, EnvironmentAmple DEF Next
  <2>6. Ample'
    BY <2>1, <2>4, <2>5
  <2>. QED
    BY <2>3, <2>6 DEF RoomInv
<1>. QED
  BY <1>1, <1>2, Invariance, PTL DEF Spec

\* The certificate is renewed before it expires, whichever replica leads and whatever
\* goes wrong meanwhile, up to MaxTrouble times, if the granted lifetimes leave room
\* for as much (RenewAt, sleepFor, ownIdentity).
THEOREM NeverExpires == ASSUME RoomForTrouble PROVE Spec => []RenewedInTime
<1>1. Inv /\ RoomInv => RenewedInTime
  BY RoomLeft DEF RoomInv, RenewedInTime
<1>. QED
  BY <1>1, Budget, Invariance, PTL
================================================================================
