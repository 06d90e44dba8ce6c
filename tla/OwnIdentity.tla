------------------------------ MODULE OwnIdentity ------------------------------
(***************************************************************************)
(* How authn's own certificate is kept alive: internal/certrenewal run by  *)
(* the leader that internal/leader elects, wired together in main.go.      *)
(*                                                                         *)
(* Time is what is left of each certificate, timer and CA, so behaviours   *)
(* need not end.  Running code takes no time; a call that does is slow     *)
(* and counts as trouble, as a failed call or a lost lease does.  The      *)
(* apiserver, the signer and the Lease are external.                       *)
(***************************************************************************)
EXTENDS Integers

CONSTANTS
  Replica,        \* authn's replicas
  None,           \* no certificate
  Requested,      \* AUTHN_SERVICE_CRT_EXPIRES_IN
  ThresholdNum, ThresholdDen,  \* AUTHN_CRT_RENEWAL_THRESHOLD, as a fraction
  MinSleep,       \* certrenewal.minSleep
  RetryInterval,  \* certrenewal.retryInterval
  LeaseDuration,  \* leader.DefaultLeaseDuration
  BackfillTime,   \* how long the identity backfill takes
  SignerMax,      \* --cluster-signing-duration of the cluster's signer
  Backdate,       \* how far the signer sets notBefore back
  CALife,         \* the life of a new signer CA
  CAMin,          \* what a signer CA has left when it is rotated, at the latest
  MaxTrouble      \* bound on the count of trouble

ASSUME OwnIdentityAssumption ==
  /\ Requested \in Nat \ {0} /\ SignerMax \in Nat \ {0}
  /\ ThresholdNum \in Nat \ {0} /\ ThresholdDen \in Nat /\ ThresholdNum < ThresholdDen
  /\ MinSleep \in Nat \ {0} /\ RetryInterval \in Nat \ {0}
  /\ LeaseDuration \in Nat /\ BackfillTime \in Nat /\ Backdate \in Nat /\ MaxTrouble \in Nat
  /\ CALife \in Nat /\ CAMin \in Nat \ {0} /\ CAMin < CALife

\* A certificate: its validity window, and what is left of it (0: expired).
Cert == [life: Nat, left: Nat]

ASSUME NoneAssumption == None \notin Cert

VARIABLES
  stored,   \* the authn-clientconfig Secret: its certificate, and what the annotations describe
  csr,      \* the CSR named authn: none or one
  ca,       \* what the signer's CA has left
  holder,   \* the replica whose context is live because it holds the Lease: none or one
  vacant,   \* how long nobody has held the Lease
  work,     \* per replica, the goroutine running ownIdentity
  late,     \* calls of a lead that is over, still on their way to the apiserver
  trouble   \* how much went wrong since the last certificate was signed and stored

vars == <<stored, csr, ca, holder, vacant, work, late, trouble>>

Lesser(a, b) == IF a < b THEN a ELSE b

--------------------------------------------------------------------------------
(* The schedule *)

\* RenewAt, counted from now: the point at which the threshold of the granted
\* lifetime, notBefore to notAfter, has elapsed.
RenewIn(c) ==
  IF c.life <= 0 THEN c.left ELSE (c.left - c.life) + (c.life * ThresholdNum) \div ThresholdDen

\* Mutant of sleepFor: no floor.
sleepForUnfloored(d) == d

sleepFor(d) == IF d < MinSleep THEN MinSleep ELSE d

\* External: the signer grants min(asked, its maximum, its CA's remaining life).
Granted == Lesser(Lesser(Requested, SignerMax), ca)
Issued  == [life |-> Granted + Backdate, left |-> Granted]

\* How long ago an unexpired certificate was signed.
Age(c) == c.life - Backdate - c.left

--------------------------------------------------------------------------------
(* State *)

\* cert: the certificate signup returned; read: that of the Secret being
\* annotated, same: whether the Secret still has the resourceVersion it was read
\* with; wait: until the next Ensure; spent: how long the backfill has run;
\* first: whether this is ownIdentity's own Ensure, not the loop's.
Pc == {"down", "standby", "ensure", "issue", "await", "store", "readback", "sync",
       "backfill", "sleep"}
Work == [pc: Pc, first: BOOLEAN, cert: Cert \cup {None}, read: Cert \cup {None},
         same: BOOLEAN, wait: Nat, spent: Nat]
Idle(pc) == [pc |-> pc, first |-> FALSE, cert |-> None, read |-> None, same |-> FALSE,
             wait |-> 0, spent |-> 0]

Call == [op: {"issue", "store", "sync"}, cert: Cert \cup {None}, read: Cert \cup {None},
         same: BOOLEAN]
Csr == [by: SUBSET Replica, cert: Cert \cup {None}]

TypeOK ==
  /\ stored \in [cert: Cert \cup {None}, ann: Cert \cup {None}]
  /\ csr \in SUBSET Csr
  /\ ca \in CAMin..CALife
  /\ holder \in SUBSET Replica
  /\ vacant \in 0..LeaseDuration
  /\ work \in [Replica -> Work]
  /\ late \in SUBSET Call
  /\ trouble \in 0..(MaxTrouble + 1)

Init ==
  /\ stored = [cert |-> None, ann |-> None]
  /\ csr = {}
  /\ ca \in CAMin..CALife
  /\ holder = {} /\ vacant = 0
  /\ work = [p \in Replica |-> Idle("standby")]
  /\ late = {}
  /\ trouble = 0

Becomes(p, w) == work' = [work EXCEPT ![p] = w]
Troubled == trouble' = Lesser(trouble + 1, MaxTrouble + 1)

\* Ensure returned d: the first one is followed by the backfill, and only then by
\* the loop that sleeps d out.
Resting(p, d) == [Idle(IF work[p].first THEN "backfill" ELSE "sleep") EXCEPT !.wait = d]

\* The annotations are written or not: issue schedules off the certificate it got,
\* Ensure has the wait already.  (What the signer issued is taken to parse: issue would
\* wait off the requested duration otherwise.)
Settled(p) ==
  Resting(p, IF work[p].cert = None THEN work[p].wait ELSE sleepFor(RenewIn(work[p].cert)))

--------------------------------------------------------------------------------
(* Writes of the Secret: whoever read it before has an old resourceVersion. *)

Outdated(f)   == [q \in Replica |-> [f[q] EXCEPT !.same = FALSE]]
OutdatedCalls(C) == {[c EXCEPT !.same = FALSE] : c \in C}

Rewrite(c, a) == stored' = [cert |-> c, ann |-> a]

\* Mutants of Sync: no resourceVersion sent; a patch of the annotations.
SyncBlind(c, same) == stored.cert # None /\ Rewrite(c, c)
SyncPatch(c, same) == stored.cert # None /\ Rewrite(stored.cert, c)

\* syncAnnotations' PUT of the Secret that was read.
Sync(c, same) == same /\ Rewrite(c, c)

--------------------------------------------------------------------------------
(* The Lease *)

Start(p) ==
  /\ work[p].pc = "down"
  /\ Becomes(p, Idle("standby"))
  /\ UNCHANGED <<stored, csr, ca, holder, vacant, late, trouble>>

Acquire(p) ==
  /\ work[p].pc = "standby" /\ holder = {}
  /\ holder' = {p} /\ vacant' = 0
  /\ Becomes(p, [Idle("ensure") EXCEPT !.first = TRUE])
  /\ UNCHANGED <<stored, csr, ca, late, trouble>>

\* The call a replica was making when its lead ended.
InFlight(p) ==
  IF work[p].pc \notin {"issue", "store", "sync"} THEN {}
  ELSE {[op |-> work[p].pc, cert |-> work[p].cert, read |-> work[p].read, same |-> work[p].same]}

\* The lease is lost or released: the context is cancelled and the replica
\* campaigns again; or the replica stops.
Stop(p, pc) ==
  /\ holder' = holder \ {p}
  /\ Becomes(p, Idle(pc))
  /\ late' = late \cup InFlight(p)
  /\ UNCHANGED <<stored, csr, ca, vacant>>

Lose(p)  == holder = {p} /\ Stop(p, "standby") /\ Troubled
Crash(p) == /\ work[p].pc # "down" /\ Stop(p, "down")
            /\ IF holder = {p} THEN Troubled ELSE UNCHANGED trouble

--------------------------------------------------------------------------------
(* Renewer.Ensure *)

\* Mutant of Fresh: a certificate is fresh until it expires.
FreshTillExpired == stored.cert # None /\ stored.cert.left > 0

\* A certificate is stored, readable and not past its renewal point.
Fresh == stored.cert # None /\ RenewIn(stored.cert) > 0

\* A failed read is retried, it is not evidence that the credential is gone.
ReadFails(p) ==
  /\ work[p].pc = "ensure"
  /\ Becomes(p, Resting(p, RetryInterval))
  /\ Troubled
  /\ UNCHANGED <<stored, csr, ca, holder, vacant, late>>

\* The certificate is current; missing annotations are written now.
Current(p) ==
  /\ work[p].pc = "ensure" /\ Fresh
  /\ LET w == Resting(p, sleepFor(RenewIn(stored.cert))) IN
     Becomes(p, IF stored.ann = stored.cert THEN w
                ELSE [w EXCEPT !.pc = "sync", !.first = work[p].first,
                               !.read = stored.cert, !.same = TRUE])
  /\ UNCHANGED <<stored, csr, ca, holder, vacant, late, trouble>>

\* Missing, unreadable or past its renewal point.
Due(p) ==
  /\ work[p].pc = "ensure" /\ ~Fresh
  /\ Becomes(p, [work[p] EXCEPT !.pc = "issue"])
  /\ UNCHANGED <<stored, csr, ca, holder, vacant, late, trouble>>

--------------------------------------------------------------------------------
(* Renewer.issue: signup deletes a CSR of its name and creates its own, awaits *)
(* the certificate and puts the Secret whole, without metadata.                *)

IssueCsr(p) ==
  /\ work[p].pc = "issue"
  /\ csr' = {[by |-> {p}, cert |-> None]}
  /\ Becomes(p, [work[p] EXCEPT !.pc = "await"])
  /\ UNCHANGED <<stored, ca, holder, vacant, late, trouble>>

\* External: the signer issues what has been approved.
Sign ==
  /\ \E r \in csr : r.by # {} /\ r.cert = None /\ csr' = {[r EXCEPT !.cert = Issued]}
  /\ UNCHANGED <<stored, ca, holder, vacant, work, late, trouble>>

Collect(p) ==
  /\ work[p].pc = "await"
  /\ \E r \in csr : /\ r.by = {p} /\ r.cert # None
                    /\ Becomes(p, [work[p] EXCEPT !.pc = "store", !.cert = r.cert])
  /\ csr' = {}
  /\ UNCHANGED <<stored, ca, holder, vacant, late, trouble>>

\* Mutant of CsrReplaced: the replaced CSR is awaited for ever.
CsrReplacedAwaited(p) ==
  /\ work[p].pc = "await" /\ \A r \in csr : r.by # {p}
  /\ UNCHANGED vars

\* Another writer of the CSR deleted this one's: signup fails.
CsrReplaced(p) ==
  /\ work[p].pc = "await" /\ \A r \in csr : r.by # {p}
  /\ Becomes(p, Resting(p, RetryInterval))
  /\ UNCHANGED <<stored, csr, ca, holder, vacant, late, trouble>>

IssueFails(p) ==
  /\ work[p].pc \in {"issue", "await", "store"}
  /\ Becomes(p, Resting(p, RetryInterval))
  /\ Troubled
  /\ UNCHANGED <<stored, csr, ca, holder, vacant, late>>

Store(p) ==
  /\ work[p].pc = "store"
  /\ Rewrite(work[p].cert, None)
  /\ work' = [Outdated(work) EXCEPT ![p].pc = "readback"]
  /\ late' = OutdatedCalls(late)
  /\ trouble' = Lesser(Age(work[p].cert), MaxTrouble + 1)
  /\ UNCHANGED <<csr, ca, holder, vacant>>

\* annotate: reads the Secret back; nothing to do when its annotations are right
\* or it holds no certificate.
Readback(p) ==
  /\ work[p].pc = "readback"
  /\ Becomes(p, IF stored.ann = stored.cert THEN Settled(p)
                ELSE [work[p] EXCEPT !.pc = "sync", !.read = stored.cert, !.same = TRUE])
  /\ UNCHANGED <<stored, csr, ca, holder, vacant, late, trouble>>

Annotate(p) ==
  /\ work[p].pc = "sync"
  /\ Sync(work[p].read, work[p].same)
  /\ work' = [Outdated(work) EXCEPT ![p] = Settled(p)]
  /\ late' = OutdatedCalls(late)
  /\ UNCHANGED <<csr, ca, holder, vacant, trouble>>

\* A conflict or a failed call is logged and swallowed.
AnnotateFails(p) ==
  /\ work[p].pc \in {"readback", "sync"}
  /\ Becomes(p, Settled(p))
  /\ UNCHANGED <<stored, csr, ca, holder, vacant, late, trouble>>

--------------------------------------------------------------------------------
(* ownIdentity after its first Ensure, and the loop of Renewer.Run *)

BackfillDone(p) ==
  /\ work[p].pc = "backfill"
  /\ Becomes(p, [work[p] EXCEPT !.pc = "sleep", !.spent = 0])
  /\ UNCHANGED <<stored, csr, ca, holder, vacant, late, trouble>>

Wake(p) ==
  /\ work[p].pc = "sleep" /\ work[p].wait = 0
  /\ Becomes(p, Idle("ensure"))
  /\ UNCHANGED <<stored, csr, ca, holder, vacant, late, trouble>>

--------------------------------------------------------------------------------
(* The environment *)

\* A call of a lead that is over takes effect after all.
Arrive(c) ==
  /\ c \in late
  /\ \/ /\ c.op = "issue" /\ csr' = {[by |-> {}, cert |-> None]}
        /\ late' = late \ {c}
        /\ UNCHANGED <<stored, work>>
     \/ /\ \/ c.op = "store" /\ Rewrite(c.cert, None)
           \/ c.op = "sync" /\ Sync(c.read, c.same)
        /\ work' = Outdated(work)
        /\ late' = OutdatedCalls(late \ {c})
        /\ UNCHANGED csr
  /\ UNCHANGED <<ca, holder, vacant, trouble>>

\* The Secret is deleted, or emptied, out of band.
Wipe ==
  /\ stored.cert # None
  /\ Rewrite(None, None)
  /\ work' = Outdated(work)
  /\ late' = OutdatedCalls(late)
  /\ UNCHANGED <<csr, ca, holder, vacant, trouble>>

Rotate ==
  /\ ca < CALife
  /\ ca' = CALife
  /\ UNCHANGED <<stored, csr, holder, vacant, work, late, trouble>>

\* A step of running code that is not a wait: time passing meanwhile is trouble.
Busy(p) ==
  \/ work[p].pc \in {"ensure", "issue", "await", "store", "readback", "sync"}
  \/ work[p].pc = "sleep" /\ work[p].wait = 0
  \/ work[p].pc = "backfill" /\ work[p].spent = BackfillTime
Orphaned == holder = {} /\ vacant = LeaseDuration

Less(n)  == IF n = 0 THEN 0 ELSE n - 1
Older(c) == IF c = None THEN None ELSE [c EXCEPT !.left = Less(@)]
Later(w) == [w EXCEPT !.cert = Older(@), !.read = Older(@),
                      !.wait = IF w.pc = "sleep" THEN Less(@) ELSE @,
                      !.spent = IF w.pc = "backfill" THEN Lesser(@ + 1, BackfillTime) ELSE @]

\* A certificate that was signed is collected and stored within a unit, or signup
\* has failed.
Prompt(p) ==
  /\ work[p].pc = "store" => Age(work[p].cert) = 0
  /\ work[p].pc = "await" => \A r \in csr : r.by = {p} /\ r.cert # None => Age(r.cert) = 0

\* A unit of time passes.  The Lease is taken within LeaseDuration if there is a
\* candidate; a signer CA is rotated in time; a call reaches the apiserver within
\* a unit or never.
Tick ==
  /\ ca > CAMin
  /\ \A p \in Replica : Prompt(p)
  /\ Orphaned => \A p \in Replica : work[p].pc # "standby"
  /\ stored' = [cert |-> Older(stored.cert), ann |-> Older(stored.ann)]
  /\ csr' = {[r EXCEPT !.cert = Older(@)] : r \in csr}
  /\ ca' = ca - 1
  /\ vacant' = IF holder = {} THEN Lesser(vacant + 1, LeaseDuration) ELSE 0
  /\ work' = [p \in Replica |-> Later(work[p])]
  /\ late' = {}
  /\ IF Orphaned \/ \E p \in Replica : Busy(p) THEN Troubled ELSE UNCHANGED trouble
  /\ UNCHANGED holder

LeadStep(p) ==
  \/ Start(p) \/ Acquire(p) \/ Lose(p) \/ Crash(p)
EnsureStep(p) ==
  \/ ReadFails(p) \/ Current(p) \/ Due(p)
  \/ IssueCsr(p) \/ Collect(p) \/ CsrReplaced(p) \/ IssueFails(p) \/ Store(p)
  \/ Readback(p) \/ Annotate(p) \/ AnnotateFails(p)
  \/ BackfillDone(p) \/ Wake(p)

Next ==
  \/ Tick \/ Rotate \/ Sign \/ Wipe
  \/ \E c \in late : Arrive(c)
  \/ \E p \in Replica : LeadStep(p) \/ EnsureStep(p)

Spec == Init /\ [][Next]_vars

(***************************************************************************)
(* Time passes, a free Lease is taken, and each call that keeps being made *)
(* in the end succeeds, although leads may keep ending in between.         *)
(***************************************************************************)
Fairness ==
  /\ SF_vars(Tick) /\ WF_vars(Rotate)
  /\ SF_vars(Sign /\ \E p \in Replica : work[p].pc = "await")
  /\ WF_vars(\E p \in Replica : Start(p))
  /\ SF_vars(\E p \in Replica : Acquire(p))
  /\ SF_vars(\E p \in Replica : Current(p) \/ Due(p))
  /\ SF_vars(\E p \in Replica : IssueCsr(p))
  /\ SF_vars(\E p \in Replica : Collect(p))
  /\ SF_vars(\E p \in Replica : Store(p))
  /\ WF_vars(\E p \in Replica : CsrReplaced(p) \/ BackfillDone(p) \/ Wake(p))
  /\ WF_vars(\E p \in Replica : Readback(p) \/ Annotate(p) \/ AnnotateFails(p))

FairSpec == Spec /\ Fairness

--------------------------------------------------------------------------------
(* Properties *)

Greater(a, b) == IF a > b THEN a ELSE b

\* The certificates the signer grants, what the schedule leaves of each after its
\* renewal point, what one thing that goes wrong costs (a wait for the Lease, or for
\* the next try), and the longest that authn waits.
Shortest    == Lesser(Lesser(Requested, SignerMax), CAMin)
Longest     == Lesser(Lesser(Requested, SignerMax), CALife)
Until(l)    == (l * ThresholdNum) \div ThresholdDen
Cost        == Greater(LeaseDuration, RetryInterval + BackfillTime)
LongestWait == Greater(Cost, sleepFor(Until(Longest + Backdate) - Backdate) + BackfillTime)

\* The granted lifetimes are long enough for the trouble that is to be endured: after
\* the renewal point of any certificate, and when a late call replaces a long
\* certificate that authn goes by with a short one.
RoomForTrouble ==
  /\ (Shortest + Backdate) - Until(Shortest + Backdate) >= MinSleep + BackfillTime + Cost * MaxTrouble
  /\ Shortest - 1 > LongestWait + Cost * MaxTrouble

\* The certificate is renewed before it expires, whichever replica leads, as long
\* as little goes wrong between two renewals (RenewAt, sleepFor, ownIdentity).
RenewedInTime ==
  stored.cert # None /\ trouble <= MaxTrouble => stored.cert.left > 0

\* The annotations are absent or describe the certificate beside them, although
\* signup drops them and syncAnnotations writes back what it read.
AnnotationsDescribeCertificate == stored.ann # None => stored.ann = stored.cert

\* Whatever fails, and however often the Secret is deleted and leads end, a valid
\* certificate is stored again and again (Renewer.Run, leader.Run).
RenewedForever == []<>(stored.cert # None /\ stored.cert.left > 0)

\* The stored certificate is only ever replaced by one just issued: no write of
\* annotations, late or not, brings an earlier one back (syncAnnotations).
NeverRolledBack ==
  [][\A c \in {stored'.cert} \ {None, stored.cert, Older(stored.cert)} :
       Age(c) <= 1]_vars
================================================================================
