------------------------------ MODULE SecretStore ------------------------------
(***************************************************************************)
(* The Secrets of the operator namespace as internal/helpers/kube/secrets  *)
(* drives them.  The apiserver itself is external: it stamps every write   *)
(* with a fresh revision, refuses to create what exists or update what     *)
(* does not, and checks a resourceVersion only when the caller sends one.  *)
(***************************************************************************)
EXTENDS Credentials

VARIABLES
  secrets,    \* the stored Secrets; resourceVersion 0 is an absent one
  revision    \* the revision of the last write

storeVars == <<secrets, revision>>

Secret == [rv: Nat, cert: Cert \cup {Unreadable}, ann: Annotations]
Absent == [rv |-> 0, cert |-> Unreadable, ann |-> NoAnnotations]

Exists(n) == secrets[n].rv # 0

\* Every write goes through here: contents and metadata are replaced whole.
Write(n, c, a) ==
  /\ revision' = revision + 1
  /\ secrets' = [secrets EXCEPT ![n] = [rv |-> revision + 1, cert |-> c, ann |-> a]]

\* POST: refused with AlreadyExists when the Secret exists.
Create(n, c, a) == ~Exists(n) /\ Write(n, c, a)

\* Mutant of Update: the stored annotations are kept.
UpdateKeepingAnnotations(n, c, a) == Exists(n) /\ Write(n, c, secrets[n].ann)

\* PUT of an object built from scratch: it carries no resourceVersion, so it
\* replaces whatever is stored, and is refused with NotFound when nothing is.
Update(n, c, a) == Exists(n) /\ Write(n, c, a)

\* What a write made on condition of a resourceVersion requires.
Unchanged(n, rv) == Exists(n) /\ secrets[n].rv = rv

\* Mutants of UpdateRead: no resourceVersion sent; a patch of the annotations.
UpdateReadBlind(n, rv, c, a) == Exists(n) /\ Write(n, c, a)
UpdateReadPatch(n, rv, c, a) == Exists(n) /\ Write(n, secrets[n].cert, a)

\* PUT of an object that was read: it carries the resourceVersion of the read,
\* and is refused with Conflict when the Secret changed since.
UpdateRead(n, rv, c, a) == Unchanged(n, rv) /\ Write(n, c, a)

\* Mutant of DeleteRead: no preconditions sent.
DeleteReadBlind(n, rv) ==
  /\ Exists(n)
  /\ revision' = revision + 1
  /\ secrets' = [secrets EXCEPT ![n] = Absent]

\* DELETE with preconditions.  A recreated Secret gets a new UID and a new
\* resourceVersion, so the resourceVersion decides both preconditions.
DeleteRead(n, rv) ==
  /\ Unchanged(n, rv)
  /\ revision' = revision + 1
  /\ secrets' = [secrets EXCEPT ![n] = Absent]

\* What a list returns: each Secret with the resourceVersion it was read at.
Item == [name: Name, rv: Nat, cert: Cert \cup {Unreadable}, ann: Annotations]
Listed(n) == [name |-> n, rv |-> secrets[n].rv, cert |-> secrets[n].cert, ann |-> secrets[n].ann]
List(names) == {Listed(n) : n \in {m \in names : Exists(m)}}
================================================================================
