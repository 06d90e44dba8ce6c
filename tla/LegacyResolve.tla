---------------------------- MODULE LegacyResolve ----------------------------
(***************************************************************************)
(* The logins that complete their identity through one RESTAction and      *)
(* share the names of its copies (internal/helpers/restaction): OIDC       *)
(* logins with one DNS form of the email.  An OAuth login takes a random   *)
(* suffix and is a set of one.  Copies with other names never meet these.  *)
(*                                                                         *)
(* One action per call to the apiserver or to snowplow, both external.     *)
(***************************************************************************)
EXTENDS Integers, Sequences, Functions

CONSTANTS
  Login,       \* the logins, and the bearer tokens they carry
  Endpoint,    \* endpoint Secrets a stage may refer to
  OwnToken,    \* those with a token of their own
  Stages,      \* what the RESTAction may say: the endpoint of each of its stages
  Restaction,  \* the RESTAction among the objects that are copied
  Shared,      \* the token of an endpoint that has its own
  None,        \* no object
  MaxEdits     \* bound on the edits of the RESTAction

ASSUME LegacyResolveAssumption ==
  /\ OwnToken \subseteq Endpoint
  /\ Stages \subseteq Seq(Endpoint)
  /\ Restaction \notin Endpoint
  /\ Shared \notin Login /\ None \notin Login \cup {Shared} /\ None \notin Seq(Endpoint)
  /\ MaxEdits \in Nat

VARIABLES
  restaction,  \* the stages of the RESTAction the logins refer to
  copy,        \* the copies, by the object they are copied from
  login,       \* the state of each login
  edits,       \* how often the RESTAction was edited
  overlapped,  \* the logins that ran beside another
  troubled,    \* the logins with a failed call, and those that crashed
  over         \* per login, the logins that were over when it began

vars == <<restaction, copy, login, edits, overlapped, troubled, over>>
history == <<edits, overlapped, over>>

Object == Endpoint \cup {Restaction}
Token  == Login \cup {Shared}

Content(o) == (IF o = Restaction THEN Stages ELSE Token) \cup {None}

\* i: the stage it is at, one past the last one for the RESTAction itself;
\* found, same: whether CreateOrUpdate found a copy, and it has not been written
\* since; used: the tokens snowplow resolved the copy with.
Pc == {"new", "look", "write", "call", "list", "delete", "done", "failed"}
Work == [pc: Pc, stages: Stages, i: Nat, found: BOOLEAN, same: BOOLEAN, used: SUBSET Token]

Over   == {"done", "failed"}
Active == {r \in Login : login[r].pc \notin Over \cup {"new"}}

TypeOK ==
  /\ restaction \in Stages
  /\ copy \in [Object -> UNION {Content(o) : o \in Object}]
  /\ \A o \in Object : copy[o] \in Content(o)
  /\ login \in [Login -> Work] /\ \A r \in Login : login[r].i \in 1..(Len(login[r].stages) + 1)
  /\ edits \in 0..MaxEdits
  /\ overlapped \in SUBSET Login /\ troubled \in SUBSET Login
  /\ over \in [Login -> SUBSET Login]

Init ==
  /\ restaction \in Stages
  /\ copy = [o \in Object |-> None]
  /\ login = [r \in Login |-> [pc |-> "new", stages |-> restaction, i |-> 1, found |-> FALSE,
                               same |-> FALSE, used |-> {}]]
  /\ edits = 0
  /\ overlapped = {} /\ troubled = {}
  /\ over = [r \in Login |-> {}]

Becomes(r, w) == login' = [login EXCEPT ![r] = w]

\* Mutant of Refused: a login that fails deletes the copies.
RefusedCleaningUp(r) ==
  /\ Becomes(r, [login[r] EXCEPT !.pc = "failed"])
  /\ copy' = [o \in Object |-> None]
  /\ UNCHANGED <<restaction, history, troubled>>

Refused(r) ==
  /\ Becomes(r, [login[r] EXCEPT !.pc = "failed"])
  /\ UNCHANGED <<restaction, copy, history, troubled>>

\* A call fails or the login is cancelled.  A login with a call on its way is not
\* over before the call has arrived or is lost.
Fails(r) ==
  /\ r \in Active
  /\ Becomes(r, [login[r] EXCEPT !.pc = "failed"])
  /\ troubled' = troubled \cup {r}
  /\ UNCHANGED <<restaction, copy, history>>

--------------------------------------------------------------------------------
(* The copies *)

At(r) == IF login[r].i <= Len(login[r].stages) THEN login[r].stages[login[r].i] ELSE Restaction

\* What the login copies: the endpoint with its token, or with the login's when
\* it has none; the RESTAction with its endpoints replaced.
Copied(r) ==
  CASE At(r) = Restaction -> login[r].stages
    [] At(r) \in OwnToken -> Shared
    [] OTHER              -> r

\* CreateOrUpdate: a PUT with the resourceVersion read, or a POST.
MayWrite(r) == IF login[r].found THEN login[r].same ELSE copy[At(r)] = None

\* The object is written or deleted: who looked at it holds an old resourceVersion.
Touch(r, c, w) ==
  /\ copy' = [copy EXCEPT ![At(r)] = c]
  /\ login' = [q \in Login |-> IF q = r THEN w
                               ELSE [login[q] EXCEPT !.same = @ /\ At(q) # At(r)]]

\* Mutant of Advance: one step too many.
AdvancePast(r, pc, last) ==
  IF login[r].i > Len(login[r].stages) + 1 THEN [login[r] EXCEPT !.pc = last]
  ELSE [login[r] EXCEPT !.pc = pc, !.i = @ + 1]

\* The next step of the copy or of the deletion: the RESTAction comes last.
Advance(r, pc, last) ==
  LET w == [login[r] EXCEPT !.found = FALSE, !.same = FALSE] IN
  IF At(r) = Restaction THEN [w EXCEPT !.pc = last]
  ELSE [w EXCEPT !.pc = pc, !.i = @ + 1]

--------------------------------------------------------------------------------
(* Operations *)

\* Resolve answers, or its failure or unusable answer makes the login fall back;
\* LegacyResolve reads the RESTAction.
Begin(r) ==
  /\ login[r].pc = "new"
  /\ \/ Becomes(r, [login[r] EXCEPT !.pc = "look", !.stages = restaction, !.i = 1])
     \/ Becomes(r, [login[r] EXCEPT !.pc = "done", !.used = {r}])
  /\ over' = [over EXCEPT ![r] = {q \in Login : login[q].pc \in Over}]
  /\ overlapped' = IF Active = {} THEN overlapped ELSE overlapped \cup Active \cup {r}
  /\ UNCHANGED <<restaction, copy, edits, troubled>>

\* Mutant of Look: an endpoint that has been copied is not copied again.
LookOnce(r) ==
  /\ login[r].pc = "look"
  /\ LET found == copy[At(r)] # None IN
     Becomes(r, IF found /\ At(r) # Restaction THEN Advance(r, "look", "call")
                ELSE [login[r] EXCEPT !.pc = "write", !.found = found, !.same = TRUE])
  /\ UNCHANGED <<restaction, copy, history, troubled>>

\* The endpoint is read, and its copy looked for.
Look(r) ==
  /\ login[r].pc = "look"
  /\ Becomes(r, [login[r] EXCEPT !.pc = "write", !.found = copy[At(r)] # None, !.same = TRUE])
  /\ UNCHANGED <<restaction, copy, history, troubled>>

\* A write, or a deletion below, may have taken effect although it failed.
Write(r) ==
  /\ login[r].pc = "write" /\ MayWrite(r)
  /\ \/ Touch(r, Copied(r), Advance(r, "look", "call")) /\ UNCHANGED troubled
     \/ /\ Touch(r, Copied(r), [login[r] EXCEPT !.pc = "failed"])
        /\ troubled' = troubled \cup {r}
  /\ UNCHANGED <<restaction, history>>

\* Another login wrote the copy in between, created it, or deleted it.
Conflict(r) == login[r].pc = "write" /\ ~MayWrite(r) /\ Refused(r)

\* snowplow resolves the copy with the endpoints that are there; it may answer
\* although a stage failed.
Call(r) ==
  /\ login[r].pc = "call" /\ copy[Restaction] # None
  /\ Becomes(r, [login[r] EXCEPT !.pc = "list",
                                 !.used = {copy[e] : e \in Range(copy[Restaction])} \ {None}])
  /\ UNCHANGED <<restaction, copy, history, troubled>>

\* Mutant of List: only the RESTAction is deleted.
ListRestaction(r) ==
  /\ login[r].pc = "list" /\ copy[Restaction] # None
  /\ Becomes(r, [login[r] EXCEPT !.pc = "delete", !.stages = copy[Restaction],
                                 !.i = Len(copy[Restaction]) + 1])
  /\ UNCHANGED <<restaction, copy, history, troubled>>

\* The deletion goes by the stages of the copy that is there.
List(r) ==
  /\ login[r].pc = "list" /\ copy[Restaction] # None
  /\ Becomes(r, [login[r] EXCEPT !.pc = "delete", !.stages = copy[Restaction], !.i = 1])
  /\ UNCHANGED <<restaction, copy, history, troubled>>

\* Mutants of Deleted and Gone: an endpoint of two stages is deleted twice; what is
\* not there to delete is skipped.
DeletedTwice(r) == FALSE
GoneSkipped(r) ==
  \/ login[r].pc \in {"call", "list"} /\ copy[Restaction] = None /\ Refused(r)
  \/ /\ login[r].pc = "delete" /\ copy[At(r)] = None
     /\ Becomes(r, Advance(r, "delete", "done"))
     /\ UNCHANGED <<restaction, copy, history, troubled>>

\* hasSecret.
Deleted(r) == \E j \in 1..(login[r].i - 1) : login[r].stages[j] = At(r)

Gone(r) ==
  /\ \/ login[r].pc \in {"call", "list"} /\ copy[Restaction] = None
     \/ login[r].pc = "delete" /\ ~Deleted(r) /\ copy[At(r)] = None
  /\ Refused(r)

Skip(r) ==
  /\ login[r].pc = "delete" /\ Deleted(r)
  /\ Becomes(r, Advance(r, "delete", "done"))
  /\ UNCHANGED <<restaction, copy, history, troubled>>

Delete(r) ==
  /\ login[r].pc = "delete" /\ ~Deleted(r) /\ copy[At(r)] # None
  /\ \/ Touch(r, None, Advance(r, "delete", "done")) /\ UNCHANGED troubled
     \/ /\ Touch(r, None, [login[r] EXCEPT !.pc = "failed"])
        /\ troubled' = troubled \cup {r}
  /\ UNCHANGED <<restaction, history>>

\* An administrator edits the RESTAction.
Edit ==
  /\ edits < MaxEdits
  /\ edits' = edits + 1
  /\ restaction' \in Stages \ {restaction}
  /\ UNCHANGED <<copy, login, overlapped, troubled, over>>

Proceed(r) ==
  \/ Look(r) \/ Write(r) \/ Conflict(r) \/ Call(r) \/ List(r)
  \/ Skip(r) \/ Delete(r) \/ Gone(r) \/ Fails(r)

Next == Edit \/ \E r \in Login : Begin(r) \/ Proceed(r)

Spec == Init /\ [][Next]_vars

--------------------------------------------------------------------------------
(* Properties *)

Idle(P) == \A r \in Login : login[r].pc \in P \cup {"new"}
NoCopies == \A o \in Object : copy[o] = None

\* When every login succeeded no copy is left, however they overlapped and the
\* RESTAction changed meanwhile (deleteRestActionCopyWithEndpoints).
SuccessLeavesNoCopy == Idle({"done"}) => NoCopies

\* A login that ran by itself leaves none of its copies behind, nor those a failed
\* login left under the same names (CreateOrUpdate, hasSecret).
CleansUp ==
  [][\A r \in Login \ overlapped :
       login[r].pc = "delete" /\ login'[r].pc = "done" =>
         \A o \in Range(login[r].stages) \cup {Restaction} : copy'[o] = None]_vars

\* A login that ran by itself and met no error succeeds, whatever earlier logins
\* left behind, and however often its stages name an endpoint.
AloneSucceeds ==
  \A r \in Login \ (overlapped \cup troubled) : login[r].pc # "failed"

\* snowplow never resolves with the token of a login that was over when this one
\* began, although its copies may still be there.
NoStaleToken ==
  \A r \in Login : edits = 0 \/ r \notin overlapped => login[r].used \cap over[r] = {}

\* Of logins that met no error and no edit one succeeds: they do not undo each
\* other for ever.
SomeoneSucceeds ==
  /\ edits = 0 /\ troubled = {} /\ Idle(Over)
  /\ \E r \in Login : login[r].pc # "new"
  => \E r \in Login : login[r].pc = "done"
================================================================================
