------------------------- MODULE LegacyResolveProofs -------------------------
(***************************************************************************)
(* Proofs about LegacyResolve, for any number of logins and any RESTAction.*)
(*                                                                         *)
(* That no stale token is used is a fact about one step, Call; the         *)
(* invariant carries what the login has done up to it: the endpoints it    *)
(* has gone through hold no token of a login that was over when it began,  *)
(* and the stages snowplow will resolve are its own.                       *)
(***************************************************************************)
EXTENDS LegacyResolve, TLAPS

\* Login r never meets a stale token in the copies of its stages before i.
FreshBefore(r, i) == \A j \in 1..Len(login[r].stages) : j < i => copy[login[r].stages[j]] \notin over[r]

\* The endpoints login r has copied are not stale.
CopiesFresh ==
  \A r \in Login :
    /\ login[r].pc \in {"look", "write"} => FreshBefore(r, login[r].i)
    /\ login[r].pc = "call" => FreshBefore(r, Len(login[r].stages) + 1)

\* The RESTAction that was copied is the login's own, if it was never edited or
\* the login runs by itself.
OwnStages ==
  /\ edits = 0 => /\ \A r \in Login : login[r].stages = restaction
                  /\ copy[Restaction] \in {None, restaction}
  /\ \A r \in Login \ overlapped :
       login[r].pc = "call" => copy[Restaction] = login[r].stages

\* Who ran by itself still does; who was over is over; who is new used no token.
HistoryFaithful ==
  /\ \A r \in Login \ overlapped : r \in Active => Active = {r}
  /\ \A r \in Login : /\ over[r] \subseteq {q \in Login : login[q].pc \in Over}
                      /\ login[r].pc = "new" => login[r].used = {}

Inv == TypeOK /\ HistoryFaithful /\ OwnStages /\ CopiesFresh /\ NoStaleToken

--------------------------------------------------------------------------------
(* Facts about the operators *)

\* The copy of the RESTAction, when there is one, names endpoints.
LEMMA StagesType ==
  ASSUME TypeOK, copy[Restaction] # None
  PROVE  /\ copy[Restaction] \in Stages /\ Len(copy[Restaction]) \in Nat
         /\ Range(copy[Restaction]) \subseteq Endpoint
<1>1. copy[Restaction] \in Stages
  BY DEF TypeOK, Object, Content
<1>2. copy[Restaction] \in Seq(Endpoint)
  BY <1>1, LegacyResolveAssumption
<1>. QED
  BY <1>1, <1>2 DEF Range

\* What a login is at is an endpoint of one of its stages, or the RESTAction, and
\* what it writes there is an object's content.
LEMMA AtType ==
  ASSUME TypeOK, NEW r \in Login
  PROVE  /\ At(r) \in Object /\ Copied(r) \in Content(At(r)) /\ None \in Content(At(r))
         /\ At(r) # Restaction => /\ login[r].i \in 1..Len(login[r].stages)
                                  /\ At(r) = login[r].stages[login[r].i]
                                  /\ Copied(r) \in {Shared, r}
         /\ At(r) = Restaction => /\ login[r].i = Len(login[r].stages) + 1
                                  /\ Copied(r) = login[r].stages
<1>1. /\ login[r].stages \in Stages /\ login[r].stages \in Seq(Endpoint)
      /\ login[r].i \in 1..(Len(login[r].stages) + 1)
  BY LegacyResolveAssumption DEF TypeOK, Work
<1>2. CASE login[r].i <= Len(login[r].stages)
  <2>1. login[r].i \in 1..Len(login[r].stages)
    BY <1>1, <1>2
  <2>2. At(r) = login[r].stages[login[r].i] /\ At(r) \in Endpoint
    BY <1>1, <1>2, <2>1 DEF At
  <2>. QED
    BY <2>1, <2>2, LegacyResolveAssumption DEF Object, Copied, Token, Content
<1>3. CASE ~(login[r].i <= Len(login[r].stages))
  <2>1. At(r) = Restaction /\ login[r].i = Len(login[r].stages) + 1
    BY <1>1, <1>3 DEF At
  <2>. QED
    BY <1>1, <2>1, LegacyResolveAssumption DEF Object, Copied, Content
<1>. QED
  BY <1>2, <1>3

\* The next step of a copy or a deletion.
LEMMA AdvanceType ==
  ASSUME TypeOK, NEW r \in Login, NEW pc \in Pc, NEW last \in Pc
  PROVE  /\ Advance(r, pc, last) \in Work
         /\ Advance(r, pc, last).i \in 1..(Len(Advance(r, pc, last).stages) + 1)
         /\ Advance(r, pc, last).stages = login[r].stages
         /\ Advance(r, pc, last).used = login[r].used
         /\ At(r) = Restaction => Advance(r, pc, last).pc = last
         /\ At(r) # Restaction => /\ Advance(r, pc, last).pc = pc
                                  /\ Advance(r, pc, last).i = login[r].i + 1
<1>. DEFINE w == [login[r] EXCEPT !.found = FALSE, !.same = FALSE]
<1>1. /\ login[r] \in Work /\ login[r].i \in 1..(Len(login[r].stages) + 1)
      /\ login[r].i \in Nat /\ Len(login[r].stages) \in Nat
  BY LegacyResolveAssumption DEF TypeOK, Work
<1>2. /\ w \in Work /\ w.i = login[r].i /\ w.stages = login[r].stages
      /\ w.used = login[r].used
  BY <1>1 DEF Work
<1>3. CASE At(r) = Restaction
  <2>1. Advance(r, pc, last) = [w EXCEPT !.pc = last]
    BY <1>3 DEF Advance
  <2>. QED
    BY <1>1, <1>2, <1>3, <2>1 DEF Work
<1>4. CASE At(r) # Restaction
  <2>1. Advance(r, pc, last) = [w EXCEPT !.pc = pc, !.i = w.i + 1]
    BY <1>2, <1>4 DEF Advance, Work
  <2>2. login[r].i + 1 \in 1..(Len(login[r].stages) + 1) /\ login[r].i + 1 \in Nat
    BY <1>1, <1>4, AtType
  <2>. QED
    BY <1>2, <1>4, <2>1, <2>2 DEF Work
<1>. QED
  BY <1>3, <1>4

\* What becomes of the logins when one of them writes or deletes a copy.
LEMMA TouchType ==
  ASSUME TypeOK, NEW r \in Login, NEW c \in Content(At(r)),
         NEW w \in Work, w.i \in 1..(Len(w.stages) + 1), Touch(r, c, w)
  PROVE  /\ copy' \in [Object -> UNION {Content(o) : o \in Object}]
         /\ \A o \in Object : copy'[o] \in Content(o)
         /\ login' \in [Login -> Work]
         /\ \A q \in Login : login'[q].i \in 1..(Len(login'[q].stages) + 1)
         /\ login'[r] = w
         /\ \A q \in Login \ {r} : /\ login'[q].pc = login[q].pc /\ login'[q].i = login[q].i
                                   /\ login'[q].stages = login[q].stages
                                   /\ login'[q].used = login[q].used
         /\ copy'[At(r)] = c
         /\ \A o \in Object \ {At(r)} : copy'[o] = copy[o]
<1>1. At(r) \in Object
  BY AtType
<1>2. \A q \in Login : login[q] \in Work /\ login[q].i \in 1..(Len(login[q].stages) + 1)
  BY DEF TypeOK
<1>3. login'[r] = w
  BY DEF Touch
<1>4. ASSUME NEW q \in Login \ {r}
      PROVE  /\ login'[q] \in Work
             /\ login'[q].pc = login[q].pc /\ login'[q].i = login[q].i
             /\ login'[q].stages = login[q].stages /\ login'[q].used = login[q].used
  <2>1. login'[q] = [login[q] EXCEPT !.same = login[q].same /\ At(q) # At(r)]
    BY <1>2 DEF Touch, Work
  <2>. QED
    BY <1>2, <2>1 DEF Work
<1>5. login' \in [Login -> Work]
  BY <1>3, <1>4 DEF Touch
<1>6. /\ copy'[At(r)] = c /\ \A o \in Object \ {At(r)} : copy'[o] = copy[o]
      /\ \A o \in Object : copy'[o] \in Content(o)
  BY <1>1 DEF Touch, TypeOK
<1>7. copy' \in [Object -> UNION {Content(o) : o \in Object}]
  BY <1>1 DEF Touch, TypeOK
<1>8. \A q \in Login : login'[q].i \in 1..(Len(login'[q].stages) + 1)
  BY <1>2, <1>3, <1>4
<1>. QED
  BY <1>3, <1>4, <1>5, <1>6, <1>7, <1>8

\* What a login's own step, after it began, leaves alone.
LEMMA ProceedShape ==
  ASSUME Inv, NEW r \in Login, Proceed(r)
  PROVE  /\ r \in Active
         /\ UNCHANGED <<restaction, history>>
         /\ \A q \in Login \ {r} : /\ login'[q].pc = login[q].pc /\ login'[q].i = login[q].i
                                   /\ login'[q].stages = login[q].stages
                                   /\ login'[q].used = login[q].used
         /\ login'[r].pc # "new"
         /\ TypeOK'
<1>. TypeOK
  BY DEF Inv
<1>. DEFINE Kept == \A q \in Login \ {r} : /\ login'[q].pc = login[q].pc /\ login'[q].i = login[q].i
                                           /\ login'[q].stages = login[q].stages
                                           /\ login'[q].used = login[q].used
            Fine(w) == w \in Work /\ w.i \in 1..(Len(w.stages) + 1) /\ w.pc # "new"
<1>1. login[r] \in Work /\ login[r].i \in 1..(Len(login[r].stages) + 1)
  BY DEF TypeOK
<1>2. ASSUME NEW w, Fine(w), Becomes(r, w), UNCHANGED <<restaction, copy, history>>,
             troubled' \in SUBSET Login
      PROVE  Kept /\ login'[r].pc # "new" /\ TypeOK'
  BY <1>2 DEF Becomes, TypeOK, history
<1>3. ASSUME NEW w, Fine(w), NEW c \in Content(At(r)), Touch(r, c, w),
             UNCHANGED <<restaction, history>>, troubled' \in SUBSET Login
      PROVE  Kept /\ login'[r].pc # "new" /\ TypeOK'
  <2>1. /\ Kept /\ login'[r] = w
        /\ copy' \in [Object -> UNION {Content(o) : o \in Object}]
        /\ \A o \in Object : copy'[o] \in Content(o)
        /\ login' \in [Login -> Work]
        /\ \A q \in Login : login'[q].i \in 1..(Len(login'[q].stages) + 1)
    BY <1>3, TouchType
  <2>. QED
    BY <1>3, <2>1 DEF TypeOK, history
<1>4. troubled \in SUBSET Login /\ troubled \cup {r} \in SUBSET Login
  BY DEF TypeOK
<1>5. Fine([login[r] EXCEPT !.pc = "failed"])
  BY <1>1 DEF Work, Pc
<1>6. \A pc \in Pc \ {"new"}, last \in Pc \ {"new"} : Fine(Advance(r, pc, last))
  BY AdvanceType
<1>7. CASE Look(r)
  <2>1. Fine([login[r] EXCEPT !.pc = "write", !.found = copy[At(r)] # None, !.same = TRUE])
    BY <1>1 DEF Work, Pc
  <2>. QED
    BY <1>2, <1>4, <1>7, <2>1 DEF Look, Active, Over
<1>8. CASE Write(r)
  BY <1>3, <1>4, <1>5, <1>6, <1>8, AtType DEF Write, Active, Over, Pc
<1>9. CASE Conflict(r) \/ Gone(r)
  BY <1>2, <1>4, <1>5, <1>9 DEF Conflict, Gone, Refused, Active, Over
<1>10. CASE Fails(r)
  BY <1>2, <1>4, <1>5, <1>10 DEF Fails
<1>11. CASE Call(r)
  <2>. DEFINE u == {copy[e] : e \in Range(copy[Restaction])} \ {None}
  <2>1. copy[Restaction] \in Stages /\ Range(copy[Restaction]) \subseteq Endpoint
    BY <1>11, StagesType DEF Call
  <2>2. u \in SUBSET Token
    BY <2>1, LegacyResolveAssumption DEF TypeOK, Object, Content
  <2>3. Fine([login[r] EXCEPT !.pc = "list", !.used = u])
    BY <1>1, <2>2 DEF Work, Pc
  <2>. QED
    BY <1>2, <1>4, <1>11, <2>3 DEF Call, Active, Over
<1>12. CASE List(r)
  <2>1. copy[Restaction] \in Stages /\ Len(copy[Restaction]) \in Nat
    BY <1>12, StagesType DEF List
  <2>. DEFINE w == [login[r] EXCEPT !.pc = "delete", !.stages = copy[Restaction], !.i = 1]
  <2>3. w \in Work /\ w.i = 1 /\ w.stages = copy[Restaction] /\ w.pc # "new"
    BY <1>1, <2>1 DEF Work, Pc
  <2>4. 1 \in 1..(Len(copy[Restaction]) + 1)
    BY <2>1
  <2>2. Fine(w)
    BY <2>3, <2>4
  <2>. QED
    BY <1>2, <1>4, <1>12, <2>2 DEF List, Active, Over
<1>13. CASE Skip(r)
  BY <1>2, <1>4, <1>6, <1>13 DEF Skip, Active, Over, Pc
<1>14. CASE Delete(r)
  BY <1>3, <1>4, <1>5, <1>6, <1>14, AtType DEF Delete, Active, Over, Pc
<1>. QED
  BY <1>7, <1>8, <1>9, <1>10, <1>11, <1>12, <1>13, <1>14 DEF Proceed

\* The initial states satisfy the invariant.
LEMMA InitInv == Init => Inv
<1>. SUFFICES ASSUME Init PROVE Inv
  OBVIOUS
<1>1. restaction \in Stages /\ Len(restaction) \in Nat
  BY LegacyResolveAssumption DEF Init
<1>2. TypeOK
  <2>1. copy \in [Object -> UNION {Content(o) : o \in Object}] /\ \A o \in Object : copy[o] \in Content(o)
    BY DEF Init, Object, Content
  <2>. QED
    BY <1>1, <2>1, LegacyResolveAssumption DEF Init, TypeOK, Work, Pc
<1>3. HistoryFaithful /\ OwnStages /\ CopiesFresh /\ NoStaleToken
  BY <1>1, <1>2 DEF Init, HistoryFaithful, OwnStages, CopiesFresh, NoStaleToken, Active, Object
<1>. QED
  BY <1>2, <1>3 DEF Inv

\* A login that begins has done nothing yet, and knows who is over and who is not.
LEMMA BeginStep ==
  ASSUME Inv, NEW r \in Login, Begin(r)
  PROVE  Inv'
<1>. TypeOK
  BY DEF Inv
<1>1. /\ login[r] \in Work /\ login[r].i \in 1..(Len(login[r].stages) + 1) /\ login[r].used = {}
      /\ restaction \in Stages /\ Len(restaction) \in Nat
  BY LegacyResolveAssumption DEF Inv, HistoryFaithful, Begin, TypeOK
<1>. DEFINE u == [login[r] EXCEPT !.pc = "look", !.stages = restaction, !.i = 1]
            v == [login[r] EXCEPT !.pc = "done", !.used = {r}]
<1>2. /\ u \in Work /\ u.i = 1 /\ u.stages = restaction /\ u.pc = "look" /\ u.used = {}
      /\ v \in Work /\ v.i = login[r].i /\ v.stages = login[r].stages /\ v.pc = "done" /\ v.used = {r}
  BY <1>1 DEF Work, Pc, Token
<1>3. PICK w \in {u, v} : Becomes(r, w)
  BY DEF Begin
<1>4. /\ login' \in [Login -> Work] /\ login'[r] = w
      /\ \A q \in Login \ {r} : login'[q] = login[q]
  BY <1>2, <1>3 DEF Becomes, TypeOK
<1>5. /\ UNCHANGED <<restaction, copy, edits, troubled>>
      /\ over' = [over EXCEPT ![r] = {q \in Login : login[q].pc \in Over}]
      /\ overlapped' = IF Active = {} THEN overlapped ELSE overlapped \cup Active \cup {r}
      /\ login[r].pc = "new"
  BY DEF Begin
<1>6. TypeOK'
  <2>1. \A q \in Login : login'[q].i \in 1..(Len(login'[q].stages) + 1)
    <3>1. login'[r].i \in 1..(Len(login'[r].stages) + 1)
      <4>1. 1 \in 1..(Len(restaction) + 1)
        BY <1>1
      <4>. QED
        BY <1>1, <1>2, <1>4, <4>1
    <3>. QED
      BY <1>4, <3>1 DEF TypeOK
  <2>2. over' \in [Login -> SUBSET Login] /\ overlapped' \in SUBSET Login
    BY <1>5 DEF TypeOK, Active
  <2>. QED
    BY <1>4, <1>5, <2>1, <2>2 DEF TypeOK
<1>7. /\ over'[r] = {q \in Login : login[q].pc \in Over} /\ \A q \in Login \ {r} : over'[q] = over[q]
      /\ r \notin over'[r]
  BY <1>5 DEF TypeOK, Over
<1>8. Active' \subseteq Active \cup {r}
  BY <1>4 DEF Active
<1>9. HistoryFaithful'
  <2>1. ASSUME NEW q \in Login \ overlapped', q \in Active' PROVE Active' = {q}
    <3>1. Active = {}
      BY <1>5, <1>8, <2>1
    <3>. QED
      BY <1>8, <2>1, <3>1
  <2>2. ASSUME NEW q \in Login
        PROVE  /\ over'[q] \subseteq {p \in Login : login'[p].pc \in Over}
               /\ login'[q].pc = "new" => login'[q].used = {}
    <3>1. over[q] \subseteq {p \in Login : login[p].pc \in Over}
      BY DEF Inv, HistoryFaithful
    <3>2. \A p \in Login : login[p].pc \in Over => login'[p].pc \in Over
      BY <1>4, <1>5 DEF Over
    <3>. QED
      BY <1>2, <1>4, <1>7, <3>1, <3>2 DEF Inv, HistoryFaithful
  <2>. QED
    BY <2>1, <2>2 DEF HistoryFaithful
<1>10. OwnStages'
  <2>1. ASSUME NEW q \in Login \ overlapped', login'[q].pc = "call"
        PROVE  copy'[Restaction] = login'[q].stages
    <3>1. q # r /\ login[q].pc = "call" /\ q \notin overlapped
      BY <1>2, <1>4, <1>5, <2>1
    <3>. QED
      BY <1>4, <1>5, <3>1 DEF Inv, OwnStages
  <2>2. edits' = 0 => /\ \A q \in Login : login'[q].stages = restaction'
                      /\ copy'[Restaction] \in {None, restaction'}
    <3>1. edits = 0 => w.stages = restaction
      BY <1>2, <1>3 DEF Inv, OwnStages
    <3>2. \A q \in Login : login'[q].stages = IF q = r THEN w.stages ELSE login[q].stages
      BY <1>4
    <3>. QED
      BY <1>5, <3>1, <3>2 DEF Inv, OwnStages
  <2>. QED
    BY <2>1, <2>2 DEF OwnStages
<1>11. CopiesFresh'
  <2>1. ASSUME NEW q \in Login \ {r}
        PROVE  /\ login'[q].pc \in {"look", "write"} => FreshBefore(q, login[q].i)'
               /\ login'[q].pc = "call" => FreshBefore(q, Len(login[q].stages) + 1)'
    BY <1>4, <1>5, <1>7 DEF FreshBefore, Inv, CopiesFresh
  <2>2. w.pc \in {"look", "write"} => w.i = 1
    BY <1>2
  <2>3. /\ login'[r].pc \in {"look", "write"} => FreshBefore(r, login[r].i)'
        /\ login'[r].pc # "call"
    <3>1. w.pc # "call"
      BY <1>2
    <3>2. \A k \in 1..Len(login'[r].stages) : ~(k < 1)
      OBVIOUS
    <3>. QED
      BY <1>4, <2>2, <3>1, <3>2 DEF FreshBefore
  <2>. QED
    BY <2>1, <2>3 DEF CopiesFresh
<1>12. NoStaleToken'
  <2>1. ASSUME NEW q \in Login, edits' = 0 \/ q \notin overlapped'
        PROVE  login'[q].used \cap over'[q] = {}
    <3>1. CASE q = r
      <4>1. w.used \subseteq {r}
        BY <1>2
      <4>. QED
        BY <1>4, <1>7, <3>1, <4>1
    <3>2. CASE q # r
      BY <1>4, <1>5, <1>7, <2>1, <3>2 DEF Inv, NoStaleToken
    <3>. QED
      BY <3>1, <3>2
  <2>. QED
    BY <2>1 DEF NoStaleToken
<1>. QED
  BY <1>6, <1>9, <1>10, <1>11, <1>12 DEF Inv

\* An edit of the RESTAction ends what is promised of it.
LEMMA EditStep ==
  ASSUME Inv, Edit
  PROVE  Inv'
<1>1. /\ restaction' \in Stages /\ edits' = edits + 1 /\ edits' \in 0..MaxEdits /\ edits' # 0
      /\ UNCHANGED <<copy, login, overlapped, troubled, over>>
  BY LegacyResolveAssumption DEF Edit, Inv, TypeOK
<1>2. TypeOK'
  BY <1>1 DEF Inv, TypeOK
<1>3. HistoryFaithful' /\ CopiesFresh'
  BY <1>1 DEF Inv, HistoryFaithful, CopiesFresh, FreshBefore, Active
<1>4. OwnStages' /\ NoStaleToken'
  BY <1>1 DEF Inv, OwnStages, NoStaleToken
<1>. QED
  BY <1>2, <1>3, <1>4 DEF Inv

\* A step of a login after it began: its own history, and that of those beside it.
LEMMA ProceedHistory ==
  ASSUME Inv, NEW r \in Login, Proceed(r)
  PROVE  HistoryFaithful'
<1>1. /\ r \in Active /\ login'[r].pc # "new" /\ UNCHANGED <<over, overlapped>>
      /\ \A q \in Login \ {r} : login'[q].pc = login[q].pc /\ login'[q].used = login[q].used
  BY ProceedShape DEF history
<1>2. Active' \subseteq Active
  BY <1>1 DEF Active
<1>3. \A p \in Login : login[p].pc \in Over => login'[p].pc \in Over
  BY <1>1 DEF Active
<1>4. ASSUME NEW q \in Login \ overlapped', q \in Active' PROVE Active' = {q}
  BY <1>1, <1>2, <1>4 DEF Inv, HistoryFaithful
<1>5. ASSUME NEW q \in Login
      PROVE  /\ over'[q] \subseteq {p \in Login : login'[p].pc \in Over}
             /\ login'[q].pc = "new" => login'[q].used = {}
  BY <1>1, <1>3 DEF Inv, HistoryFaithful
<1>. QED
  BY <1>4, <1>5 DEF HistoryFaithful

\* How a login's step changes what it and the copies hold: it writes its own
\* content or nothing to where it is, and reaches the call only past the last copy.
LEMMA ProceedEffect ==
  ASSUME Inv, NEW r \in Login, Proceed(r)
  PROVE  /\ \A o \in Object \ {At(r)} : copy'[o] = copy[o]
         /\ copy'[At(r)] \in {copy[At(r)], Copied(r), None}
         /\ login'[r].pc = "call" => /\ login[r].pc = "write" /\ At(r) = Restaction
                                      /\ copy'[Restaction] = login[r].stages
                                      /\ login'[r].stages = login[r].stages
         /\ login'[r].pc = "look" => /\ login[r].pc = "write" /\ At(r) # Restaction
                                      /\ copy'[At(r)] = Copied(r)
                                      /\ login'[r].stages = login[r].stages
                                      /\ login'[r].i = login[r].i + 1
         /\ login'[r].pc = "write" => /\ login[r].pc = "look" /\ copy' = copy
                                       /\ login'[r].stages = login[r].stages
                                       /\ login'[r].i = login[r].i
         /\ login'[r].stages \in {login[r].stages, copy[Restaction]}
         /\ login'[r].stages # login[r].stages => copy[Restaction] # None
         /\ \/ login'[r].used = login[r].used
            \/ Call(r) /\ login'[r].used = {copy[e] : e \in Range(copy[Restaction])} \ {None}
<1>. TypeOK
  BY DEF Inv
<1>1. login[r] \in Work /\ At(r) \in Object
  BY AtType DEF TypeOK
<1>2. CASE Look(r)
  <2>. DEFINE w == [login[r] EXCEPT !.pc = "write", !.found = copy[At(r)] # None, !.same = TRUE]
  <2>1. login'[r] = w /\ copy' = copy
    BY <1>2 DEF Look, Becomes, TypeOK
  <2>2. w.pc = "write" /\ w.stages = login[r].stages /\ w.i = login[r].i /\ w.used = login[r].used
    BY <1>1 DEF Work
  <2>. QED
    BY <1>2, <2>1, <2>2 DEF Look
<1>3. ASSUME NEW c \in Content(At(r)), NEW pc \in Pc, NEW last \in Pc,
             \/ Touch(r, c, Advance(r, pc, last))
             \/ Touch(r, c, [login[r] EXCEPT !.pc = "failed"])
      PROVE  /\ \A o \in Object \ {At(r)} : copy'[o] = copy[o]
             /\ copy'[At(r)] = c
             /\ login'[r].stages = login[r].stages /\ login'[r].used = login[r].used
             /\ \/ login'[r].pc = "failed"
                \/ At(r) = Restaction /\ login'[r].pc = last
                \/ At(r) # Restaction /\ login'[r].pc = pc /\ login'[r].i = login[r].i + 1
  <2>. DEFINE f == [login[r] EXCEPT !.pc = "failed"]
  <2>1. /\ f \in Work /\ f.pc = "failed" /\ f.stages = login[r].stages
        /\ f.used = login[r].used /\ f.i \in 1..(Len(f.stages) + 1)
    BY <1>1 DEF Work, Pc, TypeOK
  <2>2. CASE Touch(r, c, f)
    <3>1. /\ login'[r] = f /\ copy'[At(r)] = c
          /\ \A o \in Object \ {At(r)} : copy'[o] = copy[o]
      BY <2>1, <2>2, TouchType
    <3>. QED
      BY <2>1, <3>1
  <2>3. CASE Touch(r, c, Advance(r, pc, last))
    BY <2>3, TouchType, AdvanceType
  <2>. QED
    BY <1>3, <2>2, <2>3
<1>4. CASE Write(r)
  <2>1. Copied(r) \in Content(At(r))
    BY AtType
  <2>2. \/ Touch(r, Copied(r), Advance(r, "look", "call"))
        \/ Touch(r, Copied(r), [login[r] EXCEPT !.pc = "failed"])
    BY <1>4 DEF Write
  <2>3. At(r) = Restaction => Copied(r) = login[r].stages
    BY AtType
  <2>. QED
    BY <1>3, <1>4, <2>1, <2>2, <2>3 DEF Write, Pc
<1>5. CASE Delete(r)
  <2>1. None \in Content(At(r))
    BY AtType
  <2>2. \/ Touch(r, None, Advance(r, "delete", "done"))
        \/ Touch(r, None, [login[r] EXCEPT !.pc = "failed"])
    BY <1>5 DEF Delete
  <2>. QED
    BY <1>3, <2>1, <2>2 DEF Pc
<1>6. CASE Conflict(r) \/ Gone(r) \/ Fails(r)
  <2>1. login'[r] = [login[r] EXCEPT !.pc = "failed"] /\ copy' = copy
    BY <1>6 DEF Conflict, Gone, Fails, Refused, Becomes, TypeOK
  <2>2. login'[r].pc = "failed" /\ login'[r].stages = login[r].stages /\ login'[r].used = login[r].used
    BY <1>1, <2>1 DEF Work
  <2>. QED
    BY <2>1, <2>2
<1>7. CASE Call(r)
  <2>. DEFINE u == {copy[e] : e \in Range(copy[Restaction])} \ {None}
  <2>1. login'[r] = [login[r] EXCEPT !.pc = "list", !.used = u] /\ copy' = copy
    BY <1>7 DEF Call, Becomes, TypeOK
  <2>2. login'[r].pc = "list" /\ login'[r].stages = login[r].stages /\ login'[r].used = u
    BY <1>1, <2>1 DEF Work
  <2>. QED
    BY <1>7, <2>1, <2>2
<1>8. CASE List(r)
  <2>1. /\ login'[r] = [login[r] EXCEPT !.pc = "delete", !.stages = copy[Restaction], !.i = 1]
        /\ copy' = copy /\ copy[Restaction] # None
    BY <1>8 DEF List, Becomes, TypeOK
  <2>2. /\ login'[r].pc = "delete" /\ login'[r].stages = copy[Restaction]
        /\ login'[r].used = login[r].used
    BY <1>1, <2>1 DEF Work
  <2>. QED
    BY <2>1, <2>2
<1>9. CASE Skip(r)
  <2>1. login'[r] = Advance(r, "delete", "done") /\ copy' = copy
    BY <1>9 DEF Skip, Becomes, TypeOK
  <2>2. /\ login'[r].pc \in {"delete", "done"} /\ login'[r].stages = login[r].stages
        /\ login'[r].used = login[r].used
    BY <2>1, AdvanceType DEF Pc
  <2>. QED
    BY <2>1, <2>2
<1>. QED
  BY <1>2, <1>4, <1>5, <1>6, <1>7, <1>8, <1>9 DEF Proceed

\* A login's step keeps the stages that will be resolved its own.
LEMMA ProceedOwnStages ==
  ASSUME Inv, NEW r \in Login, Proceed(r)
  PROVE  OwnStages'
<1>. TypeOK
  BY DEF Inv
<1>1. /\ r \in Active /\ UNCHANGED <<restaction, edits, overlapped>>
      /\ \A q \in Login \ {r} : login'[q].pc = login[q].pc /\ login'[q].stages = login[q].stages
  BY ProceedShape DEF history
<1>2. ASSUME NEW q \in Login \ overlapped, login'[q].pc = "call"
      PROVE  copy'[Restaction] = login'[q].stages
  <2>1. CASE q = r
    BY <1>2, <2>1, ProceedEffect
  <2>2. CASE q # r
    <3>1. q \in Active
      BY <1>1, <1>2, <2>2 DEF Active, Over
    <3>2. Active = {q}
      BY <1>2, <3>1 DEF Inv, HistoryFaithful
    <3>. QED
      BY <1>1, <2>2, <3>2
  <2>. QED
    BY <2>1, <2>2
<1>3. ASSUME edits = 0
      PROVE  /\ \A q \in Login : login'[q].stages = restaction
             /\ copy'[Restaction] \in {None, restaction}
  <2>1. /\ \A q \in Login : login[q].stages = restaction
        /\ copy[Restaction] \in {None, restaction}
    BY <1>3 DEF Inv, OwnStages
  <2>2. login'[r].stages = restaction
    BY <2>1, ProceedEffect
  <2>3. copy'[Restaction] \in {None, restaction}
    <3>1. CASE At(r) = Restaction
      BY <2>1, <3>1, ProceedEffect, AtType
    <3>2. CASE At(r) # Restaction
      BY <2>1, <3>2, ProceedEffect DEF Object
    <3>. QED
      BY <3>1, <3>2
  <2>. QED
    BY <1>1, <2>1, <2>2, <2>3
<1>. QED
  BY <1>1, <1>2, <1>3 DEF OwnStages

\* What it writes is stale for nobody.
LEMMA ProceedCopiesFresh ==
  ASSUME Inv, NEW r \in Login, Proceed(r)
  PROVE  CopiesFresh'
<1>. TypeOK
  BY DEF Inv
<1>1. /\ r \in Active /\ UNCHANGED over
      /\ \A q \in Login \ {r} : /\ login'[q].pc = login[q].pc /\ login'[q].i = login[q].i
                                /\ login'[q].stages = login[q].stages
  BY ProceedShape DEF history
<1>2. ASSUME NEW q \in Login PROVE r \notin over[q] /\ Shared \notin over[q] /\ None \notin over[q]
  BY <1>1, LegacyResolveAssumption DEF Inv, HistoryFaithful, TypeOK, Active
<1>3. ASSUME NEW q \in Login, NEW e \in Endpoint, copy[e] \notin over[q]
      PROVE  copy'[e] \notin over[q]
  <2>1. e \in Object /\ e # Restaction
    BY LegacyResolveAssumption DEF Object
  <2>2. CASE e = At(r)
    <3>1. Copied(r) \in {Shared, r}
      BY <2>1, <2>2, AtType
    <3>2. copy'[e] \in {copy[e], Copied(r), None}
      BY <2>2, ProceedEffect
    <3>. QED
      BY <1>2, <1>3, <3>1, <3>2
  <2>3. CASE e # At(r)
    BY <1>3, <2>1, <2>3, ProceedEffect
  <2>. QED
    BY <2>2, <2>3
<1>4. ASSUME NEW q \in Login
      PROVE  /\ Len(login[q].stages) \in Nat
             /\ \A j \in 1..Len(login[q].stages) : login[q].stages[j] \in Endpoint
  <2>1. login[q].stages \in Seq(Endpoint)
    BY LegacyResolveAssumption DEF TypeOK, Work
  <2>. QED
    BY <2>1
<1>5. ASSUME NEW q \in Login \ {r}
      PROVE  /\ login'[q].pc \in {"look", "write"} => FreshBefore(q, login[q].i)'
             /\ login'[q].pc = "call" => FreshBefore(q, Len(login[q].stages) + 1)'
  <2>1. \A j \in 1..Len(login[q].stages) :
          copy[login[q].stages[j]] \notin over[q] => copy'[login[q].stages[j]] \notin over[q]
    BY <1>3, <1>4
  <2>. QED
    BY <1>1, <2>1 DEF FreshBefore, Inv, CopiesFresh
<1>6. \A j \in 1..Len(login[r].stages) :
        copy[login[r].stages[j]] \notin over[r] => copy'[login[r].stages[j]] \notin over[r]
  BY <1>3, <1>4
<1>7. login'[r].pc = "write" => FreshBefore(r, login[r].i)'
  BY <1>1, <1>6, ProceedEffect DEF FreshBefore, Inv, CopiesFresh
<1>8. ASSUME login'[r].pc = "look" PROVE FreshBefore(r, login[r].i)'
  <2>1. /\ login[r].pc = "write" /\ At(r) # Restaction /\ copy'[At(r)] = Copied(r)
        /\ login'[r].stages = login[r].stages /\ login'[r].i = login[r].i + 1
    BY <1>8, ProceedEffect
  <2>2. /\ login[r].i \in 1..Len(login[r].stages) /\ At(r) = login[r].stages[login[r].i]
        /\ Copied(r) \in {Shared, r}
    BY <2>1, AtType
  <2>3. copy'[login[r].stages[login[r].i]] \notin over[r]
    BY <1>2, <2>1, <2>2
  <2>4. ASSUME NEW j \in 1..Len(login[r].stages), j < login[r].i + 1
        PROVE  copy'[login[r].stages[j]] \notin over[r]
    <3>1. CASE j = login[r].i
      BY <2>3, <3>1
    <3>2. CASE j # login[r].i
      <4>1. j < login[r].i
        BY <2>2, <2>4, <3>2, <1>4
      <4>2. copy[login[r].stages[j]] \notin over[r]
        BY <2>1, <4>1 DEF FreshBefore, Inv, CopiesFresh
      <4>. QED
        BY <1>6, <4>2
    <3>. QED
      BY <3>1, <3>2
  <2>. QED
    BY <1>1, <2>1, <2>4 DEF FreshBefore
<1>9. ASSUME login'[r].pc = "call" PROVE FreshBefore(r, Len(login[r].stages) + 1)'
  <2>1. /\ login[r].pc = "write" /\ At(r) = Restaction /\ login'[r].stages = login[r].stages
    BY <1>9, ProceedEffect
  <2>2. login[r].i = Len(login[r].stages) + 1
    BY <2>1, AtType
  <2>3. FreshBefore(r, Len(login[r].stages) + 1)
    BY <2>1, <2>2 DEF Inv, CopiesFresh
  <2>. QED
    BY <1>1, <1>6, <2>1, <2>3 DEF FreshBefore
<1>. QED
  BY <1>5, <1>7, <1>8, <1>9 DEF CopiesFresh

\* So what snowplow resolves with is not stale.
LEMMA ProceedNoStaleToken ==
  ASSUME Inv, NEW r \in Login, Proceed(r)
  PROVE  NoStaleToken'
<1>. TypeOK
  BY DEF Inv
<1>1. /\ UNCHANGED <<over, edits, overlapped>>
      /\ \A q \in Login \ {r} : login'[q].used = login[q].used
  BY ProceedShape DEF history
<1>2. ASSUME edits = 0 \/ r \notin overlapped, Call(r)
      PROVE  {copy[e] : e \in Range(copy[Restaction])} \cap over[r] = {}
  <2>1. login[r].pc = "call" /\ copy[Restaction] # None
    BY <1>2 DEF Call
  <2>2. copy[Restaction] = login[r].stages
    BY <1>2, <2>1 DEF Inv, OwnStages
  <2>3. \A j \in 1..Len(login[r].stages) : copy[login[r].stages[j]] \notin over[r]
    <3>1. FreshBefore(r, Len(login[r].stages) + 1)
      BY <2>1 DEF Inv, CopiesFresh
    <3>2. Len(login[r].stages) \in Nat
      BY <2>1, <2>2, StagesType
    <3>. QED
      BY <3>1, <3>2 DEF FreshBefore
  <2>. QED
    BY <2>2, <2>3 DEF Range
<1>3. ASSUME edits = 0 \/ r \notin overlapped PROVE login'[r].used \cap over[r] = {}
  BY <1>2, <1>3, ProceedEffect DEF Inv, NoStaleToken
<1>. QED
  BY <1>1, <1>3 DEF Inv, NoStaleToken

--------------------------------------------------------------------------------
(* The theorems *)

\* The inductive invariant: what each login has copied so far is not stale, and
\* the stages that will be resolved are its own.
THEOREM Invariance == Spec => []Inv
<1>1. ASSUME Inv, [Next]_vars PROVE Inv'
  <2>1. CASE UNCHANGED vars
    BY <1>1, <2>1 DEF Inv, vars, TypeOK, HistoryFaithful, OwnStages, CopiesFresh, FreshBefore,
       NoStaleToken, Active
  <2>2. CASE Edit
    BY <1>1, <2>2, EditStep
  <2>3. ASSUME NEW r \in Login, Begin(r) PROVE Inv'
    BY <1>1, <2>3, BeginStep
  <2>4. ASSUME NEW r \in Login, Proceed(r) PROVE Inv'
    BY <1>1, <2>4, ProceedShape, ProceedHistory, ProceedOwnStages, ProceedCopiesFresh,
       ProceedNoStaleToken DEF Inv
  <2>. QED
    BY <1>1, <2>1, <2>2, <2>3, <2>4 DEF Next
<1>2. Inv /\ [Next]_vars => Inv'
  BY <1>1
<1>. QED
  BY InitInv, <1>2, PTL DEF Spec

\* For any number of logins and any RESTAction the state is well typed: a login's
\* position never leaves the stages it copies or deletes.
THEOREM TypeCorrect == Spec => []TypeOK
<1>1. Inv => TypeOK
  BY DEF Inv
<1>. QED
  BY Invariance, <1>1, PTL

\* However logins overlap and fail, and whatever copies they leave, snowplow never
\* resolves with the token of a login that was over when the asking one began
\* (copyRestActionWithEndpoints, CreateOrUpdate).
THEOREM TokensFresh == Spec => []NoStaleToken
<1>1. Inv => NoStaleToken
  BY DEF Inv
<1>. QED
  BY Invariance, <1>1, PTL

--------------------------------------------------------------------------------
(* A login by itself *)

Present(r, n) == \A j \in 1..Len(login[r].stages) : j < n => copy[login[r].stages[j]] # None
Cleared(r)    == \A j \in 1..Len(login[r].stages) : j < login[r].i => copy[login[r].stages[j]] = None
Left(r)       ==
  \A j \in 1..Len(login[r].stages) : j >= login[r].i =>
    copy[login[r].stages[j]] # None \/ \E k \in 1..(login[r].i - 1) : login[r].stages[k] = login[r].stages[j]

\* What there is of the copies while a login with no other beside it goes on.
ByItself(r) ==
  /\ login[r].pc = "delete" => Cleared(r)
  /\ r \notin troubled =>
       /\ login[r].pc # "failed"
       /\ login[r].pc = "write" => login[r].same /\ (login[r].found <=> copy[At(r)] # None)
       /\ login[r].pc \in {"look", "write"} => Present(r, login[r].i)
       /\ login[r].pc \in {"call", "list"} =>
            copy[Restaction] = login[r].stages /\ Present(r, Len(login[r].stages) + 1)
       /\ login[r].pc = "delete" => copy[Restaction] # None /\ Left(r)

AloneInv == \A r \in Login \ overlapped : ByItself(r)

LEMMA StagesOf ==
  ASSUME TypeOK, NEW r \in Login
  PROVE  /\ login[r].stages \in Stages /\ Len(login[r].stages) \in Nat /\ login[r].stages # None
         /\ login[r].i \in 1..(Len(login[r].stages) + 1) /\ login[r].i \in Nat
         /\ \A j \in 1..Len(login[r].stages) :
              /\ login[r].stages[j] \in Endpoint
              /\ login[r].stages[j] \in Object /\ login[r].stages[j] # Restaction
<1>1. login[r].stages \in Stages /\ login[r].stages \in Seq(Endpoint) /\ login[r].stages # None
  BY LegacyResolveAssumption DEF TypeOK, Work
<1>2. login[r].i \in 1..(Len(login[r].stages) + 1) /\ login[r].i \in Nat
  BY <1>1 DEF TypeOK, Work
<1>. QED
  BY <1>1, <1>2, LegacyResolveAssumption DEF Object

\* What it copies is there.
LEMMA WriteByItself ==
  ASSUME Inv, NEW r \in Login, ByItself(r), Write(r)
  PROVE  ByItself(r)'
<1>. TypeOK
  BY DEF Inv
<1>. DEFINE w == Advance(r, "look", "call")
<1>1. CASE Touch(r, Copied(r), [login[r] EXCEPT !.pc = "failed"]) /\ troubled' = troubled \cup {r}
  <2>1. login'[r].pc = "failed"
    BY <1>1 DEF Touch, TypeOK, Work
  <2>. QED
    BY <1>1, <2>1 DEF ByItself
<1>2. CASE Touch(r, Copied(r), w) /\ UNCHANGED troubled
  <2>1. Copied(r) \in Content(At(r)) /\ Copied(r) # None /\ At(r) \in Object
    BY AtType, StagesOf, LegacyResolveAssumption
  <2>2. w \in Work /\ w.i \in 1..(Len(w.stages) + 1) /\ w.stages = login[r].stages
    BY AdvanceType DEF Pc
  <2>3. /\ login'[r] = w /\ copy'[At(r)] = Copied(r)
        /\ \A o \in Object \ {At(r)} : copy'[o] = copy[o]
    BY <1>2, <2>1, <2>2, TouchType
  <2>4. login'[r].stages = login[r].stages
    BY <2>2, <2>3
  <2>5. ASSUME r \notin troubled, NEW j \in 1..Len(login[r].stages), j < login[r].i
        PROVE  copy'[login[r].stages[j]] # None
    <3>1. copy[login[r].stages[j]] # None
      BY <2>5 DEF ByItself, Present, Write
    <3>. QED
      BY <2>1, <2>3, <3>1, StagesOf
  <2>6. CASE At(r) = Restaction
    <3>1. w.pc = "call" /\ login[r].i = Len(login[r].stages) + 1 /\ Copied(r) = login[r].stages
      BY <2>6, AtType, AdvanceType DEF Pc
    <3>2. r \notin troubled => Present(r, Len(login[r].stages) + 1)'
      BY <2>4, <2>5, <3>1 DEF Present
    <3>. QED
      BY <1>2, <2>3, <2>4, <2>6, <3>1, <3>2 DEF ByItself
  <2>7. CASE At(r) # Restaction
    <3>1. /\ w.pc = "look" /\ w.i = login[r].i + 1
          /\ login[r].i \in 1..Len(login[r].stages) /\ At(r) = login[r].stages[login[r].i]
      BY <2>7, AtType, AdvanceType DEF Pc
    <3>2. ASSUME r \notin troubled, NEW j \in 1..Len(login[r].stages), j < login[r].i + 1
          PROVE  copy'[login[r].stages[j]] # None
      <4>1. j = login[r].i \/ j < login[r].i
        BY <3>2, StagesOf
      <4>. QED
        BY <2>1, <2>3, <2>5, <3>1, <3>2, <4>1
    <3>3. r \notin troubled => Present(r, login[r].i)'
      BY <2>3, <2>4, <3>1, <3>2 DEF Present
    <3>. QED
      BY <1>2, <2>3, <3>1, <3>3 DEF ByItself
  <2>. QED
    BY <2>6, <2>7
<1>. QED
  BY <1>1, <1>2 DEF Write

\* What is deleted is gone, and what is not yet is there.
LEMMA DeleteByItself ==
  ASSUME Inv, NEW r \in Login, ByItself(r), Delete(r) \/ Skip(r)
  PROVE  ByItself(r)'
<1>. TypeOK
  BY DEF Inv
<1>. DEFINE w == Advance(r, "delete", "done")
            i == login[r].i
            S == login[r].stages
<1>1. CASE login'[r].pc = "failed" /\ r \in troubled'
  BY <1>1 DEF ByItself
<1>2. CASE /\ login'[r] = w /\ UNCHANGED troubled
           /\ copy'[At(r)] = None
           /\ \A o \in Object \ {At(r)} : copy'[o] = copy[o]
  <2>1. w.stages = S
    BY AdvanceType DEF Pc
  <2>2. CASE At(r) = Restaction
    <3>1. w.pc = "done"
      BY <2>2, AdvanceType DEF Pc
    <3>. QED
      BY <1>2, <3>1 DEF ByItself
  <2>3. CASE At(r) # Restaction
    <3>1. w.pc = "delete" /\ w.i = i + 1 /\ i \in 1..Len(S) /\ At(r) = S[i]
      BY <2>3, AtType, AdvanceType DEF Pc
    <3>2. login[r].pc = "delete"
      BY DEF Delete, Skip
    <3>3. Cleared(r)'
      <4>1. ASSUME NEW j \in 1..Len(S), j < i + 1 PROVE copy'[S[j]] = None
        <5>1. j = i \/ j < i
          BY <4>1, StagesOf
        <5>2. j < i => copy[S[j]] = None
          BY <3>2 DEF ByItself, Cleared
        <5>. QED
          BY <1>2, <3>1, <5>1, <5>2, StagesOf
      <4>. QED
        BY <1>2, <2>1, <3>1, <4>1 DEF Cleared
    <3>4. ASSUME r \notin troubled PROVE copy'[Restaction] # None
      BY <1>2, <2>3, <3>2, <3>4 DEF ByItself, Object
    <3>5. ASSUME r \notin troubled PROVE Left(r)'
      <4>1. ASSUME NEW j \in 1..Len(S), j >= i + 1
            PROVE  copy'[S[j]] # None \/ \E k \in 1..i : S[k] = S[j]
        <5>1. copy[S[j]] # None \/ \E k \in 1..(i - 1) : S[k] = S[j]
          BY <3>1, <3>2, <3>5, <4>1 DEF ByItself, Left
        <5>2. CASE S[j] = S[i]
          BY <3>1, <5>2
        <5>3. CASE S[j] # S[i]
          <6>1. copy'[S[j]] = copy[S[j]]
            BY <1>2, <3>1, <5>3, StagesOf
          <6>. QED
            BY <3>1, <5>1, <6>1
        <5>. QED
          BY <5>2, <5>3
      <4>2. (i + 1) - 1 = i
        BY <3>1
      <4>. QED
        BY <1>2, <2>1, <3>1, <4>1, <4>2 DEF Left
    <3>. QED
      BY <1>2, <3>1, <3>3, <3>4, <3>5 DEF ByItself
  <2>. QED
    BY <2>2, <2>3
<1>3. CASE Skip(r)
  <2>1. login'[r] = w /\ UNCHANGED <<copy, troubled>> /\ login[r].pc = "delete" /\ Deleted(r)
    BY <1>3 DEF Skip, Becomes, TypeOK
  <2>2. PICK k \in 1..(i - 1) : S[k] = At(r)
    BY <2>1 DEF Deleted
  <2>3. k \in 1..Len(S) /\ k < i
    BY <2>2, StagesOf
  <2>4. copy[S[k]] = None
    BY <2>1, <2>3 DEF ByItself, Cleared
  <2>. QED
    BY <1>2, <2>1, <2>2, <2>4
<1>4. CASE Delete(r)
  <2>. DEFINE f == [login[r] EXCEPT !.pc = "failed"]
  <2>1. CASE Touch(r, None, f) /\ troubled' = troubled \cup {r}
    <3>1. login'[r].pc = "failed"
      BY <2>1 DEF Touch, TypeOK, Work
    <3>. QED
      BY <1>1, <2>1, <3>1
  <2>2. CASE Touch(r, None, w) /\ UNCHANGED troubled
    <3>1. w \in Work /\ w.i \in 1..(Len(w.stages) + 1) /\ None \in Content(At(r))
      BY AdvanceType, AtType DEF Pc
    <3>2. /\ login'[r] = w /\ copy'[At(r)] = None
          /\ \A o \in Object \ {At(r)} : copy'[o] = copy[o]
      BY <2>2, <3>1, TouchType
    <3>. QED
      BY <1>2, <2>2, <3>2
  <2>. QED
    BY <1>4, <2>1, <2>2 DEF Delete
<1>. QED
  BY <1>3, <1>4

\* Its other steps: none of them finds anything amiss.
LEMMA ProceedByItself ==
  ASSUME Inv, NEW r \in Login, ByItself(r), Proceed(r)
  PROVE  ByItself(r)'
<1>. TypeOK
  BY DEF Inv
<1>1. login[r] \in Work
  BY DEF TypeOK
<1>2. CASE Look(r)
  <2>. DEFINE w == [login[r] EXCEPT !.pc = "write", !.found = copy[At(r)] # None, !.same = TRUE]
  <2>1. login'[r] = w /\ UNCHANGED <<copy, troubled>> /\ login[r].pc = "look"
    BY <1>2 DEF Look, Becomes, TypeOK
  <2>2. /\ w.pc = "write" /\ w.stages = login[r].stages /\ w.i = login[r].i
        /\ (w.found <=> copy[At(r)] # None) /\ w.same
    BY <1>1 DEF Work
  <2>3. At(r)' = At(r)
    BY <2>1, <2>2 DEF At
  <2>. QED
    BY <2>1, <2>2, <2>3 DEF ByItself, Present
<1>3. CASE Conflict(r) \/ Gone(r)
  <2>1. login'[r].pc = "failed" /\ UNCHANGED troubled
    BY <1>1, <1>3 DEF Conflict, Gone, Refused, Becomes, TypeOK, Work
  <2>2. r \in troubled
    <3>1. SUFFICES ASSUME r \notin troubled PROVE FALSE
      OBVIOUS
    <3>2. CASE Conflict(r)
      BY <3>1, <3>2 DEF Conflict, MayWrite, ByItself
    <3>3. CASE Gone(r)
      <4>1. login[r].pc \in {"call", "list"} => copy[Restaction] # None
        BY <3>1, StagesOf DEF ByItself
      <4>2. ASSUME login[r].pc = "delete", ~Deleted(r) PROVE copy[At(r)] # None
        <5>1. CASE At(r) = Restaction
          BY <3>1, <4>2, <5>1 DEF ByItself
        <5>2. CASE At(r) # Restaction
          <6>1. login[r].i \in 1..Len(login[r].stages) /\ At(r) = login[r].stages[login[r].i]
            BY <5>2, AtType
          <6>2. Left(r) /\ login[r].i >= login[r].i
            BY <3>1, <4>2, <6>1 DEF ByItself
          <6>. QED
            BY <4>2, <6>1, <6>2 DEF Left, Deleted
        <5>. QED
          BY <5>1, <5>2
      <4>. QED
        BY <3>3, <4>1, <4>2 DEF Gone
    <3>. QED
      BY <1>3, <3>2, <3>3
  <2>. QED
    BY <2>1, <2>2 DEF ByItself
<1>4. CASE Fails(r)
  <2>1. login'[r].pc = "failed" /\ r \in troubled'
    BY <1>1, <1>4 DEF Fails, Becomes, TypeOK, Work
  <2>. QED
    BY <2>1 DEF ByItself
<1>5. CASE Call(r)
  <2>. DEFINE u == {copy[e] : e \in Range(copy[Restaction])} \ {None}
  <2>1. /\ login'[r] = [login[r] EXCEPT !.pc = "list", !.used = u]
        /\ UNCHANGED <<copy, troubled>> /\ login[r].pc = "call"
    BY <1>5 DEF Call, Becomes, TypeOK
  <2>2. login'[r].pc = "list" /\ login'[r].stages = login[r].stages
    BY <1>1, <2>1 DEF Work
  <2>. QED
    BY <2>1, <2>2 DEF ByItself, Present
<1>6. CASE List(r)
  <2>1. /\ login'[r] = [login[r] EXCEPT !.pc = "delete", !.stages = copy[Restaction], !.i = 1]
        /\ UNCHANGED <<copy, troubled>> /\ login[r].pc = "list" /\ copy[Restaction] # None
    BY <1>6 DEF List, Becomes, TypeOK
  <2>2. login'[r].pc = "delete" /\ login'[r].stages = copy[Restaction] /\ login'[r].i = 1
    BY <1>1, <2>1 DEF Work
  <2>3. Len(copy[Restaction]) \in Nat
    BY <2>1, StagesType
  <2>4. Cleared(r)'
    BY <2>2, <2>3 DEF Cleared
  <2>5. ASSUME r \notin troubled PROVE Left(r)'
    <3>1. copy[Restaction] = login[r].stages /\ Present(r, Len(login[r].stages) + 1)
      BY <2>1, <2>5 DEF ByItself
    <3>2. \A j \in 1..Len(login[r].stages) : copy[login[r].stages[j]] # None
      BY <2>3, <3>1 DEF Present
    <3>. QED
      BY <2>1, <2>2, <3>1, <3>2 DEF Left
  <2>. QED
    BY <2>1, <2>2, <2>4, <2>5 DEF ByItself
<1>. QED
  BY <1>2, <1>3, <1>4, <1>5, <1>6, WriteByItself, DeleteByItself DEF Proceed

LEMMA InitAlone == Init => AloneInv
  BY DEF Init, AloneInv, ByItself

\* Nobody else's step touches the copies while it is under way.
LEMMA AloneStep ==
  ASSUME Inv, AloneInv, Next
  PROVE  AloneInv'
<1>. TypeOK
  BY DEF Inv
<1>1. CASE Edit
  BY <1>1 DEF Edit, AloneInv, ByItself, Present, Cleared, Left, At
<1>2. ASSUME NEW q \in Login, Begin(q), NEW r \in Login \ overlapped' PROVE ByItself(r)'
  <2>1. UNCHANGED <<copy, troubled>> /\ \A p \in Login \ {q} : login'[p] = login[p]
    BY <1>2 DEF Begin, Becomes, TypeOK
  <2>2. CASE r = q
    <3>1. \/ login'[q].pc = "look" /\ login'[q].i = 1
          \/ login'[q].pc = "done"
      <4>. DEFINE u == [login[q] EXCEPT !.pc = "look", !.stages = restaction, !.i = 1]
                  v == [login[q] EXCEPT !.pc = "done", !.used = {q}]
      <4>1. login'[q] = u \/ login'[q] = v
        BY <1>2 DEF Begin, Becomes, TypeOK
      <4>2. u.pc = "look" /\ u.i = 1 /\ v.pc = "done"
        BY DEF TypeOK, Work
      <4>. QED
        BY <4>1, <4>2
    <3>2. Len(login'[q].stages) \in Nat
      BY <1>2, BeginStep, StagesOf DEF Inv, TypeOK, Work
    <3>. QED
      BY <2>2, <3>1, <3>2 DEF ByItself, Present
  <2>3. CASE r # q
    <3>1. r \notin Active /\ r \notin overlapped
      BY <1>2 DEF Begin
    <3>2. login'[r] = login[r] /\ login[r].pc \in {"new", "done", "failed"}
      BY <2>1, <2>3, <3>1 DEF Active, Over
    <3>. QED
      BY <2>1, <3>1, <3>2 DEF AloneInv, ByItself
  <2>. QED
    BY <2>2, <2>3
<1>3. ASSUME NEW q \in Login, Proceed(q), NEW r \in Login \ overlapped' PROVE ByItself(r)'
  <2>1. /\ q \in Active /\ overlapped' = overlapped
        /\ \A p \in Login \ {q} : login'[p].pc = login[p].pc
    BY <1>3, ProceedShape DEF history
  <2>2. CASE r = q
    BY <1>3, <2>1, <2>2, ProceedByItself DEF AloneInv
  <2>3. CASE r # q
    <3>1. r \notin Active
      BY <1>3, <2>1, <2>3 DEF Inv, HistoryFaithful
    <3>2. login'[r].pc = login[r].pc /\ login[r].pc \in {"new", "done", "failed"}
      BY <2>1, <2>3, <3>1 DEF Active, Over
    <3>3. r \notin troubled' => r \notin troubled
      BY <1>3 DEF Proceed, Look, Write, Conflict, Call, List, Skip, Delete, Gone, Fails, Refused
    <3>. QED
      BY <2>1, <3>2, <3>3 DEF AloneInv, ByItself
  <2>. QED
    BY <2>2, <2>3
<1>. QED
  BY <1>1, <1>2, <1>3 DEF Next, AloneInv

\* What a login by itself has copied is there until it deletes it.
THEOREM Solitude == Spec => []AloneInv
<1>1. Inv /\ AloneInv /\ [Next]_vars => AloneInv'
  <2>1. ASSUME AloneInv, UNCHANGED vars PROVE AloneInv'
    BY <2>1 DEF vars, AloneInv, ByItself, Present, Cleared, Left, At
  <2>. QED
    BY <2>1, AloneStep
<1>. QED
  BY InitAlone, <1>1, Invariance, PTL DEF Spec

\* A login that runs by itself, and whose calls succeed, succeeds, whatever was left
\* under the names of its copies (CreateOrUpdate, hasSecret).
THEOREM AloneSucceed == Spec => []AloneSucceeds
<1>1. AloneInv => AloneSucceeds
  BY DEF AloneInv, ByItself, AloneSucceeds
<1>. QED
  BY <1>1, Solitude, PTL

\* It leaves none of its copies, nor any left under their names
\* (deleteRestActionCopyWithEndpoints).
THEOREM CopiesCleanedUp == Spec => CleansUp
<1>1. ASSUME Inv, AloneInv, [Next]_vars, NEW r \in Login \ overlapped,
             login[r].pc = "delete", login'[r].pc = "done", NEW o \in Range(login[r].stages) \cup {Restaction}
      PROVE  copy'[o] = None
  <2>. TypeOK
    BY <1>1 DEF Inv
  <2>1. Proceed(r)
    <3>1. r \in Active /\ Active = {r}
      BY <1>1 DEF Active, Over, Inv, HistoryFaithful
    <3>2. ~UNCHANGED vars /\ ~Edit
      BY <1>1 DEF vars, Edit
    <3>3. ASSUME NEW q \in Login, Begin(q) PROVE FALSE
      BY <1>1, <3>3 DEF Begin, Becomes, TypeOK
    <3>4. ASSUME NEW q \in Login, Proceed(q) PROVE q = r
      BY <1>1, <3>1, <3>4, ProceedShape
    <3>. QED
      BY <1>1, <3>2, <3>3, <3>4 DEF Next
  <2>2. Delete(r) \/ Skip(r)
    BY <1>1, <2>1 DEF Proceed, Look, Write, Conflict, Call, List, Gone, Fails, Refused, Becomes, TypeOK, Work
  <2>. DEFINE w == Advance(r, "delete", "done")
  <2>3. /\ w \in Work /\ w.i \in 1..(Len(w.stages) + 1) /\ None \in Content(At(r))
        /\ At(r) # Restaction => w.pc = "delete"
    BY AdvanceType, AtType DEF Pc
  <2>4. ~Skip(r)
    <3>1. SUFFICES ASSUME Skip(r) PROVE FALSE
      OBVIOUS
    <3>2. login'[r] = w
      BY <3>1 DEF Skip, Becomes, TypeOK
    <3>3. At(r) = Restaction /\ Deleted(r)
      BY <1>1, <2>3, <3>1, <3>2 DEF Skip
    <3>4. PICK k \in 1..(login[r].i - 1) : login[r].stages[k] = Restaction
      BY <3>3 DEF Deleted
    <3>5. k \in 1..Len(login[r].stages)
      BY <3>4, StagesOf
    <3>. QED
      BY <3>4, <3>5, StagesOf
  <2>5. Touch(r, None, w)
    <3>1. ASSUME Touch(r, None, [login[r] EXCEPT !.pc = "failed"]) PROVE FALSE
      BY <1>1, <3>1 DEF Touch, TypeOK, Work
    <3>. QED
      BY <2>2, <2>4, <3>1 DEF Delete
  <2>6. /\ login'[r] = w /\ copy'[At(r)] = None
        /\ \A p \in Object \ {At(r)} : copy'[p] = copy[p]
    BY <2>3, <2>5, TouchType
  <2>7. At(r) = Restaction /\ login[r].i = Len(login[r].stages) + 1
    BY <1>1, <2>3, <2>6, AtType
  <2>8. CASE o = Restaction
    BY <2>6, <2>7, <2>8
  <2>9. CASE o \in Range(login[r].stages)
    <3>1. PICK j \in 1..Len(login[r].stages) : o = login[r].stages[j]
      <4>1. login[r].stages \in Seq(Endpoint)
        BY StagesOf, LegacyResolveAssumption
      <4>. QED
        BY <2>9, <4>1 DEF Range
    <3>2. j < login[r].i
      BY <2>7, StagesOf
    <3>3. copy[o] = None
      BY <1>1, <3>1, <3>2 DEF AloneInv, ByItself, Cleared
    <3>. QED
      BY <2>6, <2>7, <3>1, <3>3, StagesOf
  <2>. QED
    BY <1>1, <2>8, <2>9
<1>2. Inv /\ AloneInv /\ [Next]_vars =>
        [\A r \in Login \ overlapped :
           login[r].pc = "delete" /\ login'[r].pc = "done" =>
             \A o \in Range(login[r].stages) \cup {Restaction} : copy'[o] = None]_vars
  BY <1>1
<1>. QED
  BY <1>2, Invariance, Solitude, PTL DEF Spec, CleansUp

--------------------------------------------------------------------------------
(* Logins that all succeed *)

\* Who has still to delete the RESTAction's copy, and who an endpoint's.
Holds(r) == login[r].pc \in {"call", "list", "delete"}

Owes(r, e) ==
  \/ login[r].pc \in {"look", "write"} /\ \E j \in 1..(login[r].i - 1) : login[r].stages[j] = e
  \/ login[r].pc \in {"call", "list"} /\ \E j \in 1..Len(login[r].stages) : login[r].stages[j] = e
  \/ /\ login[r].pc = "delete"
     /\ \E j \in 1..Len(login[r].stages) : login[r].stages[j] = e
     /\ \A k \in 1..(login[r].i - 1) : login[r].stages[k] # e

\* More have to delete the RESTAction's copy than there are copies: however they go
\* on, one of them fails.
Doomed ==
  \/ \E r, q \in Login : r # q /\ Holds(r) /\ Holds(q)
  \/ copy[Restaction] = None /\ \E r \in Login : Holds(r)

\* Each copy has somebody who will delete it.
Tidy ==
  /\ copy[Restaction] # None => \E r \in Login : Holds(r)
  /\ \A r \in Login : login[r].pc \in {"call", "list"} => copy[Restaction] = login[r].stages
  /\ \A e \in Endpoint : copy[e] # None => \E r \in Login : Owes(r, e)

NoneFailed == \A r \in Login : login[r].pc # "failed"

DebtInv == NoneFailed => Doomed \/ Tidy

\* What a step of a login comes to unless it fails.
LEMMA Outcome ==
  ASSUME Inv, NEW r \in Login, Proceed(r), login'[r].pc # "failed"
  PROVE  LET w == login[r]  v == login'[r] IN
         \/ w.pc = "look" /\ v.pc = "write" /\ v.stages = w.stages /\ v.i = w.i /\ copy' = copy
         \/ /\ w.pc = "write" /\ At(r) # Restaction /\ v.pc = "look" /\ v.stages = w.stages /\ v.i = w.i + 1
         \/ /\ w.pc = "write" /\ At(r) = Restaction /\ v.pc = "call" /\ v.stages = w.stages
            /\ copy'[Restaction] = w.stages
         \/ w.pc = "call" /\ v.pc = "list" /\ v.stages = w.stages /\ copy' = copy
         \/ w.pc = "list" /\ v.pc = "delete" /\ v.stages = copy[Restaction] /\ v.i = 1 /\ copy' = copy
         \/ /\ w.pc = "delete" /\ At(r) # Restaction /\ Deleted(r)
            /\ v.pc = "delete" /\ v.stages = w.stages /\ v.i = w.i + 1 /\ copy' = copy
         \/ /\ w.pc = "delete" /\ At(r) # Restaction
            /\ v.pc = "delete" /\ v.stages = w.stages /\ v.i = w.i + 1 /\ copy'[At(r)] = None
         \/ /\ w.pc = "delete" /\ At(r) = Restaction /\ copy[Restaction] # None
            /\ v.pc = "done" /\ copy'[Restaction] = None
<1>. TypeOK
  BY DEF Inv
<1>1. login[r] \in Work
  BY DEF TypeOK
<1>2. CASE Look(r)
  BY <1>1, <1>2 DEF Look, Becomes, TypeOK, Work
<1>3. CASE Conflict(r) \/ Gone(r) \/ Fails(r)
  BY <1>1, <1>3 DEF Conflict, Gone, Fails, Refused, Becomes, TypeOK, Work
<1>4. CASE Call(r)
  <2>. DEFINE u == {copy[e] : e \in Range(copy[Restaction])} \ {None}
              v == [login[r] EXCEPT !.pc = "list", !.used = u]
  <2>1. login'[r] = v /\ copy' = copy /\ login[r].pc = "call"
    BY <1>4 DEF Call, Becomes, TypeOK
  <2>2. v.pc = "list" /\ v.stages = login[r].stages
    BY <1>1 DEF Work
  <2>. QED
    BY <2>1, <2>2
<1>5. CASE List(r)
  BY <1>1, <1>5 DEF List, Becomes, TypeOK, Work
<1>6. CASE Write(r)
  <2>. DEFINE v == Advance(r, "look", "call")
  <2>1. Touch(r, Copied(r), v)
    BY <1>1, <1>6 DEF Write, Touch, TypeOK, Work
  <2>2. v \in Work /\ v.i \in 1..(Len(v.stages) + 1) /\ Copied(r) \in Content(At(r))
    BY AdvanceType, AtType DEF Pc
  <2>3. login'[r] = v /\ copy'[At(r)] = Copied(r)
    BY <2>1, <2>2, TouchType
  <2>. QED
    BY <1>6, <2>3, AdvanceType, AtType DEF Write, Pc
<1>7. CASE Skip(r)
  <2>1. login'[r] = Advance(r, "delete", "done") /\ copy' = copy /\ login[r].pc = "delete" /\ Deleted(r)
    BY <1>7 DEF Skip, Becomes, TypeOK
  <2>2. At(r) # Restaction
    <3>1. PICK k \in 1..(login[r].i - 1) : login[r].stages[k] = At(r)
      BY <2>1 DEF Deleted
    <3>. QED
      BY <3>1, StagesOf
  <2>. QED
    BY <2>1, <2>2, AdvanceType DEF Pc
<1>8. CASE Delete(r)
  <2>. DEFINE v == Advance(r, "delete", "done")
  <2>1. Touch(r, None, v)
    BY <1>1, <1>8 DEF Delete, Touch, TypeOK, Work
  <2>2. v \in Work /\ v.i \in 1..(Len(v.stages) + 1) /\ None \in Content(At(r))
    BY AdvanceType, AtType DEF Pc
  <2>3. login'[r] = v /\ copy'[At(r)] = None
    BY <2>1, <2>2, TouchType
  <2>. QED
    BY <1>8, <2>3, AdvanceType DEF Delete, Pc
<1>. QED
  BY <1>2, <1>3, <1>4, <1>5, <1>6, <1>7, <1>8 DEF Proceed

\* Nobody gets out of a doomed state but by failing.
LEMMA DoomStays ==
  ASSUME Inv, NEW r \in Login, Proceed(r), login'[r].pc # "failed", Doomed
  PROVE  Doomed'
<1>. TypeOK
  BY DEF Inv
<1>1. /\ \A q \in Login \ {r} : login'[q].pc = login[q].pc
      /\ \A o \in Object \ {At(r)} : copy'[o] = copy[o]
  BY ProceedShape, ProceedEffect
<1>2. Restaction \in Object
  BY DEF Object
<1>3. CASE (Holds(r)' <=> Holds(r)) /\ copy'[Restaction] = copy[Restaction]
  BY <1>1, <1>3 DEF Doomed, Holds
<1>4. CASE Holds(r)' /\ ~Holds(r)
  <2>1. PICK q \in Login : Holds(q)
    BY DEF Doomed
  <2>. QED
    BY <1>1, <1>4, <2>1 DEF Doomed, Holds
<1>5. CASE login[r].pc = "delete" /\ copy[Restaction] # None /\ copy'[Restaction] = None
  <2>1. PICK q \in Login \ {r} : Holds(q)
    BY <1>5 DEF Doomed
  <2>. QED
    BY <1>1, <1>5, <2>1 DEF Doomed, Holds
<1>. QED
  BY <1>1, <1>2, <1>3, <1>4, <1>5, Outcome DEF Holds

\* A tidy state stays so, or comes to be doomed.
LEMMA TidyStays ==
  ASSUME Inv, NEW r \in Login, Proceed(r), login'[r].pc # "failed", Tidy, ~Doomed
  PROVE  Doomed' \/ Tidy'
<1>. TypeOK
  BY DEF Inv
<1>. DEFINE w == login[r]
            v == login'[r]
            Rest == \A q \in Login \ {r} : (Holds(q)' <=> Holds(q)) /\ \A e \in Endpoint : Owes(q, e)' <=> Owes(q, e)
<1>1. /\ \A q \in Login \ {r} : /\ login'[q].pc = login[q].pc /\ login'[q].i = login[q].i
                                /\ login'[q].stages = login[q].stages
      /\ \A o \in Object \ {At(r)} : copy'[o] = copy[o]
  BY ProceedShape, ProceedEffect
<1>2. Rest
  BY <1>1 DEF Holds, Owes
<1>3. Restaction \in Object /\ Endpoint \subseteq Object /\ Restaction \notin Endpoint
  BY LegacyResolveAssumption DEF Object
<1>4. Holds(r) => /\ copy[Restaction] # None
                  /\ \A q \in Login \ {r} : ~Holds(q)
  BY DEF Doomed
<1>5. Len(w.stages) \in Nat /\ w.i \in Nat /\ w.i \in 1..(Len(w.stages) + 1)
  BY StagesOf
\* Enough for every step that neither writes nor deletes the RESTAction's copy.
<1>6. ASSUME Holds(r)' <=> Holds(r), copy'[Restaction] = copy[Restaction],
             v.pc \in {"call", "list"} => copy[Restaction] = v.stages,
             \A e \in Endpoint : copy'[e] # None /\ Owes(r, e) => Owes(r, e)',
             \A e \in Endpoint : copy'[e] # None /\ copy[e] = None => Owes(r, e)'
      PROVE  Tidy'
  <2>1. copy'[Restaction] # None => \E q \in Login : Holds(q)'
    BY <1>2, <1>6 DEF Tidy
  <2>2. \A q \in Login : login'[q].pc \in {"call", "list"} => copy'[Restaction] = login'[q].stages
    BY <1>1, <1>6 DEF Tidy
  <2>3. ASSUME NEW e \in Endpoint, copy'[e] # None PROVE \E q \in Login : Owes(q, e)'
    BY <1>2, <1>6, <2>3 DEF Tidy
  <2>. QED
    BY <2>1, <2>2, <2>3 DEF Tidy
<1>7. CASE w.pc = "look" /\ v.pc = "write" /\ v.stages = w.stages /\ v.i = w.i /\ copy' = copy
  <2>1. \A e \in Endpoint : Owes(r, e) => Owes(r, e)'
    BY <1>7 DEF Owes
  <2>. QED
    BY <1>6, <1>7, <2>1 DEF Holds
<1>8. CASE w.pc = "write" /\ At(r) # Restaction /\ v.pc = "look" /\ v.stages = w.stages /\ v.i = w.i + 1
  <2>1. w.i \in 1..Len(w.stages) /\ At(r) = w.stages[w.i]
    BY <1>8, AtType
  <2>2. (w.i + 1) - 1 = w.i /\ w.i \in 1..w.i /\ 1..(w.i - 1) \subseteq 1..w.i
    BY <1>5, <2>1
  <2>3. \A e \in Endpoint : Owes(r, e) \/ e = At(r) => Owes(r, e)'
    BY <1>8, <2>1, <2>2 DEF Owes
  <2>4. copy'[Restaction] = copy[Restaction] /\ \A e \in Endpoint : e # At(r) => copy'[e] = copy[e]
    BY <1>1, <1>3, <1>8
  <2>. QED
    BY <1>6, <1>8, <2>3, <2>4 DEF Holds
<1>9. CASE /\ w.pc = "write" /\ At(r) = Restaction /\ v.pc = "call" /\ v.stages = w.stages
           /\ copy'[Restaction] = w.stages
  <2>1. Holds(r)'
    BY <1>9 DEF Holds
  <2>2. CASE \E q \in Login \ {r} : Holds(q)
    BY <1>2, <2>1, <2>2 DEF Doomed
  <2>3. CASE \A q \in Login \ {r} : ~Holds(q)
    <3>1. \A q \in Login : login'[q].pc \in {"call", "list"} => copy'[Restaction] = login'[q].stages
      BY <1>1, <1>9, <2>3 DEF Holds
    <3>2. w.i - 1 = Len(w.stages)
      BY <1>5, <1>9, AtType
    <3>3. \A e \in Endpoint : Owes(r, e) => Owes(r, e)'
      BY <1>9, <3>2 DEF Owes
    <3>4. ASSUME NEW e \in Endpoint, copy'[e] # None PROVE \E q \in Login : Owes(q, e)'
      <4>1. copy'[e] = copy[e]
        BY <1>1, <1>3, <1>9
      <4>. QED
        BY <1>2, <3>3, <3>4, <4>1 DEF Tidy
    <3>. QED
      BY <2>1, <3>1, <3>4 DEF Tidy
  <2>. QED
    BY <2>2, <2>3
<1>10. CASE w.pc = "call" /\ v.pc = "list" /\ v.stages = w.stages /\ copy' = copy
  <2>1. \A e \in Endpoint : Owes(r, e) => Owes(r, e)'
    BY <1>10 DEF Owes
  <2>2. copy[Restaction] = v.stages
    BY <1>10 DEF Tidy
  <2>. QED
    BY <1>6, <1>10, <2>1, <2>2 DEF Holds
<1>11. CASE w.pc = "list" /\ v.pc = "delete" /\ v.stages = copy[Restaction] /\ v.i = 1 /\ copy' = copy
  <2>1. v.stages = w.stages
    BY <1>11 DEF Tidy
  <2>2. \A e \in Endpoint : Owes(r, e) => Owes(r, e)'
    BY <1>11, <2>1 DEF Owes
  <2>. QED
    BY <1>6, <1>11, <2>2 DEF Holds
<1>12. ASSUME w.pc = "delete", At(r) # Restaction, v.pc = "delete", v.stages = w.stages, v.i = w.i + 1,
              \/ Deleted(r) /\ copy' = copy
              \/ copy'[At(r)] = None
       PROVE  Tidy'
  <2>1. w.i \in 1..Len(w.stages) /\ At(r) = w.stages[w.i] /\ At(r) \in Endpoint
    BY <1>12, AtType, StagesOf
  <2>2. (w.i + 1) - 1 = w.i /\ \A k \in 1..w.i : k = w.i \/ k \in 1..(w.i - 1)
    BY <1>5, <2>1
  <2>3. ASSUME NEW e \in Endpoint, Owes(r, e), e # At(r) PROVE Owes(r, e)'
    BY <1>12, <2>1, <2>2, <2>3 DEF Owes
  <2>4. Deleted(r) => ~Owes(r, At(r))
    BY <1>12 DEF Deleted, Owes
  <2>5. copy'[Restaction] = copy[Restaction] /\ \A e \in Endpoint : e # At(r) => copy'[e] = copy[e]
    BY <1>1, <1>3, <1>12
  <2>6. \A e \in Endpoint : copy'[e] # None /\ Owes(r, e) => Owes(r, e)'
    BY <1>12, <2>3, <2>4
  <2>7. \A e \in Endpoint : ~(copy'[e] # None /\ copy[e] = None)
    BY <1>12, <2>5
  <2>. QED
    BY <1>6, <1>12, <2>5, <2>6, <2>7 DEF Holds
<1>13. CASE /\ w.pc = "delete" /\ At(r) = Restaction /\ copy[Restaction] # None
            /\ v.pc = "done" /\ copy'[Restaction] = None
  <2>1. \A q \in Login : ~Holds(q)'
    BY <1>2, <1>4, <1>13 DEF Holds
  <2>2. w.i - 1 = Len(w.stages)
    BY <1>5, <1>13, AtType
  <2>3. \A e \in Endpoint : ~Owes(r, e)
    BY <1>13, <2>2 DEF Owes
  <2>4. ASSUME NEW e \in Endpoint, copy'[e] # None PROVE \E q \in Login : Owes(q, e)'
    <3>1. copy'[e] = copy[e]
      BY <1>1, <1>3, <1>13
    <3>. QED
      BY <1>2, <2>3, <2>4, <3>1 DEF Tidy
  <2>. QED
    BY <1>13, <2>1, <2>4 DEF Tidy, Holds
<1>. QED
  BY <1>7, <1>8, <1>9, <1>10, <1>11, <1>12, <1>13, Outcome

LEMMA DebtStep ==
  ASSUME Inv, DebtInv, Next
  PROVE  DebtInv'
<1>. TypeOK
  BY DEF Inv
<1>1. CASE Edit
  BY <1>1 DEF Edit, DebtInv, NoneFailed, Doomed, Tidy, Holds, Owes
<1>2. ASSUME NEW r \in Login, Begin(r) PROVE DebtInv'
  <2>1. login[r].pc = "new" /\ copy' = copy /\ \A q \in Login \ {r} : login'[q] = login[q]
    BY <1>2 DEF Begin, Becomes, TypeOK
  <2>2. login'[r].pc \in {"look", "done"}
    <3>. DEFINE u == [login[r] EXCEPT !.pc = "look", !.stages = restaction, !.i = 1]
                v == [login[r] EXCEPT !.pc = "done", !.used = {r}]
    <3>1. login'[r] = u \/ login'[r] = v
      BY <1>2 DEF Begin, Becomes, TypeOK
    <3>2. u.pc = "look" /\ v.pc = "done"
      BY DEF TypeOK, Work
    <3>. QED
      BY <3>1, <3>2
  <2>3. ~Holds(r) /\ ~Holds(r)' /\ \A e \in Endpoint : ~Owes(r, e)
    BY <2>1, <2>2 DEF Holds, Owes
  <2>4. \A q \in Login \ {r} : (Holds(q)' <=> Holds(q)) /\ \A e \in Endpoint : Owes(q, e)' <=> Owes(q, e)
    BY <2>1 DEF Holds, Owes
  <2>5. NoneFailed' => NoneFailed
    BY <2>1, <2>2 DEF NoneFailed
  <2>6. Doomed => Doomed'
    BY <2>1, <2>3, <2>4 DEF Doomed
  <2>7. Tidy => Tidy'
    <3>1. SUFFICES ASSUME Tidy PROVE Tidy'
      OBVIOUS
    <3>2. copy'[Restaction] # None => \E q \in Login : Holds(q)'
      BY <2>1, <2>3, <2>4, <3>1 DEF Tidy
    <3>3. \A q \in Login : login'[q].pc \in {"call", "list"} => copy'[Restaction] = login'[q].stages
      BY <2>1, <2>2, <3>1 DEF Tidy
    <3>4. \A e \in Endpoint : copy'[e] # None => \E q \in Login : Owes(q, e)'
      BY <2>1, <2>3, <2>4, <3>1 DEF Tidy
    <3>. QED
      BY <3>2, <3>3, <3>4 DEF Tidy
  <2>. QED
    BY <2>5, <2>6, <2>7 DEF DebtInv
<1>3. ASSUME NEW r \in Login, Proceed(r) PROVE DebtInv'
  <2>1. SUFFICES ASSUME NoneFailed' PROVE Doomed' \/ Tidy'
    BY DEF DebtInv
  <2>2. login'[r].pc # "failed" /\ login[r].pc # "failed" /\ \A q \in Login \ {r} : login'[q].pc = login[q].pc
    BY <1>3, <2>1, ProceedShape DEF NoneFailed, Active, Over
  <2>3. Doomed \/ Tidy
    BY <2>1, <2>2 DEF DebtInv, NoneFailed
  <2>. QED
    BY <1>3, <2>2, <2>3, DoomStays, TidyStays
<1>. QED
  BY <1>1, <1>2, <1>3 DEF Next

\* As long as no login failed each copy has a login that will delete it, or one of
\* those that go by the RESTAction's copy is bound to fail.
THEOREM Debts == Spec => []DebtInv
<1>1. ASSUME Init PROVE DebtInv
  <2>1. Tidy
    BY <1>1, LegacyResolveAssumption DEF Init, Tidy, Object
  <2>. QED
    BY <2>1 DEF DebtInv
<1>2. Inv /\ DebtInv /\ [Next]_vars => DebtInv'
  <2>1. ASSUME DebtInv, UNCHANGED vars PROVE DebtInv'
    BY <2>1 DEF vars, DebtInv, NoneFailed, Doomed, Tidy, Holds, Owes
  <2>. QED
    BY <2>1, DebtStep
<1>. QED
  BY <1>1, <1>2, Invariance, PTL DEF Spec

\* When every login succeeded no copy is left, however they overlapped and the
\* RESTAction changed meanwhile (deleteRestActionCopyWithEndpoints).
THEOREM NothingLeft == Spec => []SuccessLeavesNoCopy
<1>1. ASSUME DebtInv, Idle({"done"}) PROVE NoCopies
  <2>1. NoneFailed /\ \A r \in Login : ~Holds(r) /\ \A e \in Endpoint : ~Owes(r, e)
    BY <1>1 DEF Idle, NoneFailed, Holds, Owes
  <2>2. Tidy
    BY <1>1, <2>1 DEF DebtInv, Doomed
  <2>. QED
    BY <2>1, <2>2 DEF Tidy, NoCopies, Object
<1>2. DebtInv => SuccessLeavesNoCopy
  BY <1>1 DEF SuccessLeavesNoCopy
<1>. QED
  BY <1>2, Debts, PTL

--------------------------------------------------------------------------------
(* Logins that undo each other *)

\* No edit, no failed call, and no login has succeeded yet.
Unspoiled == edits = 0 /\ troubled = {} /\ \A r \in Login : login[r].pc # "done"

\* The login that has deleted the most: what it has yet to delete is there.
Leads(r) ==
  /\ login[r].pc = "delete" /\ copy[Restaction] # None /\ Left(r)
  /\ \A q \in Login : login[q].pc = "delete" => login[q].i <= login[r].i

\* A login that does not delete yet, and what it has copied is there.
Gathers(r) ==
  /\ login[r].pc # "delete"
  /\ login[r].pc \in {"look", "write"} => Present(r, login[r].i)
  /\ login[r].pc \in {"call", "list"} => Present(r, Len(login[r].stages) + 1) /\ copy[Restaction] # None

\* Nobody has begun to delete, and one login is not about to meet a conflict: who
\* wrote last.
Gathering ==
  /\ \A r \in Login : Gathers(r)
  /\ \/ \A r \in Login : login[r].pc = "new"
     \/ \E r \in Active : login[r].pc = "write" => MayWrite(r)

RaceInv == Unspoiled => Gathering \/ \E r \in Login : Leads(r)

\* Without a failed call a login fails for what it found in the copies.
LEMMA Failure ==
  ASSUME Inv, NEW r \in Login, Proceed(r), troubled' = {}
  PROVE  /\ troubled = {}
         /\ login'[r].pc = "failed" =>
              /\ Conflict(r) \/ Gone(r)
              /\ copy' = copy /\ \A q \in Login \ {r} : login'[q] = login[q]
<1>. TypeOK
  BY DEF Inv
<1>1. login[r] \in Work
  BY DEF TypeOK
<1>2. troubled = {}
  BY DEF Proceed, Look, Write, Conflict, Call, List, Skip, Delete, Gone, Fails, Refused
<1>3. CASE Conflict(r) \/ Gone(r)
  BY <1>2, <1>3 DEF Conflict, Gone, Refused, Becomes, TypeOK
<1>4. CASE Look(r)
  BY <1>1, <1>2, <1>4 DEF Look, Becomes, TypeOK, Work
<1>5. CASE Call(r)
  <2>. DEFINE u == {copy[e] : e \in Range(copy[Restaction])} \ {None}
              v == [login[r] EXCEPT !.pc = "list", !.used = u]
  <2>1. login'[r] = v
    BY <1>5 DEF Call, Becomes, TypeOK
  <2>2. v.pc = "list"
    BY <1>1 DEF Work
  <2>. QED
    BY <1>2, <2>1, <2>2
<1>6. CASE List(r)
  BY <1>1, <1>2, <1>6 DEF List, Becomes, TypeOK, Work
<1>7. CASE Skip(r)
  <2>1. login'[r] = Advance(r, "delete", "done")
    BY <1>7 DEF Skip, Becomes, TypeOK
  <2>. QED
    BY <1>2, <2>1, AdvanceType DEF Pc
<1>8. CASE Write(r)
  <2>1. Touch(r, Copied(r), Advance(r, "look", "call"))
    BY <1>8 DEF Write
  <2>2. login'[r] = Advance(r, "look", "call")
    BY <2>1 DEF Touch
  <2>. QED
    BY <1>2, <2>2, AdvanceType DEF Pc
<1>9. CASE Delete(r)
  <2>1. Touch(r, None, Advance(r, "delete", "done"))
    BY <1>9 DEF Delete
  <2>2. login'[r] = Advance(r, "delete", "done")
    BY <2>1 DEF Touch
  <2>. QED
    BY <1>2, <2>2, AdvanceType DEF Pc
<1>10. ~Fails(r)
  BY DEF Fails
<1>. QED
  BY <1>3, <1>4, <1>5, <1>6, <1>7, <1>8, <1>9, <1>10 DEF Proceed

\* The one that leads goes on deleting, until it succeeds.
LEMMA LeaderStep ==
  ASSUME Inv, NEW r \in Login, Proceed(r), Leads(r), Unspoiled'
  PROVE  Leads(r)'
<1>. TypeOK
  BY DEF Inv
<1>. DEFINE w == login[r]
            v == login'[r]
<1>1. Len(w.stages) \in Nat /\ w.i \in Nat /\ w.i \in 1..(Len(w.stages) + 1)
  BY StagesOf
<1>2. /\ \A q \in Login \ {r} : login'[q].pc = login[q].pc /\ login'[q].i = login[q].i
      /\ \A o \in Object \ {At(r)} : copy'[o] = copy[o]
  BY ProceedShape, ProceedEffect
<1>3. w.pc = "delete" /\ copy[Restaction] # None /\ Left(r)
  BY DEF Leads
<1>4. Restaction \in Object
  BY DEF Object
<1>5. v.pc # "failed"
  <2>1. SUFFICES ASSUME v.pc = "failed" PROVE FALSE
    OBVIOUS
  <2>2. ~Deleted(r) /\ copy[At(r)] = None
    BY <1>3, <2>1, Failure DEF Unspoiled, Conflict, Gone
  <2>3. w.i \in 1..Len(w.stages) /\ At(r) = w.stages[w.i]
    BY <1>3, <2>2, AtType
  <2>4. PICK k \in 1..(w.i - 1) : w.stages[k] = w.stages[w.i]
    BY <1>1, <1>3, <2>2, <2>3 DEF Left
  <2>. QED
    BY <2>2, <2>3, <2>4 DEF Deleted
<1>6. /\ At(r) # Restaction /\ v.pc = "delete" /\ v.stages = w.stages /\ v.i = w.i + 1
      /\ copy' = copy \/ copy'[At(r)] = None
  BY <1>3, <1>5, Outcome DEF Unspoiled
<1>7. w.i \in 1..Len(w.stages) /\ At(r) = w.stages[w.i] /\ At(r) \in Endpoint
  BY <1>6, AtType, StagesOf
<1>8. copy'[Restaction] # None
  BY <1>2, <1>3, <1>4, <1>6
<1>9. Left(r)'
  <2>1. SUFFICES ASSUME NEW j \in 1..Len(w.stages), j >= w.i + 1
                 PROVE  copy'[w.stages[j]] # None \/ \E k \in 1..w.i : w.stages[k] = w.stages[j]
    BY <1>1, <1>6 DEF Left
  <2>2. j >= w.i /\ w.stages[j] \in Object /\ w.i \in 1..w.i /\ 1..(w.i - 1) \subseteq 1..w.i
    BY <1>1, <1>7, <2>1, StagesOf
  <2>3. copy[w.stages[j]] # None \/ \E k \in 1..w.i : w.stages[k] = w.stages[j]
    BY <1>3, <2>2 DEF Left
  <2>4. w.stages[j] # At(r) => copy'[w.stages[j]] = copy[w.stages[j]]
    BY <1>2, <2>2
  <2>. QED
    BY <1>7, <2>2, <2>3, <2>4
<1>10. \A q \in Login : login'[q].pc = "delete" => login'[q].i <= v.i
  <2>1. ASSUME NEW q \in Login \ {r}, login'[q].pc = "delete" PROVE login'[q].i <= v.i
    <3>1. login[q].i <= w.i /\ login[q].i \in Nat
      BY <1>2, <2>1, StagesOf DEF Leads
    <3>. QED
      BY <1>1, <1>2, <1>6, <3>1
  <2>. QED
    BY <1>1, <1>6, <2>1
<1>. QED
  BY <1>6, <1>8, <1>9, <1>10 DEF Leads

\* It keeps the lead when another login takes a step, or that one, no further behind,
\* has it too.
LEMMA LeadStands ==
  ASSUME Inv, NEW r \in Login, Proceed(r), NEW q \in Login \ {r}, Leads(q), Unspoiled'
  PROVE  Leads(q)' \/ Leads(r)'
<1>. TypeOK
  BY DEF Inv
<1>. DEFINE w == login[r]
            v == login'[r]
            u == login[q]
<1>1. Len(w.stages) \in Nat /\ w.i \in Nat /\ w.i \in 1..(Len(w.stages) + 1)
  BY StagesOf
<1>2. Len(u.stages) \in Nat /\ u.i \in Nat /\ u.i \in 1..(Len(u.stages) + 1)
  BY StagesOf
<1>3. /\ \A p \in Login \ {r} : /\ login'[p].pc = login[p].pc /\ login'[p].i = login[p].i
                                /\ login'[p].stages = login[p].stages
      /\ \A o \in Object \ {At(r)} : copy'[o] = copy[o]
  BY ProceedShape, ProceedEffect
<1>4. w.stages = u.stages
  <2>1. edits = 0
    BY ProceedShape DEF Unspoiled, history
  <2>. QED
    BY <2>1 DEF Inv, OwnStages
<1>5. Restaction \in Object
  BY DEF Object
<1>6. CASE w.pc = "delete" /\ w.i = u.i
  <2>1. Leads(r)
    BY <1>4, <1>6 DEF Leads, Left
  <2>. QED
    BY <2>1, LeaderStep
<1>7. CASE ~(w.pc = "delete" /\ w.i = u.i)
  <2>1. w.pc = "delete" => w.i < u.i
    BY <1>1, <1>2, <1>7 DEF Leads
  \* What a step takes away the leader has deleted before.
  <2>2. ASSUME NEW o \in Object, copy[o] # None, copy'[o] = None
        PROVE  w.pc = "delete" /\ w.i \in 1..Len(w.stages) /\ o = w.stages[w.i]
    <3>1. o = At(r)
      BY <1>3, <2>2
    <3>2. v.pc = "failed" => copy' = copy
      BY Failure DEF Unspoiled
    <3>3. Copied(r) # None
      BY AtType, StagesOf, LegacyResolveAssumption
    <3>4. v.pc # "failed" /\ v.pc # "done" /\ copy' # copy
      BY <2>2, <3>2 DEF Unspoiled
    <3>5. v.pc = "look" => copy'[At(r)] # None
      BY <3>3, ProceedEffect
    <3>6. v.pc = "call" => copy'[At(r)] # None
      BY ProceedEffect, StagesOf
    <3>7. w.pc = "delete" /\ At(r) # Restaction
      BY <2>2, <3>1, <3>4, <3>5, <3>6, Outcome
    <3>. QED
      BY <3>1, <3>7, AtType
  <2>3. copy'[Restaction] # None
    BY <1>5, <2>2, StagesOf DEF Leads
  <2>4. Left(q)'
    <3>1. SUFFICES ASSUME NEW j \in 1..Len(u.stages), j >= u.i
                   PROVE  copy'[u.stages[j]] # None \/ \E k \in 1..(u.i - 1) : u.stages[k] = u.stages[j]
      BY <1>3 DEF Left
    <3>2. u.stages[j] \in Object
      BY StagesOf
    <3>3. copy[u.stages[j]] # None \/ \E k \in 1..(u.i - 1) : u.stages[k] = u.stages[j]
      BY <3>1 DEF Leads, Left
    <3>4. CASE copy[u.stages[j]] # None /\ copy'[u.stages[j]] = None
      <4>1. w.pc = "delete" /\ w.i \in 1..Len(w.stages) /\ u.stages[j] = w.stages[w.i]
        BY <2>2, <3>2, <3>4
      <4>2. w.i \in 1..(u.i - 1)
        BY <1>1, <1>2, <2>1, <4>1
      <4>. QED
        BY <1>4, <4>1, <4>2
    <3>. QED
      BY <3>3, <3>4
  <2>5. \A p \in Login : login'[p].pc = "delete" => login'[p].i <= u.i
    <3>1. ASSUME v.pc = "delete" PROVE v.i <= u.i
      <4>1. v.pc # "failed" /\ v.pc \notin {"write", "look", "call", "list", "done"}
        BY <3>1
      <4>2. v.i = 1 \/ (w.pc = "delete" /\ v.i = w.i + 1)
        BY <4>1, Outcome
      <4>. QED
        BY <1>1, <1>2, <2>1, <4>2
    <3>. QED
      BY <1>3, <3>1 DEF Leads
  <2>. QED
    BY <1>3, <2>3, <2>4, <2>5 DEF Leads
<1>. QED
  BY <1>6, <1>7

\* Whether a login may write is its own affair and that of the copy it is at.
LEMMA MayWriteStands ==
  ASSUME NEW p \in Login, login'[p] = login[p], copy' = copy, MayWrite(p)
  PROVE  MayWrite(p)'
BY DEF MayWrite, At

\* While nobody deletes, a conflict leaves the one who wrote last, and the first to
\* delete leads.
LEMMA GatheringStep ==
  ASSUME Inv, NEW r \in Login, Proceed(r), Gathering, Unspoiled'
  PROVE  Gathering' \/ Leads(r)'
<1>. TypeOK
  BY DEF Inv
<1>. DEFINE w == login[r]
            v == login'[r]
<1>1. /\ r \in Active
      /\ \A q \in Login \ {r} : /\ login'[q].pc = login[q].pc /\ login'[q].i = login[q].i
                                /\ login'[q].stages = login[q].stages
      /\ \A o \in Object \ {At(r)} : copy'[o] = copy[o]
  BY ProceedShape, ProceedEffect
<1>2. Len(w.stages) \in Nat /\ w.i \in Nat /\ w.i \in 1..(Len(w.stages) + 1) /\ w.stages # None
  BY StagesOf
<1>3. Restaction \in Object
  BY DEF Object
<1>4. Copied(r) # None
  BY AtType, StagesOf, LegacyResolveAssumption
<1>. Gathers(r)
  BY DEF Gathering
\* Enough for every step after which nobody deletes.
<1>5. ASSUME Gathers(r)', \A o \in Object : copy[o] # None => copy'[o] # None,
             \E p \in Active' : login'[p].pc = "write" => MayWrite(p)'
      PROVE  Gathering'
  <2>1. ASSUME NEW q \in Login \ {r} PROVE Gathers(q)'
    <3>1. Gathers(q) /\ \A j \in 1..Len(login[q].stages) : login[q].stages[j] \in Object
      BY StagesOf DEF Gathering
    <3>. QED
      BY <1>1, <1>3, <1>5, <3>1 DEF Gathers, Present
  <2>. QED
    BY <1>5, <2>1 DEF Gathering
<1>6. CASE v.pc = "failed"
  <2>1. /\ Conflict(r) \/ Gone(r)
        /\ copy' = copy /\ \A q \in Login \ {r} : login'[q] = login[q]
    BY <1>6, Failure DEF Unspoiled
  <2>2. w.pc = "write" /\ ~MayWrite(r)
    BY <2>1 DEF Gathers, Conflict, Gone
  <2>3. PICK p \in Active : login[p].pc = "write" => MayWrite(p)
    BY <1>1, <2>2 DEF Gathering, Active
  <2>4. p \in Login \ {r} /\ login'[p] = login[p]
    BY <2>1, <2>2, <2>3 DEF Active
  <2>5. p \in Active'
    BY <2>3, <2>4 DEF Active
  <2>6. login'[p].pc = "write" => MayWrite(p)'
    BY <2>1, <2>3, <2>4, MayWriteStands
  <2>7. Gathers(r)'
    BY <1>6 DEF Gathers
  <2>. QED
    BY <1>5, <2>1, <2>5, <2>6, <2>7
<1>7. ASSUME v.pc \in {"look", "call", "list"} PROVE r \in Active' /\ (v.pc = "write" => MayWrite(r)')
  BY <1>7 DEF Active, Over
<1>8. CASE w.pc = "look" /\ v.pc = "write" /\ v.stages = w.stages /\ v.i = w.i /\ copy' = copy
  <2>1. Look(r)
    BY <1>8 DEF Proceed, Write, Conflict, Call, List, Skip, Delete, Gone, Fails, Refused, Unspoiled
  <2>2. v = [w EXCEPT !.pc = "write", !.found = copy[At(r)] # None, !.same = TRUE]
    BY <2>1 DEF Look, Becomes, TypeOK
  <2>3. v.found = (copy[At(r)] # None) /\ v.same = TRUE
    BY <2>2 DEF TypeOK, Work
  <2>4. At(r)' = At(r)
    BY <1>8 DEF At
  <2>5. MayWrite(r)'
    BY <1>8, <2>3, <2>4 DEF MayWrite
  <2>6. r \in Active'
    BY <1>8 DEF Active, Over
  <2>7. Gathers(r)'
    BY <1>8 DEF Gathers, Present
  <2>. QED
    BY <1>5, <1>8, <2>5, <2>6, <2>7
<1>9. CASE w.pc = "write" /\ At(r) # Restaction /\ v.pc = "look" /\ v.stages = w.stages /\ v.i = w.i + 1
  <2>1. w.i \in 1..Len(w.stages) /\ At(r) = w.stages[w.i] /\ copy'[At(r)] # None
    BY <1>4, <1>9, AtType, ProceedEffect
  <2>2. \A o \in Object : copy[o] # None => copy'[o] # None
    BY <1>1, <2>1
  <2>3. ASSUME NEW j \in 1..Len(w.stages), j < w.i + 1 PROVE copy'[w.stages[j]] # None
    <3>1. CASE j = w.i
      BY <2>1, <3>1
    <3>2. CASE j < w.i
      <4>1. copy[w.stages[j]] # None
        BY <1>9, <3>2 DEF Gathers, Present
      <4>. QED
        BY <2>2, <4>1, StagesOf
    <3>. QED
      BY <1>2, <2>3, <3>1, <3>2
  <2>4. Gathers(r)'
    BY <1>9, <2>3 DEF Gathers, Present
  <2>. QED
    BY <1>5, <1>7, <1>9, <2>2, <2>4
<1>10. CASE /\ w.pc = "write" /\ At(r) = Restaction /\ v.pc = "call" /\ v.stages = w.stages
            /\ copy'[Restaction] = w.stages
  <2>1. \A o \in Object : copy[o] # None => copy'[o] # None
    BY <1>1, <1>2, <1>10
  <2>2. w.i = Len(w.stages) + 1 /\ Present(r, w.i)
    BY <1>10, AtType DEF Gathers
  <2>3. Gathers(r)'
    BY <1>2, <1>10, <2>1, <2>2, StagesOf DEF Gathers, Present
  <2>. QED
    BY <1>2, <1>5, <1>7, <1>10, <2>1, <2>3
<1>11. CASE w.pc = "call" /\ v.pc = "list" /\ v.stages = w.stages /\ copy' = copy
  <2>1. Gathers(r)'
    BY <1>11 DEF Gathers, Present
  <2>. QED
    BY <1>5, <1>7, <1>11, <2>1
<1>12. CASE w.pc = "list" /\ v.pc = "delete" /\ v.stages = copy[Restaction] /\ v.i = 1 /\ copy' = copy
  <2>1. edits = 0 /\ copy[Restaction] # None /\ Present(r, Len(w.stages) + 1)
    BY <1>12, ProceedShape DEF Gathers, Unspoiled, history
  <2>2. v.stages = w.stages
    BY <1>12, <2>1 DEF Inv, OwnStages
  <2>3. \A j \in 1..Len(w.stages) : copy[w.stages[j]] # None
    BY <1>2, <2>1 DEF Present
  <2>4. Left(r)'
    BY <1>12, <2>2, <2>3 DEF Left
  <2>5. \A q \in Login : login'[q].pc = "delete" => login'[q].i <= v.i
    BY <1>1, <1>12 DEF Gathering, Gathers
  <2>. QED
    BY <1>12, <2>1, <2>4, <2>5 DEF Leads
<1>13. w.pc # "delete"
  BY DEF Gathers
<1>. QED
  BY <1>6, <1>8, <1>9, <1>10, <1>11, <1>12, <1>13, Outcome

LEMMA RaceStep ==
  ASSUME Inv, RaceInv, Next
  PROVE  RaceInv'
<1>. SUFFICES ASSUME Unspoiled' PROVE Gathering' \/ \E r \in Login : Leads(r)'
  BY DEF RaceInv
<1>. TypeOK
  BY DEF Inv
<1>1. CASE Edit
  <2>1. edits \in Nat
    BY DEF TypeOK
  <2>. QED
    BY <1>1, <2>1 DEF Edit, Unspoiled
<1>2. ASSUME NEW r \in Login, Begin(r) PROVE Gathering' \/ \E q \in Login : Leads(q)'
  <2>. DEFINE u == [login[r] EXCEPT !.pc = "look", !.stages = restaction, !.i = 1]
              v == [login[r] EXCEPT !.pc = "done", !.used = {r}]
  <2>1. login[r].pc = "new" /\ copy' = copy /\ \A q \in Login \ {r} : login'[q] = login[q]
    BY <1>2 DEF Begin, Becomes, TypeOK
  <2>2. edits = 0 /\ troubled = {}
    BY <1>2 DEF Begin, Unspoiled
  <2>3. login'[r] = u \/ login'[r] = v
    BY <1>2 DEF Begin, Becomes, TypeOK
  <2>4. u.pc = "look" /\ u.i = 1 /\ u.stages = restaction /\ v.pc = "done"
    BY DEF TypeOK, Work
  <2>5. login'[r].pc = "look" /\ login'[r].i = 1
    BY <2>3, <2>4 DEF Unspoiled
  <2>6. Unspoiled
    BY <2>1, <2>2 DEF Unspoiled
  <2>7. CASE Gathering
    <3>2. Gathers(r)'
      BY <2>5 DEF Gathers, Present
    <3>3. \A q \in Login \ {r} : Gathers(q)'
      BY <2>1, <2>7 DEF Gathering, Gathers, Present
    <3>4. r \in Active'
      BY <2>5 DEF Active, Over
    <3>. QED
      BY <2>5, <3>2, <3>3, <3>4 DEF Gathering
  <2>8. ASSUME NEW q \in Login, Leads(q) PROVE Leads(q)'
    BY <2>1, <2>5, <2>8 DEF Leads, Left
  <2>. QED
    BY <2>6, <2>7, <2>8 DEF RaceInv
<1>3. ASSUME NEW r \in Login, Proceed(r) PROVE Gathering' \/ \E q \in Login : Leads(q)'
  <2>1. Unspoiled
    <3>1. edits = 0 /\ troubled = {}
      BY <1>3, ProceedShape, Failure DEF Unspoiled, history
    <3>2. login[r].pc # "done" /\ \A q \in Login \ {r} : login'[q].pc = login[q].pc
      BY <1>3, ProceedShape DEF Active, Over
    <3>. QED
      BY <3>1, <3>2 DEF Unspoiled
  <2>. QED
    BY <1>3, <2>1, GatheringStep, LeaderStep, LeadStands DEF RaceInv
<1>. QED
  BY <1>1, <1>2, <1>3 DEF Next

\* As long as nothing but the other logins gets in their way, one of those that
\* began can go on.
THEOREM Race == Spec => []RaceInv
<1>1. ASSUME Init PROVE RaceInv
  BY <1>1 DEF Init, RaceInv, Gathering, Gathers
<1>2. Inv /\ RaceInv /\ [Next]_vars => RaceInv'
  <2>1. ASSUME RaceInv, UNCHANGED vars PROVE RaceInv'
    BY <2>1 DEF vars, RaceInv, Unspoiled, Gathering, Gathers, Leads, Left, Present, Active, MayWrite, At
  <2>. QED
    BY <2>1, RaceStep
<1>. QED
  BY <1>1, <1>2, Invariance, PTL DEF Spec

\* Of logins that met no error and no edit one succeeds, however many there are and
\* whichever way they overlap (createRestActionCopyWithEndpoints).
THEOREM OneSucceeds == Spec => []SomeoneSucceeds
<1>1. ASSUME RaceInv, Unspoiled, Idle(Over), NEW r \in Login, login[r].pc # "new" PROVE FALSE
  <2>1. \A q \in Login : login[q].pc # "delete" /\ q \notin Active
    BY <1>1 DEF Idle, Active, Over
  <2>2. Active = {}
    BY <2>1 DEF Active
  <2>3. ~Gathering
    BY <1>1, <2>2 DEF Gathering
  <2>4. \A q \in Login : ~Leads(q)
    BY <2>1 DEF Leads
  <2>. QED
    BY <1>1, <2>3, <2>4 DEF RaceInv
<1>2. RaceInv => SomeoneSucceeds
  BY <1>1 DEF SomeoneSucceeds, Unspoiled
<1>. QED
  BY <1>2, Race, PTL
================================================================================
