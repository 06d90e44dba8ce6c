----------------------------- MODULE PortalProofs -----------------------------
(***************************************************************************)
(* Proofs about Portal, for any Users and configurations and any origins.  *)
(***************************************************************************)
EXTENDS Portal, TLAPS

\* A list that was read lists what has been there all along, or failed, or its
\* entries went with the last discovery's failure.
Listed ==
  /\ pc \in {"oidc", "discover", "ldap", "oauth", "answered"} =>
       (Of("user", steady) # {} => Basic \in entries \/ "user" \in failed)
  /\ pc = "discover" => \A o \in steady : Kind[o] = "oidc" => o \in found
  /\ pc \in {"ldap", "oauth", "answered"} =>
       \A o \in steady : Kind[o] = "oidc" => o \in entries \/ "oidc" \in failed \/ (err /\ o \in found)
  /\ pc \in {"oauth", "answered"} =>
       \A o \in steady : Kind[o] = "ldap" => o \in entries \/ "ldap" \in failed
  /\ pc = "answered" =>
       \A o \in steady : Kind[o] = "oauth" => o \in entries \/ "oauth" \in failed

\* What is listed was there, and what is unusable is so for its discovery.
Offered ==
  /\ Basic \in entries => Of("user", once) # {}
  /\ \A e \in entries : e = Basic \/ Kind[e] \in {"ldap", "oauth", "oidc"}
  /\ entries \ usable \subseteq broken
  /\ pc \in {"idle", "users", "oidc"} => broken = {} /\ found = {}

\* Discovery goes by rank, and the error is that of the last one looked at.
Ranked ==
  /\ pc = "discover" => \A o \in found \ left, p \in left : Rank[o] <= Rank[p]
  /\ pc \in {"idle", "users", "oidc"} => ~err
  /\ err => \E b \in broken : \A o \in (found \ left) \cap Discovering : Rank[o] <= Rank[b]

\* The page calls a route with headers main's options name, and gets past the
\* browser just when CORS is on and it sends no credentials.
Paged ==
  /\ page.stage \in {"none", "preflight", "send", "handled", "blocked"}
  /\ page.stage # "none" =>
       /\ <<page.request.path, page.request.method>> \in Routes
       /\ page.request.headers \subseteq Options.headers
  /\ page.stage \in {"send", "handled"} => cors /\ ~page.request.credentials
  /\ page.stage = "blocked" => ~cors \/ page.request.credentials

IInv == TypeOK /\ Listed /\ Ranked /\ Offered /\ Paged

--------------------------------------------------------------------------------
(* CORS *)

\* What New makes of main's options: any origin, the methods and headers they name.
LEMMA OptionsRead ==
  /\ New(Options).anyOrigin = TRUE
  /\ {"GET", "POST"} \subseteq New(Options).methods
  /\ Options.headers \subseteq New(Options).headers
BY DEF New, Options

\* The browser passes an answer that names any origin unless credentials were sent,
\* and none that names no origin.
LEMMA BrowserPasses ==
  ASSUME NEW q \in Request, NEW a
  PROVE  /\ a.origin = Star => (Passes(q, a) <=> ~q.credentials)
         /\ a.origin = NoOrigin => ~Passes(q, a)
BY CorsAssumption DEF Passes, Request

\* The preflight of a login's call names every origin, its method and its headers.
LEMMA PreflightAnswer ==
  ASSUME NEW q \in Request, q.headers \subseteq Options.headers
  PROVE  /\ handlePreflight(New(Options), q).origin = Star
         /\ handlePreflight(New(Options), q).headers = q.headers
<1>1. q.method \in {"GET", "POST"} /\ q.origin \in Origin
  BY DEF Request, Method
<1>2. /\ q.origin # NoOrigin /\ isOriginAllowed(New(Options), q.origin)
      /\ isMethodAllowed(New(Options), q.method) /\ areHeadersAllowed(New(Options), q.headers)
  BY <1>1, OptionsRead, CorsAssumption DEF isOriginAllowed, isMethodAllowed, areHeadersAllowed
<1> QED BY <1>2, OptionsRead DEF handlePreflight, Allowance, AllowOrigin

LEMMA RequestAnswer ==
  ASSUME NEW q \in Request
  PROVE  handleActualRequest(New(Options), q).origin = Star
<1>1. q.method \in {"GET", "POST"} /\ q.origin \in Origin
  BY DEF Request, Method
<1>2. q.origin # NoOrigin /\ isOriginAllowed(New(Options), q.origin) /\ isMethodAllowed(New(Options), q.method)
  BY <1>1, OptionsRead, CorsAssumption DEF isOriginAllowed, isMethodAllowed
<1> QED BY <1>2, OptionsRead DEF handleActualRequest, Allowance, AllowOrigin

--------------------------------------------------------------------------------
(* The steps of the listing *)

LEMMA EditKeeps ==
  ASSUME IInv, Edit
  PROVE  IInv'
<1>1. /\ steady' \subseteq steady /\ steady' \subseteq declared' /\ declared' \subseteq once'
      /\ once \subseteq once' /\ once' \subseteq Object
      /\ UNCHANGED <<cors, pc, failed, found, left, broken, err, entries, usable, page>>
  BY DEF Edit, listing, IInv, TypeOK
<1>2. TypeOK'
  BY <1>1 DEF IInv, TypeOK, Of
<1>3. Listed'
  BY <1>1 DEF IInv, Listed, Of
<1>4. Offered'
  BY <1>1 DEF IInv, Offered, Of
<1>5. Paged'
  BY <1>1 DEF IInv, Paged
<1>6. Ranked'
  BY <1>1 DEF IInv, Ranked
<1> QED BY <1>2, <1>3, <1>4, <1>5, <1>6 DEF IInv

LEMMA ListKeeps ==
  ASSUME IInv, List
  PROVE  IInv'
BY DEF IInv, List, TypeOK, Listing, Listed, Ranked, Offered, Paged

LEMMA UsersKeeps ==
  ASSUME IInv, Users
  PROVE  IInv'
<1>1. pc = "users" /\ pc' = "oidc" /\ UNCHANGED <<cors, declared, steady, once, found, left, broken, err, page>>
  BY DEF Users, Skip, Offer
<1>2. \/ /\ failed' = failed \cup {"user"} /\ UNCHANGED <<entries, usable>>
      \/ /\ failed' = failed /\ Of("user", declared) = {} /\ UNCHANGED <<entries, usable>>
      \/ /\ failed' = failed /\ Of("user", declared) # {}
         /\ entries' = entries \cup {Basic} /\ usable' = usable \cup {Basic}
  BY DEF Users, Skip, Offer
<1>3. TypeOK'
  BY <1>1, <1>2 DEF IInv, TypeOK, Listing
<1>4. Listed'
  BY <1>1, <1>2 DEF IInv, TypeOK, Listed, Of
<1>5. Offered'
  BY <1>1, <1>2 DEF IInv, TypeOK, Offered, Of
<1>6. Paged'
  BY <1>1 DEF IInv, Paged
<1>7. Ranked'
  BY <1>1 DEF IInv, Ranked
<1> QED BY <1>3, <1>4, <1>5, <1>6, <1>7 DEF IInv

LEMMA ListOidcKeeps ==
  ASSUME IInv, ListOidc
  PROVE  IInv'
<1>1. /\ pc = "oidc" /\ UNCHANGED <<cors, declared, steady, once, broken, err, entries, usable, page>>
      /\ \/ failed' = failed \cup {"oidc"} /\ pc' = "ldap" /\ UNCHANGED <<found, left>>
         \/ found' = Of("oidc", declared) /\ left' = found' /\ pc' = "discover" /\ UNCHANGED failed
  BY DEF ListOidc, Skip
<1>2. TypeOK'
  BY <1>1 DEF IInv, TypeOK, Listing, Offered, Of
<1>3. Listed'
  BY <1>1 DEF IInv, TypeOK, Listed, Of
<1>4. Offered' /\ Paged'
  BY <1>1 DEF IInv, Offered, Paged
<1>5. Ranked'
  BY <1>1 DEF IInv, Ranked
<1> QED BY <1>2, <1>3, <1>4, <1>5 DEF IInv

LEMMA DiscoverKeeps ==
  ASSUME IInv, Discover
  PROVE  IInv'
<1>1. PICK o \in left : /\ left' = left \ {o} /\ err' \in BOOLEAN /\ broken' \in {broken, broken \cup {o}}
                        /\ \A p \in left : Rank[o] <= Rank[p]
                        /\ \/ err' = TRUE /\ broken' = broken \cup {o}
                           \/ err' = FALSE
                           \/ o \notin Discovering /\ UNCHANGED <<err, broken>>
  BY DEF Discover, IInv, TypeOK
<1>2. pc = "discover" /\ UNCHANGED <<cors, declared, steady, once, pc, failed, found, entries, usable, page>>
  BY DEF Discover
<1>3. TypeOK'
  BY <1>1, <1>2 DEF IInv, TypeOK, Of
<1>4. Listed' /\ Offered' /\ Paged'
  BY <1>1, <1>2 DEF IInv, Listed, Offered, Paged
<1>5. Ranked'
  <2>1. \A p \in found \ left : Rank[p] <= Rank[o]
    BY <1>2 DEF IInv, Ranked
  <2>2. found \ left' = (found \ left) \cup {o} /\ Rank[o] \in Nat
    BY <1>1, PortalAssumption DEF IInv, TypeOK, Of
  <2>3. \A p \in found \ left', q \in left' : Rank[p] <= Rank[q]
    BY <1>1, <1>2, <2>2 DEF IInv, Ranked
  <2>4. err' => \E b \in broken' : \A p \in (found \ left') \cap Discovering : Rank[p] <= Rank[b]
    <3>1. CASE err' = TRUE /\ broken' = broken \cup {o}
      <4>1. o \in broken' /\ \A p \in found \ left' : Rank[p] <= Rank[o]
        BY <2>1, <2>2, <3>1
      <4> QED BY <4>1
    <3>2. CASE o \notin Discovering /\ UNCHANGED <<err, broken>>
      BY <2>2, <3>2 DEF IInv, Ranked
    <3> QED BY <1>1, <3>1, <3>2
  <2> QED BY <1>2, <2>3, <2>4 DEF Ranked
<1> QED BY <1>3, <1>4, <1>5 DEF IInv

LEMMA ForOidcKeeps ==
  ASSUME IInv, ForOidc
  PROVE  IInv'
<1>1. /\ pc = "discover" /\ pc' = "ldap"
      /\ UNCHANGED <<cors, declared, steady, once, failed, found, left, broken, err, page>>
  BY DEF ForOidc, Offer
<1>2. \/ err /\ UNCHANGED <<entries, usable>>
      \/ entries' = entries \cup found /\ usable' = usable \cup (found \ broken)
  BY DEF ForOidc, Offer
<1>3. left = {} /\ found \subseteq once
  BY DEF ForOidc, IInv, TypeOK, Of
<1>4. TypeOK'
  BY <1>1, <1>2, <1>3 DEF IInv, TypeOK, Listing
<1>5. Listed'
  BY <1>1, <1>2 DEF IInv, Listed
<1>6. Offered' /\ Paged'
  BY <1>1, <1>2, <1>3, PortalAssumption DEF IInv, TypeOK, Offered, Paged, Of
<1>7. Ranked'
  BY <1>1 DEF IInv, Ranked
<1> QED BY <1>4, <1>5, <1>6, <1>7 DEF IInv

LEMMA ForLdapKeeps ==
  ASSUME IInv, ForLdap
  PROVE  IInv'
<1>1. pc = "ldap" /\ pc' = "oauth" /\ UNCHANGED <<cors, declared, steady, once, found, left, broken, err, page>>
  BY DEF ForLdap, Skip, Offer
<1>2. \/ failed' = failed \cup {"ldap"} /\ UNCHANGED <<entries, usable>>
      \/ /\ failed' = failed
         /\ entries' = entries \cup Of("ldap", declared) /\ usable' = usable \cup Of("ldap", declared)
  BY DEF ForLdap, Skip, Offer
<1>3. Of("ldap", declared) \subseteq once /\ Basic \notin Of("ldap", declared)
  BY PortalAssumption DEF IInv, TypeOK, Of
<1>4. TypeOK'
  BY <1>1, <1>2, <1>3 DEF IInv, TypeOK, Listing
<1>5. Listed'
  BY <1>1, <1>2 DEF IInv, TypeOK, Listed, Of
<1>6. Offered' /\ Paged'
  BY <1>1, <1>2, <1>3 DEF IInv, Offered, Paged, Of
<1>7. Ranked'
  BY <1>1, <1>2 DEF IInv, Ranked
<1> QED BY <1>4, <1>5, <1>6, <1>7 DEF IInv

LEMMA ForOAuthKeeps ==
  ASSUME IInv, ForOAuth
  PROVE  IInv'
<1> DEFINE all == Of("oauth", declared)
<1>1. pc = "oauth" /\ UNCHANGED <<cors, declared, steady, once, found, left, broken, err, page>>
  BY DEF ForOAuth, Skip, Offer
<1>2. \/ /\ pc' = "answered" /\ failed' = failed
         /\ entries' = entries \cup all /\ usable' = usable \cup all
      \/ pc' = "aborted" /\ UNCHANGED <<failed, entries, usable>>
      \/ pc' = "answered" /\ failed' = failed \cup {"oauth"} /\ UNCHANGED <<entries, usable>>
  BY DEF ForOAuth, Skip, Offer
<1>3. all \subseteq once /\ Basic \notin all
  BY PortalAssumption DEF IInv, TypeOK, Of
<1>4. TypeOK'
  BY <1>1, <1>2, <1>3 DEF IInv, TypeOK
<1>5. Listed'
  BY <1>1, <1>2 DEF IInv, TypeOK, Listed, Of
<1>6. Offered' /\ Paged'
  BY <1>1, <1>2, <1>3 DEF IInv, Offered, Paged, Of
<1>7. Ranked'
  BY <1>1, <1>2 DEF IInv, Ranked
<1> QED BY <1>4, <1>5, <1>6, <1>7 DEF IInv

--------------------------------------------------------------------------------
(* The steps of the page *)

CallsARoute(c) ==
  /\ c.path \in Path /\ <<c.path, c.method>> \in Routes /\ c.method \in {"GET", "POST"}
  /\ c.headers \subseteq {"Authorization", "Content-Type", "X-Auth-Code", "X-Code-Verifier"}

LEMMA CallOf ==
  ASSUME NEW p \in Path, NEW m \in {"GET", "POST"}, <<p, m>> \in Routes,
         NEW h, h \subseteq {"Authorization", "Content-Type", "X-Auth-Code", "X-Code-Verifier"}
  PROVE  CallsARoute(Call(p, m, h))
<1>1. Call(p, m, h).path = p /\ Call(p, m, h).method = m /\ Call(p, m, h).headers = h
  BY DEF Call
<1> QED BY <1>1 DEF CallsARoute

\* Every login's call is of one of the routes.
LEMMA CallOfRoute ==
  /\ CallsARoute(Call("/basic/login", "GET", {"Authorization"}))
  /\ CallsARoute(Call("/ldap/login", "POST", {"Content-Type"}))
  /\ CallsARoute(Call("/oauth/login", "GET", {"X-Auth-Code", "X-Code-Verifier"}))
  /\ CallsARoute(Call("/oidc/login", "GET", {"X-Auth-Code", "X-Code-Verifier"}))
  /\ CallsARoute(Call("/oidc/stepup", "POST", {"X-Auth-Code", "X-Code-Verifier"}))
<1>1. CallsARoute(Call("/basic/login", "GET", {"Authorization"}))
  <2>1. <<"/basic/login", "GET">> \in Routes /\ "/basic/login" \in Path
    BY DEF Routes, Path
  <2> DEFINE h == {"Authorization"}
  <2>2. h \subseteq {"Authorization", "Content-Type", "X-Auth-Code", "X-Code-Verifier"}
    OBVIOUS
  <2> HIDE DEF h
  <2>3. CallsARoute(Call("/basic/login", "GET", h))
    BY <2>1, <2>2, CallOf
  <2> QED BY <2>3 DEF h
<1>2. CallsARoute(Call("/ldap/login", "POST", {"Content-Type"}))
  <2>1. <<"/ldap/login", "POST">> \in Routes /\ "/ldap/login" \in Path
    BY DEF Routes, Path
  <2> DEFINE h == {"Content-Type"}
  <2>2. h \subseteq {"Authorization", "Content-Type", "X-Auth-Code", "X-Code-Verifier"}
    OBVIOUS
  <2> HIDE DEF h
  <2>3. CallsARoute(Call("/ldap/login", "POST", h))
    BY <2>1, <2>2, CallOf
  <2> QED BY <2>3 DEF h
<1>3. CallsARoute(Call("/oauth/login", "GET", {"X-Auth-Code", "X-Code-Verifier"}))
  <2>1. <<"/oauth/login", "GET">> \in Routes /\ "/oauth/login" \in Path
    BY DEF Routes, Path
  <2> DEFINE h == {"X-Auth-Code", "X-Code-Verifier"}
  <2>2. h \subseteq {"Authorization", "Content-Type", "X-Auth-Code", "X-Code-Verifier"}
    OBVIOUS
  <2> HIDE DEF h
  <2>3. CallsARoute(Call("/oauth/login", "GET", h))
    BY <2>1, <2>2, CallOf
  <2> QED BY <2>3 DEF h
<1>4. CallsARoute(Call("/oidc/login", "GET", {"X-Auth-Code", "X-Code-Verifier"}))
  <2>1. <<"/oidc/login", "GET">> \in Routes /\ "/oidc/login" \in Path
    BY DEF Routes, Path
  <2> DEFINE h == {"X-Auth-Code", "X-Code-Verifier"}
  <2>2. h \subseteq {"Authorization", "Content-Type", "X-Auth-Code", "X-Code-Verifier"}
    OBVIOUS
  <2> HIDE DEF h
  <2>3. CallsARoute(Call("/oidc/login", "GET", h))
    BY <2>1, <2>2, CallOf
  <2> QED BY <2>3 DEF h
<1>5. CallsARoute(Call("/oidc/stepup", "POST", {"X-Auth-Code", "X-Code-Verifier"}))
  <2>1. <<"/oidc/stepup", "POST">> \in Routes /\ "/oidc/stepup" \in Path
    BY DEF Routes, Path
  <2> DEFINE h == {"X-Auth-Code", "X-Code-Verifier"}
  <2>2. h \subseteq {"Authorization", "Content-Type", "X-Auth-Code", "X-Code-Verifier"}
    OBVIOUS
  <2> HIDE DEF h
  <2>3. CallsARoute(Call("/oidc/stepup", "POST", h))
    BY <2>1, <2>2, CallOf
  <2> QED BY <2>3 DEF h
<1> QED BY <1>1, <1>2, <1>3, <1>4, <1>5

LEMMA ChooseKeeps ==
  ASSUME IInv, Choose
  PROVE  IInv'
<1>1. /\ pc = "answered" /\ UNCHANGED <<cors, declared, steady, once, pc, failed, found, left, broken, err, entries, usable>>
  BY DEF Choose, listing
<1>2. PICK e \in usable, origin \in Origin, credentials \in BOOLEAN, trace \in {{}, {"traceparent", "tracestate"}} :
        \E c \in Calls(e) :
          page' = [stage |-> "preflight",
                   request |-> [path |-> c.path, method |-> c.method, headers |-> c.headers \cup trace,
                                origin |-> origin, credentials |-> credentials]]
  BY DEF Choose
<1>3. PICK c \in Calls(e) :
          page' = [stage |-> "preflight",
                   request |-> [path |-> c.path, method |-> c.method, headers |-> c.headers \cup trace,
                                origin |-> origin, credentials |-> credentials]]
  BY <1>2
<1>4. e = Basic \/ (e # Basic /\ Kind[e] \in {"ldap", "oauth", "oidc"})
  BY DEF IInv, TypeOK, Offered
<1>5. c = LoginCall(e) \/ c = Call("/oidc/stepup", "POST", {"X-Auth-Code", "X-Code-Verifier"})
  BY DEF Calls
<1>6. CallsARoute(c)
  BY <1>4, <1>5, CallOfRoute DEF LoginCall
<1>7. /\ c.path \in Path /\ <<c.path, c.method>> \in Routes /\ c.method \in {"GET", "POST"}
      /\ c.headers \subseteq {"Authorization", "Content-Type", "X-Auth-Code", "X-Code-Verifier"}
  BY <1>6 DEF CallsARoute
<1> DEFINE q == page'.request
<1>8. /\ page'.stage = "preflight" /\ q.path = c.path /\ q.method = c.method /\ q.headers = c.headers \cup trace
      /\ q = [path |-> c.path, method |-> c.method, headers |-> c.headers \cup trace,
              origin |-> origin, credentials |-> credentials]
  BY <1>3
<1>9. q.headers \subseteq Header /\ q.headers \subseteq Options.headers
  BY <1>7, <1>8 DEF Header, Options
<1>10. q \in Request
  BY <1>7, <1>8, <1>9 DEF Request, Method
<1> HIDE DEF q
<1>11. page' \in [stage: Stage, request: Request]
  BY <1>3, <1>8, <1>10 DEF q, Stage
<1>12. TypeOK'
  BY <1>1, <1>11 DEF IInv, TypeOK
<1>13. Listed' /\ Ranked' /\ Offered'
  BY <1>1 DEF IInv, Listed, Ranked, Offered
<1>14. Paged'
  BY <1>7, <1>8, <1>9 DEF q, Paged
<1> QED BY <1>12, <1>13, <1>14 DEF IInv

\* A step that moves only the page's call on.
LEMMA CallMovesOn ==
  ASSUME IInv, UNCHANGED <<cors, declared, steady, once, listing>>, page.stage # "none",
         NEW s \in {"send", "handled", "blocked"}, page' = [page EXCEPT !.stage = s],
         s \in {"send", "handled"} => cors /\ ~page.request.credentials,
         s = "blocked" => ~cors \/ page.request.credentials
  PROVE  IInv'
<1>1. UNCHANGED <<cors, declared, steady, once, pc, failed, found, left, broken, err, entries, usable>>
  BY DEF listing
<1>2. page \in [stage: Stage, request: Request] /\ pc = "answered"
  BY DEF IInv, TypeOK, NoCall
<1>3. page' \in [stage: Stage, request: Request] /\ page'.stage = s /\ page'.request = page.request
  BY <1>2 DEF Stage
<1>4. TypeOK'
  BY <1>1, <1>2, <1>3 DEF IInv, TypeOK
<1>5. Listed' /\ Ranked' /\ Offered'
  BY <1>1 DEF IInv, Listed, Ranked, Offered
<1>6. Paged'
  BY <1>1, <1>3 DEF IInv, Paged
<1> QED BY <1>4, <1>5, <1>6 DEF IInv

LEMMA PreflightKeeps ==
  ASSUME IInv, Preflight
  PROVE  IInv'
<1> DEFINE q == page.request
           a == IF cors THEN handlePreflight(New(Options), q) ELSE Bare
           on == /\ Passes(q, a) /\ q.method \in a.methods \cup {"GET", "POST"}
                 /\ q.headers \subseteq a.headers
<1>1. /\ q \in Request /\ q.headers \subseteq Options.headers
      /\ q.credentials \in BOOLEAN /\ q.method \in {"GET", "POST"}
  BY DEF Preflight, IInv, TypeOK, NoCall, Paged, Request, Method
<1>2. cors => a.origin = Star /\ a.headers = q.headers
  BY <1>1, PreflightAnswer
<1>3. ~cors => a.origin = NoOrigin
  BY DEF Bare
<1> HIDE DEF q, a
<1>4. on <=> (cors /\ ~q.credentials)
  BY <1>1, <1>2, <1>3, BrowserPasses DEF IInv, TypeOK
<1>5. page' = IF on THEN [page EXCEPT !.stage = "send"] ELSE [page EXCEPT !.stage = "blocked"]
  BY DEF Preflight, Blocked, q, a
<1>6. page.stage # "none" /\ UNCHANGED <<cors, declared, steady, once, listing>>
  BY DEF Preflight
<1>7. CASE on
  BY <1>4, <1>5, <1>6, <1>7, CallMovesOn DEF q
<1>8. CASE ~on
  BY <1>4, <1>5, <1>6, <1>8, CallMovesOn DEF q
<1> QED BY <1>7, <1>8

LEMMA SendKeeps ==
  ASSUME IInv, Send
  PROVE  IInv'
<1> DEFINE q == page.request
           a == IF cors THEN handleActualRequest(New(Options), q) ELSE Bare
<1>1. page.stage = "send" /\ UNCHANGED <<cors, declared, steady, once, listing>>
  BY DEF Send
<1>2. q \in Request /\ <<q.path, q.method>> \in Routes /\ cors /\ ~q.credentials
  BY <1>1 DEF IInv, TypeOK, NoCall, Paged
<1>3. Passes(q, a)
  BY <1>2, RequestAnswer, BrowserPasses
<1>4. page' = [page EXCEPT !.stage = "handled"]
  BY <1>2, <1>3 DEF Send, Serve
<1> QED BY <1>1, <1>2, <1>4, CallMovesOn

LEMMA Step ==
  ASSUME IInv, Next
  PROVE  IInv'
BY EditKeeps, ListKeeps, UsersKeeps, ListOidcKeeps, DiscoverKeeps, ForOidcKeeps, ForLdapKeeps,
   ForOAuthKeeps, ChooseKeeps, PreflightKeeps, SendKeeps DEF Next

LEMMA InitHolds ==
  ASSUME Init
  PROVE  IInv
<1>1. TypeOK
  BY DEF Init, TypeOK, Listing, Of
<1>2. Listed /\ Ranked /\ Offered
  BY DEF Init, Listed, Ranked, Offered
<1>3. Paged
  BY DEF Init, Paged, NoCall
<1> QED BY <1>1, <1>2, <1>3 DEF IInv

LEMMA Stutter ==
  ASSUME IInv, UNCHANGED vars
  PROVE  IInv'
BY DEF IInv, vars, listing, TypeOK, Listed, Ranked, Offered, Paged

\* Whatever an administrator does meanwhile, a listing leaves out only what a failure
\* explains, and a page's call is stopped only by a browser (Handler, New).
THEOREM Invariance == Spec => []IInv
<1>1. Init => IInv
  BY InitHolds
<1>2. IInv /\ [Next]_vars => IInv'
  BY Step, Stutter
<1> QED BY <1>1, <1>2, PTL DEF Spec

\* Types hold in every reachable state.
THEOREM TypeCorrect == Spec => []TypeOK
<1>1. IInv => TypeOK
  BY DEF IInv
<1> QED BY <1>1, Invariance, PTL

\* A strategy is missing from an answer only for its list's failure or that of the last
\* discovery, and one there was there (Handler, OIDCConfigList).
THEOREM ListingExplained == Spec => []ListedOrExplained
<1>1. ASSUME IInv, pc = "answered"
      PROVE  Of("user", steady) # {} => Basic \in entries \/ "user" \in failed
  BY <1>1 DEF IInv, Listed
<1>2. ASSUME IInv, pc = "answered", NEW o \in steady \ entries
      PROVE  Kind[o] = "user" \/ Kind[o] \in failed \/ (Kind[o] = "oidc" /\ o \in found /\ LastFailed)
  <2>1. Kind[o] \in {"user", "oidc", "ldap", "oauth"}
    <3>1. o \in Object
      BY <1>2 DEF IInv, TypeOK
    <3>2. Kind \in [Object -> {"user", "oidc", "ldap", "oauth"}]
      BY PortalAssumption
    <3> QED BY <3>1, <3>2
  <2>2. err => LastFailed
    BY <1>2 DEF IInv, TypeOK, Ranked, LastFailed
  <2> QED BY <1>2, <2>1, <2>2 DEF IInv, Listed
<1>3. ASSUME IInv, NEW e \in entries
      PROVE  IF e = Basic THEN Of("user", once) # {} ELSE e \in once
  BY <1>3 DEF IInv, TypeOK, Offered
<1>4. IInv => entries \ usable \subseteq broken
  BY DEF IInv, Offered
<1>5. IInv => ListedOrExplained
  BY <1>1, <1>2, <1>3, <1>4 DEF ListedOrExplained
<1> QED BY <1>5, Invariance, PTL

\* A page of any origin gets to the login it was offered, exactly when CORS is on and it
\* sends none of the browser's credentials (main's options, handlePreflight, Serve).
THEOREM PagesRead == Spec => []PageReads
<1>1. IInv => PageReads
  <2> SUFFICES ASSUME IInv, page.stage \notin {"none", "preflight", "send"}
               PROVE  IF cors /\ ~page.request.credentials THEN page.stage = "handled" ELSE page.stage = "blocked"
    BY DEF PageReads
  <2> QED BY DEF IInv, Paged
<1> QED BY <1>1, Invariance, PTL
================================================================================
