-------------------------------- MODULE Portal --------------------------------
(***************************************************************************)
(* A login page: it lists the strategies (internal/routes/auth/strategies, *)
(* resolvers/list.go, OIDCConfigList), while an administrator edits the    *)
(* configurations and identity providers fail to answer, and calls a login *)
(* it was offered through the browser's CORS checks (Cors) and authn's     *)
(* routing (internal/routes).                                              *)
(*                                                                         *)
(* What the login answers is LoginContract's.  The page, the browser and   *)
(* the administrator are external.                                         *)
(***************************************************************************)
EXTENDS Cors, Naturals

CONSTANTS
  Object,       \* the Users and configurations there may be
  Kind,         \* what each is: "user", "oidc", "ldap" or "oauth"
  Rank,         \* their order in a list
  Discovering,  \* the OIDCConfigs that leave endpoints to discovery
  SteppingUp,   \* the OIDCConfigs with a valid stepUp
  Unreadable,   \* the OAuthConfigs that don't convert
  Basic         \* the entry of the basic login

ASSUME PortalAssumption ==
  /\ Kind \in [Object -> {"user", "oidc", "ldap", "oauth"}]
  /\ Rank \in [Object -> Nat] /\ \A o, p \in Object : Rank[o] = Rank[p] => o = p
  /\ Discovering \cup SteppingUp \subseteq {o \in Object : Kind[o] = "oidc"}
  /\ Unreadable \subseteq {o \in Object : Kind[o] = "oauth"}
  /\ Basic \notin Object

VARIABLES
  cors,      \* AUTHN_CORS
  declared,  \* the objects there are
  steady,    \* those there have been since the list was asked for
  once,      \* those there were at some time since
  pc,        \* where GET /strategies is
  failed,    \* the kinds whose list failed
  found,     \* the OIDCConfigs listed, left: those not looked at yet
  left,
  broken,    \* those whose discovery failed
  err,       \* OIDCConfigList's error so far
  entries,   \* the answer's entries, usable: those with a complete authCodeURL
  usable,
  page       \* the call the page makes

listing == <<pc, failed, found, left, broken, err, entries, usable>>
vars == <<cors, declared, steady, once, listing, page>>

Of(kind, set) == {o \in set : Kind[o] = kind}

Listing == {"users", "oidc", "discover", "ldap", "oauth"}

Method == {"GET", "POST"}

Header == {"Authorization", "Content-Type", "X-Auth-Code", "X-Code-Verifier", "traceparent", "tracestate"}

Path == {"/basic/login", "/ldap/login", "/oauth/login", "/oidc/login", "/oidc/stepup"}

Request == [path: Path, method: Method, headers: SUBSET Header, origin: Origin, credentials: BOOLEAN]

Stage == {"preflight", "send", "handled", "404", "405", "blocked"}

NoCall == [stage |-> "none"]

TypeOK ==
  /\ cors \in BOOLEAN
  /\ steady \subseteq declared /\ declared \subseteq once /\ once \subseteq Object
  /\ pc \in {"idle", "answered", "aborted"} \cup Listing
  /\ failed \subseteq {"user", "oidc", "ldap", "oauth"}
  /\ left \subseteq found /\ found \subseteq Of("oidc", once) /\ broken \subseteq found
  /\ pc # "discover" => left = {}
  /\ err \in BOOLEAN
  /\ usable \subseteq entries /\ entries \subseteq once \cup {Basic}
  /\ \/ page = NoCall
     \/ pc = "answered" /\ page \in [stage: Stage, request: Request]

Init ==
  /\ cors \in BOOLEAN
  /\ declared \in SUBSET Object
  /\ steady = declared /\ once = declared
  /\ pc = "idle"
  /\ failed = {} /\ found = {} /\ left = {} /\ broken = {} /\ err = FALSE
  /\ entries = {} /\ usable = {}
  /\ page = NoCall

\* An administrator creates or deletes an object (bound: each once).
Edit ==
  /\ pc \in Listing
  /\ \/ \E o \in steady : declared' = declared \ {o}
     \/ \E o \in Object \ once : declared' = declared \cup {o}
  /\ steady' = steady \cap declared'
  /\ once' = once \cup declared'
  /\ UNCHANGED <<cors, listing, page>>

--------------------------------------------------------------------------------
(* GET /strategies: four lists, one after the other *)

List ==
  /\ pc = "idle"
  /\ pc' = "users"
  /\ UNCHANGED <<cors, declared, steady, once, failed, found, left, broken, err, entries, usable, page>>

\* A list that fails is left out, and the next one is read.
Skip(at, kind, next) ==
  /\ pc = at
  /\ failed' = failed \cup {kind}
  /\ pc' = next
  /\ UNCHANGED <<cors, declared, steady, once, found, left, broken, err, entries, usable, page>>

Offer(new, good, next) ==
  /\ entries' = entries \cup new
  /\ usable' = usable \cup good
  /\ pc' = next
  /\ UNCHANGED <<cors, declared, steady, once, failed, found, left, broken, err, page>>

\* countBasicAuthUsers.
Users ==
  \/ pc = "users" /\ LET basic == IF Of("user", declared) = {} THEN {} ELSE {Basic}
                     IN  Offer(basic, basic, "oidc")
  \/ Skip("users", "user", "oidc")

\* listOIDCConfigs.
ListOidc ==
  \/ /\ pc = "oidc"
     /\ found' = Of("oidc", declared) /\ left' = found'
     /\ pc' = "discover"
     /\ UNCHANGED <<cors, declared, steady, once, failed, broken, err, entries, usable, page>>
  \/ Skip("oidc", "oidc", "ldap")

\* Mutant of Discover: the first failure ends it.
DiscoverTillError ==
  /\ pc = "discover"
  /\ \E o \in left :
       /\ \A p \in left : Rank[o] <= Rank[p]
       /\ left' = left \ {o}
       /\ \/ o \in Discovering /\ err' = TRUE /\ broken' = broken \cup {o} /\ pc' = "ldap"
          \/ o \in Discovering /\ err' = FALSE /\ UNCHANGED <<broken, pc>>
          \/ o \notin Discovering /\ UNCHANGED <<err, broken, pc>>
  /\ UNCHANGED <<cors, declared, steady, once, failed, found, entries, usable, page>>

\* OIDCConfigList's loop: each discovery's outcome takes the place of the last one's.
Discover ==
  /\ pc = "discover"
  /\ \E o \in left :
       /\ \A p \in left : Rank[o] <= Rank[p]
       /\ left' = left \ {o}
       /\ \/ o \in Discovering /\ err' = TRUE /\ broken' = broken \cup {o}
          \/ o \in Discovering /\ err' = FALSE /\ UNCHANGED broken
          \/ o \notin Discovering /\ UNCHANGED <<err, broken>>
  /\ UNCHANGED <<cors, declared, steady, once, pc, failed, found, entries, usable, page>>

\* forOIDC.
ForOidc ==
  /\ pc = "discover" /\ left = {}
  /\ IF err THEN Offer({}, {}, "ldap") ELSE Offer(found, found \ broken, "ldap")

\* Mutant of ForLdap: its failure ends the answer.
ForLdapStops ==
  \/ pc = "ldap" /\ Offer(Of("ldap", declared), Of("ldap", declared), "oauth")
  \/ Skip("ldap", "ldap", "answered")

\* forLDAP.
ForLdap ==
  \/ pc = "ldap" /\ Offer(Of("ldap", declared), Of("ldap", declared), "oauth")
  \/ Skip("ldap", "ldap", "oauth")

\* forOAuth and listOauthConfig: an OAuthConfig that doesn't convert leaves a nil in the
\* list, and its error when it is the last; ListOAuthConfigs panics on the nil, and the
\* request ends without an answer.
ForOAuth ==
  LET all  == Of("oauth", declared)
      last == {o \in all : \A p \in all : Rank[p] <= Rank[o]}
  IN \/ pc = "oauth" /\ all \cap Unreadable = {} /\ Offer(all, all, "answered")
     \/ pc = "oauth" /\ all \cap Unreadable # {} /\ last \cap Unreadable = {} /\ Offer({}, {}, "aborted")
     \/ Skip("oauth", "oauth", "answered")

--------------------------------------------------------------------------------
(* The call of a login *)

\* External: what each login is called with, besides a name.
Call(path, method, headers) == [path |-> path, method |-> method, headers |-> headers]

LoginCall(e) ==
  CASE e = Basic          -> Call("/basic/login", "GET", {"Authorization"})
    [] Kind[e] = "ldap"   -> Call("/ldap/login", "POST", {"Content-Type"})
    [] Kind[e] = "oauth"  -> Call("/oauth/login", "GET", {"X-Auth-Code", "X-Code-Verifier"})
    [] Kind[e] = "oidc"   -> Call("/oidc/login", "GET", {"X-Auth-Code", "X-Code-Verifier"})

\* The login of an entry, and the step-up its extensions tell of.
Calls(e) ==
  {LoginCall(e)} \cup
  IF e \in SteppingUp \cap usable THEN {Call("/oidc/stepup", "POST", {"X-Auth-Code", "X-Code-Verifier"})} ELSE {}

\* buildRoutes: each route's path and method.
Routes ==
  {<<"/strategies", "GET">>, <<"/health", "GET">>, <<"/.well-known/jwks.json", "GET">>,
   <<"/basic/login", "GET">>, <<"/serviceaccount/login", "POST">>, <<"/ldap/login", "POST">>,
   <<"/oauth/login", "GET">>, <<"/oidc/login", "GET">>, <<"/oidc/stepup", "POST">>}

\* Serve: what a request gets from the routes.
Serve(path, method) ==
  IF <<path, method>> \in Routes THEN "handled"
  ELSE IF \E r \in Routes : r[1] = path THEN "405" ELSE "404"

\* main's options.
Options ==
  [origins |-> {Star}, methods |-> {"GET", "POST", "PUT", "DELETE", "OPTIONS"},
   headers |-> {"Accept", "Authorization", "Content-Type", "X-Auth-Code", "X-Code-Verifier",
                "traceparent", "tracestate", "baggage"},
   credentials |-> TRUE]

\* The page calls a usable entry, with or without a trace, and with the browser's own
\* credentials or not.
Choose ==
  /\ pc = "answered" /\ page.stage = "none"
  /\ \E e \in usable, origin \in Origin, credentials \in BOOLEAN, trace \in {{}, {"traceparent", "tracestate"}} :
     \E c \in Calls(e) :
       page' = [stage |-> "preflight",
                request |-> [path |-> c.path, method |-> c.method, headers |-> c.headers \cup trace,
                             origin |-> origin, credentials |-> credentials]]
  /\ UNCHANGED <<cors, declared, steady, once, listing>>

\* External: the browser's check of an answer (the Fetch standard).
Passes(q, a) ==
  \/ a.origin = Star /\ ~q.credentials
  \/ a.origin = q.origin /\ (q.credentials => a.credentials)

Blocked == [page EXCEPT !.stage = "blocked"]

\* None of the calls is one a browser sends unasked.  Handler: without CORS the preflight
\* goes to the routes, which serve no OPTIONS.
Preflight ==
  /\ page.stage = "preflight"
  /\ LET q == page.request
         a == IF cors THEN handlePreflight(New(Options), q) ELSE Bare
     IN  page' = IF Passes(q, a) /\ q.method \in a.methods \cup {"GET", "POST"} /\ q.headers \subseteq a.headers
                 THEN [page EXCEPT !.stage = "send"] ELSE Blocked
  /\ UNCHANGED <<cors, declared, steady, once, listing>>

\* The request itself: handled, and its answer handed to the page.
Send ==
  /\ page.stage = "send"
  /\ LET q == page.request
         a == IF cors THEN handleActualRequest(New(Options), q) ELSE Bare
     IN  page' = IF Passes(q, a) THEN [page EXCEPT !.stage = Serve(q.path, q.method)] ELSE Blocked
  /\ UNCHANGED <<cors, declared, steady, once, listing>>

Next ==
  \/ Edit
  \/ List \/ Users \/ ListOidc \/ Discover \/ ForOidc \/ ForLdap \/ ForOAuth
  \/ Choose \/ Preflight \/ Send

Spec == Init /\ [][Next]_vars

--------------------------------------------------------------------------------
(* Properties *)

\* A strategy is missing from an answer only if its own list failed, or, for OIDC, the
\* discovery that came last, and one there is not only if it never was; an authCodeURL
\* is incomplete only where discovery failed (Handler, OIDCConfigList).
LastFailed == \E b \in broken : \A o \in found \cap Discovering : Rank[o] <= Rank[b]
ListedOrExplained ==
  pc = "answered" =>
    /\ Of("user", steady) # {} => Basic \in entries \/ "user" \in failed
    /\ \A o \in steady \ entries :
         Kind[o] = "user" \/ Kind[o] \in failed \/ (Kind[o] = "oidc" /\ o \in found /\ LastFailed)
    /\ \A e \in entries : IF e = Basic THEN Of("user", once) # {} ELSE e \in once
    /\ entries \ usable \subseteq broken

\* docs/behavior.md: one entry per configuration.  Whatever other configurations there
\* are, one whose own list and discovery succeeded has its entry.
OneEntryPerConfig ==
  pc = "answered" => \A o \in steady \ entries : Kind[o] \in failed \cup {"user"} \/ o \in broken

\* A page of any origin can call each login it was offered and read the answer, unless
\* it sends the browser's credentials, which no page may (main's options, Handler, Serve).
PageReads ==
  page.stage \notin {"none", "preflight", "send"} =>
    IF cors /\ ~page.request.credentials THEN page.stage = "handled" ELSE page.stage = "blocked"
================================================================================
