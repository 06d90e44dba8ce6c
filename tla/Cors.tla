--------------------------------- MODULE Cors ---------------------------------
(***************************************************************************)
(* The CORS middleware (internal/middlewares/cors): what New makes of its  *)
(* options, and the headers it adds to a preflight's answer and to every   *)
(* other.                                                                  *)
(*                                                                         *)
(* Constant-level only.  An origin stands for itself in any letter case,   *)
(* and for a pattern's the origins it matches; Star is the options' "*".    *)
(***************************************************************************)
EXTENDS FiniteSets

CONSTANTS
  Origin,    \* the origins of pages
  NoOrigin,  \* no Origin header, or no Access-Control-Allow-Origin
  Star        \* "*"

ASSUME CorsAssumption == {NoOrigin, Star} \cap Origin = {} /\ NoOrigin # Star

\* New: the options with their defaults.
New(o) ==
  [anyOrigin   |-> o.origins = {} \/ Star \in o.origins,
   origins     |-> o.origins \ {Star},
   methods     |-> IF o.methods = {} THEN {"GET", "POST", "HEAD"} ELSE o.methods,
   anyHeader   |-> Star \in o.headers,
   headers     |-> IF o.headers = {} THEN {"Origin", "Accept", "Content-Type"}
                   ELSE o.headers \cup {"Origin"},
   credentials |-> o.credentials]

isOriginAllowed(c, origin)   == c.anyOrigin \/ origin \in c.origins
isMethodAllowed(c, method)   == method = "OPTIONS" \/ method \in c.methods
\* Mutant of areHeadersAllowed: a preflight for several headers is refused.
areHeadersAllowedOne(c, headers) == c.anyHeader \/ \E h \in c.headers : headers \subseteq {h}
areHeadersAllowed(c, headers) == c.anyHeader \/ headers \subseteq c.headers

\* Mutant of AllowOrigin: the page's own origin is named.
AllowOriginEchoed(c, origin) == origin

\* Access-Control-Allow-Origin.
AllowOrigin(c, origin) == IF c.anyOrigin THEN Star ELSE origin

\* An answer with no Access-Control header.
Bare == [origin |-> NoOrigin, methods |-> {}, headers |-> {}, credentials |-> FALSE]

Allowance(c, q, methods, headers) ==
  [origin |-> AllowOrigin(c, q.origin), methods |-> methods, headers |-> headers, credentials |-> c.credentials]

\* handlePreflight: all is admitted, or no header tells why not.
handlePreflight(c, q) ==
  IF /\ q.origin # NoOrigin /\ isOriginAllowed(c, q.origin)
     /\ isMethodAllowed(c, q.method) /\ areHeadersAllowed(c, q.headers)
  THEN Allowance(c, q, {q.method}, q.headers) ELSE Bare

\* handleActualRequest.
handleActualRequest(c, q) ==
  IF q.origin # NoOrigin /\ isOriginAllowed(c, q.origin) /\ isMethodAllowed(c, q.method)
  THEN Allowance(c, q, {}, {}) ELSE Bare
================================================================================
