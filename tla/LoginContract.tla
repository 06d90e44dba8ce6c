----------------------------- MODULE LoginContract -----------------------------
(***************************************************************************)
(* The logins as their callers see them (internal/routes/auth): what each  *)
(* asks of whom, in which order, and how it answers (internal/status).     *)
(* One caller sends a request of one strategy again and again, or signs in *)
(* anew, while others edit what the login goes by.                         *)
(*                                                                         *)
(* What a login needs is a set of facts; any of them may change while it   *)
(* is under way.  A sign-in at an identity provider is good for one        *)
(* exchange of its code.                                                   *)
(***************************************************************************)
EXTENDS Naturals, Sequences, FiniteSets

CONSTANTS
  Strategy,   \* the logins the caller may use
  MaxLacking, \* bound on the facts that do not hold at a time
  Busy        \* whether the LDAP server may answer that it can't just now

ASSUME LoginContractAssumption ==
  /\ Strategy \subseteq {"basic", "ldap", "oauth", "oidc", "stepup", "serviceaccount"}
  /\ MaxLacking \in Nat /\ Busy \in BOOLEAN

VARIABLES
  strategy, \* the caller's
  holds,    \* the facts that hold
  stage,    \* the stage its request is at; 0: it waits for no answer
  answer,   \* the answer to the last request
  missed,   \* the facts that did not hold at some time since the request came in
  lacking,  \* those that have not held at any
  standing, \* the answers, but those that say to retry, to requests since whose
            \* receipt nothing changed
  calm      \* from here on nobody changes anything and no call fails

vars == <<strategy, holds, stage, answer, missed, lacking, standing, calm>>

--------------------------------------------------------------------------------
(* Answers and stages *)

CauseError(code, cause) == [code |-> code, cause |-> cause]

Refused(cause) == CauseError(403, cause)
Failed(cause)  == CauseError(500, cause)
Granted        == CauseError(200, "")
NoAnswer       == CauseError(0, "")  \* the connection is gone, or there was no request

\* A fact may be of several things, each asked for at its own time.
Need(fact, answers) == [fact |-> fact, answers |-> answers]

\* A call to somebody else, or none: how a call that fails is answered, and what must
\* hold if it succeeds, in the order of the tests.
Stage(fails, needs) == [fails |-> fails, needs |-> needs]

Request(needs) == Stage({}, needs)
Issue          == Stage({Failed("IssuanceFailed")}, <<>>)

Credentials == Request(<<Need("sent", {CauseError(401, "MissingCredentials")})>>)

UserGet == Stage({Failed("UserLookupFailed")},
  <<Need("known", {Refused("InvalidCredentials")}), Need("valid", {Failed("PasswordSecretMissing")})>>)

comparePassword == Stage({Failed("PasswordLookupFailed")},
  <<Need("valid", {Failed("PasswordSecretMissing")}), Need("proof", {Refused("InvalidCredentials")})>>)

basic == <<Credentials, UserGet, comparePassword, Issue>>

\* Mutant of serverFailure: it refuses the caller.
serverFailureRefuses(cause) == {Refused("InvalidCredentials")}

\* A lost connection, or, from a server that may be busy, a result code that says so
\* and is answered like any other.
serverFailure(cause) ==
  {Failed("LDAPUnavailable")} \cup (IF Busy THEN {Failed(cause)} ELSE {})

\* The bind as the user: what refusesUser names is the server's verdict.
UserBind == Stage(serverFailure("LDAPBindFailed"), <<Need("proof", {Refused("InvalidCredentials")})>>)

JSONBody == Request(<<
  Need("sent", {CauseError(400, "MissingConfigName"), CauseError(400, "InvalidRequestBody")}) >>)

LDAPConfigGet == Stage({Failed("LDAPConfigLookupFailed")}, <<
  Need("configured", {CauseError(404, "LDAPConfigNotFound")}),
  Need("valid", {Failed("LDAPConfigInvalid"), Failed("LDAPConfigLookupFailed")}) >>)

AdminBind == Stage(serverFailure("LDAPBindFailed"), <<Need("client", {Failed("LDAPBindFailed")})>>)

Search == Stage(serverFailure("LDAPSearchFailed"), <<
  Need("valid", {Failed("LDAPSearchFailed")}),
  Need("known", {Refused("InvalidCredentials")}),
  Need("unambiguous", {CauseError(300, "AmbiguousUser")}) >>)

GroupSearch == Stage(serverFailure("LDAPSearchFailed"), <<
  Need("valid", {Failed("LDAPConfigInvalid"), Failed("LDAPSearchFailed")}) >>)

ldap == <<JSONBody, LDAPConfigGet, AdminBind, Search, UserBind, GroupSearch, Issue>>

BearerToken == Request(<<Need("sent", {CauseError(401, "MissingBearer")})>>)

TokenReview == Stage({Failed("TokenReviewFailed")}, <<
  Need("proof", {Refused("TokenNotAuthenticated"), Refused("AudienceMismatch"),
                 Refused("NotAServiceAccount")}) >>)

ServiceAccountForSA == Stage({Failed("MappingLookupFailed")}, <<
  Need("known", {Refused("NoMapping")}),
  Need("unambiguous", {Refused("AmbiguousMapping")}) >>)

serviceaccount == <<BearerToken, TokenReview, ServiceAccountForSA, Issue>>

Code == Request(<<Need("sent", {CauseError(400, "MissingConfigName"),
                                CauseError(400, "MissingAuthorizationCode")})>>)

\* Mutant of Exchange: a refused code is not told from other errors.
ExchangeUnclassified == Stage({Failed("TokenExchangeFailed")}, <<
  Need("valid", {Failed("TokenExchangeFailed")}),
  Need("client", {Failed("TokenExchangeFailed")}),
  Need("code", {Failed("TokenExchangeFailed")}) >>)

\* The code exchange, at a token endpoint nobody checked: authn's client credentials
\* are refused, or the code is.
Exchange == Stage({Failed("TokenExchangeFailed")}, <<
  Need("valid", {Failed("TokenExchangeFailed")}),
  Need("client", {Failed("TokenExchangeFailed")}),
  Need("code", {Refused("AuthorizationCodeRejected")}) >>)

ClientSecret == Stage({Failed("ClientSecretLookupFailed")},
                      <<Need("valid", {Failed("ClientSecretLookupFailed")})>>)

OAuthConfigGet == Stage({Failed("OAuthConfigLookupFailed")},
                        <<Need("configured", {CauseError(404, "OAuthConfigNotFound")})>>)

OAuthEnrich == Stage({Failed("TokenExchangeFailed"), Failed("RESTActionFailed")}, <<>>)

oauth == <<Code, OAuthConfigGet, ClientSecret, Exchange, OAuthEnrich, Issue>>

OIDCConfigGet == Stage({Failed("OIDCConfigLookupFailed")},
                       <<Need("configured", {CauseError(404, "OIDCConfigNotFound")})>>)

fetchDiscovery == {Failed("OIDCDiscoveryFailed")}
applyDiscovery == Need("valid", {Failed("OIDCConfigInvalid")})

\* Without a discoveryURL nothing is asked here, and with every endpoint in the spec
\* applyDiscovery is not: what is wrong then shows later.
Discovery == Stage(fetchDiscovery, <<Need("valid", {Failed("IssuerConflict")}), applyDiscovery>>)

\* The ID token's claims.  Its exp, like acr and auth_time, is of one sign-in.
IdToken == Request(<<
  Need("token", {Refused("IDTokenInvalid")}),
  Need("issuer", {Failed("IssuerUnknown")}),
  Need("token", {Refused("IssuerMismatch"), Refused("AudienceMismatch"), Refused("IDTokenInvalid")}),
  Need("fresh", {Refused("TokenExpired")}),
  Need("token", {Refused("IDTokenInvalid")}) >>)

UserInfo == Stage({Failed("TokenExchangeFailed"), Failed("UserInfoFailed")}, <<>>)

Enrich == Stage({Failed("RESTActionFailed")}, <<>>)

\* Mutant of Admission: nobody asks for the groups.
AdmissionSkipped == Request(<<>>)

Admission == Request(<<Need("admitted", {Refused("GroupNotAllowed")})>>)

authenticate ==
  <<Code, OIDCConfigGet, Discovery, ClientSecret, Exchange, IdToken, UserInfo, Enrich, Admission>>

checkStepUp == Request(<<
  Need("enabled", {Refused("StepUpNotEnabled"), Failed("StepUpMisconfigured")}),
  Need("fresh", {Refused("InsufficientAssurance"), Refused("StaleAuthentication")}) >>)

Pipeline == [
  basic |-> basic, ldap |-> ldap, oauth |-> oauth, serviceaccount |-> serviceaccount,
  oidc   |-> authenticate \o <<Issue>>,
  stepup |-> authenticate \o <<checkStepUp, Issue>> ]

Calls == Pipeline[strategy]
Needs == Calls[stage].needs

\* What a login of each kind goes by.
Concern == [
  basic  |-> {"sent", "known", "valid", "proof"},
  ldap   |-> {"sent", "configured", "valid", "client", "known", "unambiguous", "proof"},
  serviceaccount |-> {"sent", "proof", "known", "unambiguous"},
  oauth  |-> {"sent", "configured", "valid", "client", "code"},
  oidc   |-> {"sent", "configured", "valid", "client", "code", "issuer", "token", "fresh", "admitted"},
  stepup |-> {"sent", "configured", "valid", "client", "code", "issuer", "token", "fresh", "admitted",
              "enabled"} ]

Facts == Concern[strategy]

--------------------------------------------------------------------------------
(* The caller and its request *)

Init ==
  /\ strategy \in Strategy
  /\ holds \in SUBSET Facts /\ Cardinality((Facts \ holds) \ {"code", "fresh"}) <= MaxLacking
  /\ stage = 0 /\ answer = NoAnswer /\ missed = {} /\ lacking = {} /\ standing = {}
  /\ calm = FALSE

Receive ==
  /\ stage' = 1 /\ answer' = NoAnswer
  /\ missed' = Facts \ holds' /\ lacking' = Facts \ holds'

\* The caller sends its request, the same as before if there was one.
Send ==
  /\ stage = 0
  /\ UNCHANGED <<strategy, holds, standing, calm>>
  /\ Receive

\* The user signs in at the identity provider anew, and the request has a new code.
SignIn ==
  /\ stage = 0 /\ "code" \in Facts
  /\ holds' = holds \cup ({"code", "fresh"} \cap Facts)
  /\ Receive
  /\ standing' = {}
  /\ UNCHANGED <<strategy, calm>>

\* What the documentation of the causes has a caller do (docs/api.md).
RetryLater == {
  "UserLookupFailed", "PasswordLookupFailed", "LDAPConfigLookupFailed", "LDAPUnavailable",
  "TokenReviewFailed", "MappingLookupFailed", "OAuthConfigLookupFailed", "OIDCConfigLookupFailed",
  "OIDCDiscoveryFailed", "ClientSecretLookupFailed", "TokenExchangeFailed", "UserInfoFailed",
  "RESTActionFailed", "IssuanceFailed" }

SignInAgain == {"AuthorizationCodeRejected", "TokenExpired", "InsufficientAssurance", "StaleAuthentication"}

\* Any other advice is to change something first, the credentials or the access.
Advised == answer = NoAnswer \/ answer.cause \in RetryLater \/ answer \notin standing

--------------------------------------------------------------------------------
(* The handlers *)

Answer(a) ==
  /\ answer' = a /\ stage' = 0
  /\ standing' = IF a.code >= 300 /\ a.cause \notin RetryLater /\ missed = lacking
                 THEN standing \cup {a} ELSE standing

Exchanging == \E i \in DOMAIN Needs : Needs[i].fact = "code"

\* A call that is not answered well may have used up the code.
Unanswered == holds' \in {holds} \cup (IF Exchanging THEN {holds \ {"code"}} ELSE {})

\* Mutant of Last: one stage more.
LastOff == stage > Len(Calls)

Last == stage = Len(Calls)

\* Whether what the call asks of a fact may be in order: it is the last call to ask for
\* the fact that finds out all that is wrong with it.
Passes(fact) ==
  \/ fact \notin lacking
  \/ \E k \in DOMAIN Calls : k > stage /\ \E i \in DOMAIN Calls[k].needs : Calls[k].needs[i].fact = fact

\* The call succeeds and shows what it must; in the end the caller is let in.  What it
\* shows of a fact may be as old as the request: configuration is read once.
Succeed ==
  /\ stage # 0
  /\ \A i \in DOMAIN Needs : Passes(Needs[i].fact)
  /\ holds' = (IF Exchanging THEN holds \ {"code"} ELSE holds)
  /\ IF Last THEN Answer(Granted) ELSE stage' = stage + 1 /\ UNCHANGED <<answer, standing>>
  /\ UNCHANGED <<strategy, missed, lacking, calm>>

\* The call succeeds, and the first test that fails is answered.
Refuse ==
  /\ stage # 0
  /\ \E i \in DOMAIN Needs :
       /\ Needs[i].fact \in missed
       /\ \A j \in 1..(i - 1) :
            \/ Passes(Needs[j].fact)
            \/ \E l \in DOMAIN Needs : l > j /\ Needs[l].fact = Needs[j].fact
       /\ \E a \in Needs[i].answers : Answer(a)
  /\ UNCHANGED <<strategy, holds, missed, lacking, calm>>

\* The call fails.
Fail ==
  /\ stage # 0 /\ ~calm
  /\ \E a \in Calls[stage].fails : Answer(a)
  /\ Unanswered
  /\ UNCHANGED <<strategy, missed, lacking, calm>>

\* authn is gone before it has answered, or the connection is.
Lose ==
  /\ stage # 0 /\ ~calm
  /\ Answer(NoAnswer)
  /\ Unanswered
  /\ UNCHANGED <<strategy, missed, lacking, calm>>

\* Somebody changes what the login goes by, or the caller corrects its request.
Edit ==
  /\ ~calm
  /\ \E f \in Facts \ {"code", "fresh"} :
       holds' = IF f \in holds THEN holds \ {f} ELSE holds \cup {f}
  /\ Cardinality((Facts \ holds') \ {"code", "fresh"}) <= MaxLacking
  /\ missed' = missed \cup (Facts \ holds') /\ lacking' = lacking \ holds'
  /\ standing' = {}
  /\ UNCHANGED <<strategy, stage, answer, calm>>

CalmDown ==
  /\ ~calm
  /\ calm' = TRUE
  /\ UNCHANGED <<strategy, holds, stage, answer, missed, lacking, standing>>

Next == Send \/ SignIn \/ Succeed \/ Refuse \/ Fail \/ Lose \/ Edit \/ CalmDown

Spec == Init /\ [][Next]_vars

\* The caller does as it is told, and a handler goes on to its end.
Fairness ==
  /\ WF_vars(Advised /\ Send)
  /\ SF_vars(answer.cause \in SignInAgain /\ SignIn)
  /\ WF_vars(Succeed \/ Refuse)

FairSpec == Spec /\ Fairness

--------------------------------------------------------------------------------
(* Properties *)

TypeOK ==
  /\ strategy \in Strategy
  /\ holds \subseteq Facts /\ lacking \subseteq missed /\ missed \subseteq Facts
  /\ stage \in 0..Len(Calls)
  /\ standing \subseteq UNION {Calls[k].fails \cup UNION {Calls[k].needs[i].answers : i \in DOMAIN Calls[k].needs} :
                               k \in DOMAIN Calls}

\* Who is let in was admitted on every count: whatever was edited meanwhile, each fact
\* its login goes by held at some time while the request was under way (the handlers'
\* early returns).
GrantedDeserved == answer = Granted /\ stage = 0 => lacking = {}

\* A 401 or 403 is no passing failure: a request refused is refused again as long as
\* nothing has changed since authn received it (status.CauseError).
RefusalStands == \A a \in standing : a.code \in {401, 403} => answer # Granted

\* Told, by a busy LDAP server or a wrong configuration, that retrying won't help until
\* the configuration is fixed (serverFailure's cause, docs/api.md), and sends no more.
Misled == \E a \in standing : answer = a /\ a.cause \in {"LDAPBindFailed", "LDAPSearchFailed"}

\* A caller that is entitled when things calm down, and does what the documentation
\* of each cause says, gets in, the loss of an answer after the code was used up
\* included (codeexchange.Refusal), unless a busy LDAP server has misled it before.
\* Of no other failure does the advice lead nowhere.
EntitledGetsIn ==
  (calm /\ Facts \ holds \subseteq {"code", "fresh"}) ~> (answer = Granted \/ (Busy /\ Misled))
================================================================================
