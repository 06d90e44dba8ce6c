------------------------------- MODULE OidcLogin -------------------------------
(***************************************************************************)
(* /oidc/login and /oidc/stepup (internal/routes/auth/oidc): one user's    *)
(* requests, from the listing of the strategies to the decision.  Issuing  *)
(* the credential is ClientConfig's.                                       *)
(*                                                                         *)
(* The IdP is external.  It keeps one session for the user, answers at its *)
(* own clock, and honours max_age: an older session is not reused.         *)
(***************************************************************************)
EXTENDS Integers

CONSTANTS
  Request,
  Group, Reserved,  \* groups, and those with ReservedGroupPrefix
  StepUpGroup,      \* krateo:loa:2
  Acr,              \* authentication context classes
  NoAcr,            \* the empty one, and what a token without acr reads as
  Config,           \* the OIDCConfigs an administrator may set
  MinStepUpTTL,     \* stepup.go's
  Second,           \* units of time in a second
  MaxDrift,         \* bound on how far the IdP's clock is off
  MaxTime,          \* bound on the clock
  None              \* nothing there

StepUp == [acrValues: SUBSET Acr, maxAge: Int, ttl: Int]

Session == [at: Nat, acr: Acr]

\* What the authorization code stands for: when the user had
\* authenticated, and the auth_time and acr of the ID token it is exchanged for.
Code == [at: Nat, authTime: Int \cup {None}, acr: Acr]

ASSUME OidcLoginAssumption ==
  /\ StepUpGroup \in Reserved /\ Reserved \subseteq Group
  /\ NoAcr \in Acr /\ None \notin Int
  /\ None \notin Config /\ None \notin Code
  /\ Config \subseteq [allowed: SUBSET Group, enrich: BOOLEAN, stepUp: StepUp \cup {None}]
  /\ Second \in Nat \ {0} /\ MinStepUpTTL \in Int /\ MaxDrift \in Nat /\ MaxTime \in Nat

VARIABLES
  now,      \* authn's clock
  drift,    \* what the IdP's clock is ahead
  config,   \* the OIDCConfig
  session,  \* the user's authentication at the IdP: none or one
  req       \* the requests

vars == <<now, drift, config, session, req>>

Cause == {"Failed", "GroupNotAllowed", "StepUpNotEnabled", "StepUpMisconfigured",
          "InsufficientAssurance", "StaleAuthentication"}
Pc == {"new", "listed", "authorized", "exchange", "enrich", "decide", "granted"} \cup Cause

\* asked: the spec.stepUp the authorization request was made from; groups: those
\* the sources assert, in the end those of the identity; decided: when.
Work == [pc: Pc, stepup: BOOLEAN, asked: StepUp \cup {None}, code: Code \cup {None},
         cfg: Config \cup {None}, groups: SUBSET Group, decided: Nat]

TypeOK ==
  /\ now \in 0..MaxTime /\ drift \in -MaxDrift..MaxDrift
  /\ config \in Config
  /\ session \in SUBSET Session
  /\ req \in [Request -> Work]
  /\ \A r \in Request :
       /\ req[r].pc \notin {"new", "listed"} => req[r].code # None
       /\ req[r].pc \notin {"new", "listed", "authorized", "Failed"} => req[r].cfg # None

Init ==
  /\ now = 0 /\ drift \in -MaxDrift..MaxDrift
  /\ config \in Config
  /\ session \in {{}} \cup {{[at |-> 0, acr |-> a]} : a \in Acr}
  /\ req = [r \in Request |-> [pc |-> "new", stepup |-> FALSE, asked |-> None, code |-> None,
                               cfg |-> None, groups |-> {}, decided |-> 0]]

Becomes(r, w) == req' = [req EXCEPT ![r] = w]

--------------------------------------------------------------------------------
(* The decisions *)

\* Mutant of validate: the empty acr value is let through.
validateEmptyAcr(s) == s.acrValues # {} /\ s.maxAge > 0 /\ s.ttl >= MinStepUpTTL

validate(s) ==
  /\ s.acrValues # {} /\ s.maxAge > 0 /\ s.ttl >= MinStepUpTTL
  /\ NoAcr \notin s.acrValues

\* max_age of the advertised request, in seconds.
MaxAge(s) == s.maxAge \div Second

\* Mutant of checkStepUp: the age is cut to seconds before it is compared.
checkStepUpTruncated(s, c) ==
  IF s = None                      THEN "StepUpNotEnabled"
  ELSE IF ~validate(s)             THEN "StepUpMisconfigured"
  ELSE IF c.acr \notin s.acrValues THEN "InsufficientAssurance"
  ELSE IF c.authTime = None \/ MaxAge([s EXCEPT !.maxAge = now - c.authTime]) * Second > s.maxAge
                                   THEN "StaleAuthentication"
  ELSE "granted"

\* Mutant of checkStepUp: an authentication as old as maxAge is too old.
checkStepUpAtMaxAge(s, c) ==
  IF s = None                          THEN "StepUpNotEnabled"
  ELSE IF ~validate(s)                 THEN "StepUpMisconfigured"
  ELSE IF c.acr \notin s.acrValues     THEN "InsufficientAssurance"
  ELSE IF c.authTime = None \/ now - c.authTime >= s.maxAge THEN "StaleAuthentication"
  ELSE "granted"

checkStepUp(s, c) ==
  IF s = None                         THEN "StepUpNotEnabled"
  ELSE IF ~validate(s)                THEN "StepUpMisconfigured"
  ELSE IF c.acr \notin s.acrValues    THEN "InsufficientAssurance"
  ELSE IF c.authTime = None           THEN "StaleAuthentication"
  ELSE IF now - c.authTime > s.maxAge THEN "StaleAuthentication"
  ELSE "granted"

\* Mutant of Identity: a reserved group an identity source asserts is kept.
IdentityKeepsReserved(groups) == groups

\* Reserved groups are dropped before anything is decided.
Identity(groups) == groups \ Reserved

checkAllowedGroups(allowed, groups) == allowed = {} \/ groups \cap allowed # {}

--------------------------------------------------------------------------------
(* The IdP and the portal *)

\* The portal reads /strategies and sends the user to the IdP, with the step-up's
\* acr_values and max_age when there is a valid spec.stepUp, or without.  The code
\* may be posted to either route.
ListStrategies(r) ==
  /\ req[r].pc = "new"
  /\ \E b \in BOOLEAN, s \in {config.stepUp, None} :
       /\ s # None => validate(s)
       /\ Becomes(r, [req[r] EXCEPT !.pc = "listed", !.stepup = b, !.asked = s])
  /\ UNCHANGED <<now, drift, config, session>>

Reusable(s, asked) ==
  asked # None => s.acr \in asked.acrValues /\ now - s.at <= MaxAge(asked) * Second

\* auth_time is in whole seconds of the IdP's clock.
Stamped(t) == ((t + drift) \div Second) * Second

\* External: the IdP reuses the session or has the user authenticate, at a level it
\* chooses; it may leave auth_time out.
Authorize(r) ==
  /\ req[r].pc = "listed"
  /\ \E s \in {p \in session : Reusable(p, req[r].asked)} \cup {[at |-> now, acr |-> a] : a \in Acr},
        t \in BOOLEAN :
       /\ session' = {s}
       /\ Becomes(r, [req[r] EXCEPT !.pc = "authorized",
                        !.code = [at |-> s.at, authTime |-> IF t THEN Stamped(s.at) ELSE None,
                                  acr |-> s.acr]])
  /\ UNCHANGED <<now, drift, config>>

--------------------------------------------------------------------------------
(* authenticate and the two handlers *)

\* Mutant of GetConfig: after an error the handler goes on with no configuration.
GetConfigUnchecked(r) ==
  /\ req[r].pc = "authorized"
  /\ \E c \in {config, None} : Becomes(r, [req[r] EXCEPT !.pc = "exchange", !.cfg = c])
  /\ UNCHANGED <<now, drift, config, session>>

\* getConfig: what the request goes by is the OIDCConfig of this moment.
GetConfig(r) ==
  /\ req[r].pc = "authorized"
  /\ Becomes(r, [req[r] EXCEPT !.pc = "exchange", !.cfg = config])
  /\ UNCHANGED <<now, drift, config, session>>

\* doLogin: the code is exchanged, the ID token validated and its claims read.
DoLogin(r) ==
  /\ req[r].pc = "exchange"
  /\ \E g \in SUBSET Group :
       Becomes(r, [req[r] EXCEPT !.pc = IF req[r].cfg.enrich THEN "enrich" ELSE "decide",
                                 !.groups = g])
  /\ UNCHANGED <<now, drift, config, session>>

\* The RESTAction's answer may replace the groups, never acr or auth_time.
Enrich(r) ==
  /\ req[r].pc = "enrich"
  /\ \E g \in SUBSET Group : Becomes(r, [req[r] EXCEPT !.pc = "decide", !.groups = g])
  /\ UNCHANGED <<now, drift, config, session>>

\* A lookup, the exchange, the ID token's checks or the RESTAction fails.
Fails(r) ==
  /\ req[r].pc \in {"authorized", "exchange", "enrich"}
  /\ Becomes(r, [req[r] EXCEPT !.pc = "Failed"])
  /\ UNCHANGED <<now, drift, config, session>>

Decide(r) ==
  /\ req[r].pc = "decide"
  /\ LET w       == req[r]
         groups  == Identity(w.groups)
         outcome == IF ~checkAllowedGroups(w.cfg.allowed, groups) THEN "GroupNotAllowed"
                    ELSE IF w.stepup THEN checkStepUp(w.cfg.stepUp, w.code) ELSE "granted"
     IN Becomes(r, [w EXCEPT !.pc = outcome, !.decided = now,
                      !.groups = IF outcome = "granted" /\ w.stepup THEN groups \cup {StepUpGroup}
                                 ELSE groups])
  /\ UNCHANGED <<now, drift, config, session>>

\* An administrator sets another OIDCConfig.
SetConfig ==
  /\ config' \in Config \ {config}
  /\ UNCHANGED <<now, drift, session, req>>

Tick ==
  /\ now < MaxTime
  /\ now' = now + 1
  /\ UNCHANGED <<drift, config, session, req>>

Next ==
  \/ SetConfig \/ Tick
  \/ \E r \in Request :
       \/ ListStrategies(r) \/ Authorize(r) \/ GetConfig(r) \/ DoLogin(r) \/ Enrich(r)
       \/ Fails(r) \/ Decide(r)

Spec == Init /\ [][Next]_vars

--------------------------------------------------------------------------------
(* Properties *)

\* Real age of the authentication a request was decided on.
Age(w) == w.decided - w.code.at

\* A step-up is granted only on an authentication at a configured, named level that
\* really is no older than maxAge, but for the drift of the IdP's clock: whatever
\* else the user did at the IdP, however long enrichment took and whatever the
\* RESTAction answered (checkStepUp, updateConfig).
StepUpProven ==
  \A r \in Request : LET w == req[r] IN
    w.pc = "granted" /\ w.stepup =>
      /\ w.cfg.stepUp # None
      /\ w.code.acr \in w.cfg.stepUp.acrValues \ {NoAcr}
      /\ Age(w) <= w.cfg.stepUp.maxAge + MaxDrift

\* An authentication with an auth_time is refused as stale only when it is older than
\* maxAge, but for the drift and the seconds auth_time is rounded down to.
NotStaleTooSoon ==
  \A r \in Request : LET w == req[r] IN
    w.pc = "StaleAuthentication" /\ w.code.authTime # None =>
      Age(w) > w.cfg.stepUp.maxAge - MaxDrift - (Second - 1)

\* Who is let in carries a reserved group only by a step-up, and was admitted by a
\* group that is not reserved: allowedGroups that name krateo:loa:2 admit nobody,
\* not even who has just proven it (checkAllowedGroups, NewDefaultUser).
AdmittedByFinalGroups ==
  \A r \in Request : LET w == req[r] IN
    w.pc = "granted" =>
      /\ w.groups \cap Reserved = (IF w.stepup THEN {StepUpGroup} ELSE {})
      /\ w.cfg.allowed = {} \/ (w.groups \ Reserved) \cap w.cfg.allowed # {}
================================================================================
