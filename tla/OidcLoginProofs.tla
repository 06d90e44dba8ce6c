---------------------------- MODULE OidcLoginProofs ----------------------------
(* What a login and a step-up through OIDC prove, for every configuration, clock   *)
(* and IdP that OidcLoginAssumption admits.                                        *)
EXTENDS OidcLogin, TLAPS

\* auth_time is the IdP's clock at the authentication, rounded down to a second.
Dated(c) == c.authTime # None => /\ c.authTime <= c.at + drift
                                 /\ c.at + drift - (Second - 1) <= c.authTime

Proven(w) ==
  w.pc = "granted" /\ w.stepup =>
    /\ w.cfg.stepUp # None
    /\ w.code.acr \in w.cfg.stepUp.acrValues \ {NoAcr}
    /\ Age(w) <= w.cfg.stepUp.maxAge + MaxDrift

NotTooSoon(w) ==
  w.pc = "StaleAuthentication" /\ w.code.authTime # None =>
    Age(w) > w.cfg.stepUp.maxAge - MaxDrift - (Second - 1)

Admitted(w) ==
  w.pc = "granted" =>
    /\ w.groups \cap Reserved = (IF w.stepup THEN {StepUpGroup} ELSE {})
    /\ w.cfg.allowed = {} \/ (w.groups \ Reserved) \cap w.cfg.allowed # {}

\* How far a request has come, and what it knows by then.
Known(w) ==
  /\ w.pc \notin {"new", "listed"} => w.code # None
  /\ w.pc \notin {"new", "listed", "authorized", "Failed"} => w.cfg # None

Good(w) ==
  /\ Known(w)
  /\ w.code # None => Dated(w.code)
  /\ Proven(w) /\ NotTooSoon(w) /\ Admitted(w)

Inv ==
  /\ now \in 0..MaxTime /\ drift \in -MaxDrift..MaxDrift
  /\ config \in Config
  /\ session \in SUBSET Session
  /\ req \in [Request -> Work]
  /\ \A r \in Request : Good(req[r])

LEMMA InvImplies ==
  ASSUME Inv
  PROVE TypeOK /\ StepUpProven /\ NotStaleTooSoon /\ AdmittedByFinalGroups
<1>1. \A r \in Request : Known(req[r]) /\ Proven(req[r]) /\ NotTooSoon(req[r]) /\ Admitted(req[r])
  BY DEF Inv, Good
<1>2. TypeOK
  BY <1>1 DEF Inv, TypeOK, Known
<1>3. StepUpProven
  BY <1>1 DEF StepUpProven, Proven
<1>4. NotStaleTooSoon
  BY <1>1 DEF NotStaleTooSoon, NotTooSoon
<1>5. AdmittedByFinalGroups
  BY <1>1 DEF AdmittedByFinalGroups, Admitted
<1> QED
  BY <1>2, <1>3, <1>4, <1>5

\* Rounding down to a whole second loses less than a second.
LEMMA StampedBounds ==
  ASSUME NEW t \in Nat, drift \in Int, Second \in Nat \ {0}
  PROVE /\ Stamped(t) \in Int
        /\ Stamped(t) <= t + drift
        /\ t + drift - (Second - 1) <= Stamped(t)
<1>1. PICK x \in Int : x = t + drift
  OBVIOUS
<1>2. PICK q \in Int : q = x \div Second
  BY SMT
<1>3. q * Second <= x /\ x < q * Second + Second
  BY <1>2, SMT
<1>4. q * Second \in Int
  OBVIOUS
<1> QED
  BY <1>1, <1>2, <1>3, <1>4 DEF Stamped

\* A step of one request keeps the invariant when what becomes of the request is good.
LEMMA OneRequest ==
  ASSUME Inv, NEW r \in Request, NEW w \in Work, Becomes(r, w), Good(w),
         now' = now, drift' = drift, config' = config, session' \in SUBSET Session
  PROVE Inv'
<1>1. req' \in [Request -> Work]
  BY DEF Inv, Becomes
<1>2. ASSUME NEW q \in Request PROVE Good(req[q])'
  <2>1. req'[q] = IF q = r THEN w ELSE req[q]
    BY DEF Inv, Becomes
  <2>2. Good(req'[q])
    BY <2>1 DEF Inv
  <2>3. \A v \in Work : Good(v) => Good(v)'
    BY DEF Good, Known, Dated, Proven, NotTooSoon, Admitted, Age
  <2> QED
    BY <1>1, <2>2 DEF Good, Known, Dated, Proven, NotTooSoon, Admitted, Age
<1> QED
  BY <1>1, <1>2 DEF Inv

\* What is known of a request of a good state.
LEMMA RequestGood ==
  ASSUME Inv, NEW r \in Request
  PROVE /\ req[r] \in Work /\ Good(req[r])
        /\ now \in Nat /\ drift \in Int /\ drift <= MaxDrift /\ -MaxDrift <= drift
<1>1. req[r] \in Work /\ Good(req[r])
  BY DEF Inv
<1>2. now \in Nat /\ drift \in Int /\ drift <= MaxDrift /\ -MaxDrift <= drift
  BY OidcLoginAssumption DEF Inv
<1> QED
  BY <1>1, <1>2

\* A request that goes on undecided is good as long as it knows what it must.
LEMMA UndecidedGood ==
  ASSUME NEW w \in Work, w.pc \notin {"granted", "StaleAuthentication"}, Known(w),
         w.code # None => Dated(w.code)
  PROVE Good(w)
BY DEF Good, Proven, NotTooSoon, Admitted

LEMMA ListStrategiesStep ==
  ASSUME Inv, NEW r \in Request, ListStrategies(r)
  PROVE Inv'
<1>1. PICK b \in BOOLEAN, s \in {config.stepUp, None} :
        Becomes(r, [req[r] EXCEPT !.pc = "listed", !.stepup = b, !.asked = s])
  BY DEF ListStrategies
<1> DEFINE w == [req[r] EXCEPT !.pc = "listed", !.stepup = b, !.asked = s]
<1>2. req[r] \in Work /\ Good(req[r])
  BY RequestGood
<1>3. s \in StepUp \cup {None}
  BY OidcLoginAssumption DEF Inv
<1>4. w \in Work
  BY <1>2, <1>3 DEF Work, Pc
<1>5. w.pc = "listed" /\ w.code = req[r].code
  BY <1>2 DEF Work
<1>6. Good(w)
  BY <1>2, <1>4, <1>5, UndecidedGood DEF Good, Known
<1>7. session \in SUBSET Session
  BY DEF Inv
<1> QED
  BY <1>1, <1>4, <1>6, <1>7, OneRequest DEF ListStrategies

LEMMA AuthorizeStep ==
  ASSUME Inv, NEW r \in Request, Authorize(r)
  PROVE Inv'
<1> DEFINE Fresh == {[at |-> now, acr |-> a] : a \in Acr}
<1> DEFINE code(s, t) == [at |-> s.at,
                          authTime |-> IF t THEN Stamped(s.at) ELSE None, acr |-> s.acr]
<1>1. PICK s \in {p \in session : Reusable(p, req[r].asked)} \cup Fresh, t \in BOOLEAN :
        /\ session' = {s}
        /\ Becomes(r, [req[r] EXCEPT !.pc = "authorized", !.code = code(s, t)])
  BY DEF Authorize
<1> DEFINE w == [req[r] EXCEPT !.pc = "authorized", !.code = code(s, t)]
<1>2. req[r] \in Work /\ Good(req[r]) /\ now \in Nat /\ drift \in Int
  BY RequestGood
<1>3. s \in Session
  BY <1>2 DEF Inv, Session
<1>4. s.at \in Nat /\ s.acr \in Acr
  BY <1>3 DEF Session
<1>5. /\ Stamped(s.at) \in Int
      /\ Stamped(s.at) <= s.at + drift
      /\ s.at + drift - (Second - 1) <= Stamped(s.at)
  BY <1>2, <1>4, StampedBounds, OidcLoginAssumption
<1>6. code(s, t) \in Code
  BY <1>2, <1>4, <1>5 DEF Code
<1>7. w \in Work
  BY <1>2, <1>6 DEF Work, Pc
<1>8. w.pc = "authorized" /\ w.code = code(s, t)
  BY <1>2 DEF Work
<1>9. Dated(code(s, t))
  BY <1>5 DEF Dated
<1>10. Known(w)
  BY <1>6, <1>8, OidcLoginAssumption DEF Known
<1>11. Good(w)
  BY <1>7, <1>8, <1>9, <1>10, UndecidedGood
<1> QED
  BY <1>1, <1>3, <1>7, <1>11, OneRequest DEF Authorize

LEMMA GetConfigStep ==
  ASSUME Inv, NEW r \in Request, GetConfig(r)
  PROVE Inv'
<1> DEFINE w == [req[r] EXCEPT !.pc = "exchange", !.cfg = config]
<1>1. req[r] \in Work /\ Good(req[r]) /\ config \in Config /\ session \in SUBSET Session
  BY RequestGood DEF Inv
<1>2. w \in Work
  BY <1>1 DEF Work, Pc
<1>3. w.pc = "exchange" /\ w.code = req[r].code /\ w.cfg = config
  BY <1>1 DEF Work
<1>4. Known(w)
  BY <1>1, <1>3, OidcLoginAssumption DEF Known, Good, GetConfig
<1>5. Good(w)
  BY <1>1, <1>2, <1>3, <1>4, UndecidedGood DEF Good
<1> QED
  BY <1>1, <1>2, <1>5, OneRequest DEF GetConfig

\* DoLogin, Enrich and Fails: the request goes on, with other groups or none.
LEMMA GoesOn ==
  ASSUME Inv, NEW r \in Request, NEW p \in {"enrich", "decide", "Failed"}, NEW g \in SUBSET Group,
         req[r].pc \in {"exchange", "enrich"} \/ (req[r].pc = "authorized" /\ p = "Failed"),
         Becomes(r, [req[r] EXCEPT !.pc = p, !.groups = g]),
         UNCHANGED <<now, drift, config, session>>
  PROVE Inv'
<1> DEFINE w == [req[r] EXCEPT !.pc = p, !.groups = g]
<1>1. req[r] \in Work /\ Good(req[r]) /\ session \in SUBSET Session
  BY RequestGood DEF Inv
<1>2. w \in Work
  BY <1>1 DEF Work, Pc, Cause
<1>3. w.pc = p /\ w.code = req[r].code /\ w.cfg = req[r].cfg
  BY <1>1 DEF Work
<1>4. Known(w)
  BY <1>1, <1>3 DEF Known, Good
<1>5. Good(w)
  BY <1>1, <1>2, <1>3, <1>4, UndecidedGood DEF Good
<1> QED
  BY <1>1, <1>2, <1>5, OneRequest

LEMMA DecideStep ==
  ASSUME Inv, NEW r \in Request, Decide(r)
  PROVE Inv'
<1> DEFINE old     == req[r]
           groups  == Identity(old.groups)
           outcome == IF ~checkAllowedGroups(old.cfg.allowed, groups) THEN "GroupNotAllowed"
                      ELSE IF old.stepup THEN checkStepUp(old.cfg.stepUp, old.code) ELSE "granted"
           final   == IF outcome = "granted" /\ old.stepup THEN groups \cup {StepUpGroup} ELSE groups
           w       == [old EXCEPT !.pc = outcome, !.decided = now, !.groups = final]
<1>1. Becomes(r, w) /\ old.pc = "decide" /\ UNCHANGED <<now, drift, config, session>>
  BY DEF Decide
<1>2. /\ old \in Work /\ Good(old) /\ session \in SUBSET Session
      /\ now \in Nat /\ drift \in Int /\ drift <= MaxDrift /\ -MaxDrift <= drift
  BY RequestGood DEF Inv
<1>3. old.code \in Code /\ old.cfg \in Config /\ Dated(old.code)
  BY <1>1, <1>2 DEF Work, Good, Known
<1>4. final \subseteq Group
  <2>1. old.groups \subseteq Group
    BY <1>2 DEF Work
  <2> QED
    BY <2>1, OidcLoginAssumption DEF Identity
<1>5. outcome \in {"GroupNotAllowed", "granted", "StepUpNotEnabled", "StepUpMisconfigured",
                   "InsufficientAssurance", "StaleAuthentication"}
  BY DEF checkStepUp
<1>6. w \in Work
  <2>1. outcome \in Pc
    BY <1>5 DEF Pc, Cause
  <2> HIDE DEF outcome, final
  <2> QED
    BY <1>2, <1>4, <2>1 DEF Work
<1>7. /\ w.pc = outcome /\ w.code = old.code /\ w.cfg = old.cfg /\ w.stepup = old.stepup
      /\ w.groups = final /\ w.decided = now
  <2> HIDE DEF outcome, final
  <2> QED
    BY <1>2 DEF Work
<1>8. Known(w)
  BY <1>3, <1>7, OidcLoginAssumption DEF Known
<1>9. old.code.authTime # None =>
        /\ old.code.authTime \in Int
        /\ old.code.authTime <= old.code.at + drift
        /\ old.code.at + drift - (Second - 1) <= old.code.authTime
  BY <1>3 DEF Code, Dated
<1>10. old.code.at \in Nat /\ Age(w) = now - old.code.at
  BY <1>3, <1>7 DEF Code, Age
<1>11. old.cfg.stepUp # None => old.cfg.stepUp.maxAge \in Int
  BY <1>3, OidcLoginAssumption DEF StepUp
<1>12. Proven(w)
  <2> SUFFICES ASSUME outcome = "granted", old.stepup
               PROVE /\ old.cfg.stepUp # None
                     /\ old.code.acr \in old.cfg.stepUp.acrValues \ {NoAcr}
                     /\ Age(w) <= old.cfg.stepUp.maxAge + MaxDrift
    <3> HIDE DEF outcome, w
    <3> QED
      BY <1>7 DEF Proven
  <2>1. checkStepUp(old.cfg.stepUp, old.code) = "granted"
    OBVIOUS
  <2>2. /\ old.cfg.stepUp # None /\ validate(old.cfg.stepUp)
        /\ old.code.acr \in old.cfg.stepUp.acrValues
        /\ old.code.authTime # None
        /\ ~(now - old.code.authTime > old.cfg.stepUp.maxAge)
    BY <2>1 DEF checkStepUp
  <2>3. NoAcr \notin old.cfg.stepUp.acrValues
    BY <2>2 DEF validate
  <2> HIDE DEF w
  <2>4. now - old.code.at <= old.cfg.stepUp.maxAge + MaxDrift
    BY <1>2, <1>9, <1>10, <1>11, <2>2, OidcLoginAssumption
  <2> QED
    BY <1>10, <2>2, <2>3, <2>4
<1>13. NotTooSoon(w)
  <2> SUFFICES ASSUME outcome = "StaleAuthentication", old.code.authTime # None
               PROVE Age(w) > old.cfg.stepUp.maxAge - MaxDrift - (Second - 1)
    <3> HIDE DEF outcome, w
    <3> QED
      BY <1>7 DEF NotTooSoon
  <2>1. old.cfg.stepUp # None /\ now - old.code.authTime > old.cfg.stepUp.maxAge
    BY DEF checkStepUp
  <2> HIDE DEF w
  <2> QED
    BY <1>2, <1>9, <1>10, <1>11, <2>1, OidcLoginAssumption
<1>14. Admitted(w)
  <2> SUFFICES ASSUME outcome = "granted"
               PROVE /\ final \cap Reserved = (IF old.stepup THEN {StepUpGroup} ELSE {})
                     /\ old.cfg.allowed = {} \/ (final \ Reserved) \cap old.cfg.allowed # {}
    <3> HIDE DEF outcome, w, final
    <3> QED
      BY <1>7 DEF Admitted
  <2>1. checkAllowedGroups(old.cfg.allowed, groups)
    OBVIOUS
  <2>2. final = IF old.stepup THEN groups \cup {StepUpGroup} ELSE groups
    OBVIOUS
  <2>3. groups \cap Reserved = {} /\ StepUpGroup \in Reserved
    BY OidcLoginAssumption DEF Identity
  <2> HIDE DEF groups, final
  <2>4. final \ Reserved = groups
    BY <2>2, <2>3
  <2>5. old.cfg.allowed = {} \/ groups \cap old.cfg.allowed # {}
    BY <2>1 DEF checkAllowedGroups
  <2> QED
    BY <2>2, <2>3, <2>4, <2>5
<1> HIDE DEF w
<1>15. Good(w)
  BY <1>3, <1>7, <1>8, <1>12, <1>13, <1>14 DEF Good
<1> QED
  BY <1>1, <1>2, <1>6, <1>15, OneRequest

\* What becomes of the configuration and of the clock leaves the requests alone.
LEMMA OthersStep ==
  ASSUME Inv, SetConfig \/ Tick \/ UNCHANGED vars
  PROVE Inv'
<1>1. req' = req /\ drift' = drift /\ session' = session
  BY DEF SetConfig, Tick, vars
<1>2. now' \in 0..MaxTime /\ config' \in Config
  BY OidcLoginAssumption DEF Inv, SetConfig, Tick, vars
<1>3. \A r \in Request : Good(req[r])'
  BY <1>1 DEF Inv, Good, Known, Dated, Proven, NotTooSoon, Admitted, Age
<1> QED
  BY <1>1, <1>2, <1>3 DEF Inv

LEMMA InitInv == Init => Inv
<1> SUFFICES ASSUME Init PROVE Inv
  OBVIOUS
<1>1. now \in 0..MaxTime /\ drift \in -MaxDrift..MaxDrift /\ config \in Config
  BY OidcLoginAssumption DEF Init
<1>2. session \in SUBSET Session
  BY DEF Init, Session
<1>3. \A r \in Request : /\ req[r] \in Work
                         /\ req[r].pc = "new" /\ req[r].code = None
  BY DEF Init, Work, Pc
<1>4. req \in [Request -> Work]
  BY <1>3 DEF Init
<1>5. \A r \in Request : Good(req[r])
  BY <1>3, UndecidedGood DEF Known
<1> QED
  BY <1>1, <1>2, <1>4, <1>5 DEF Inv

LEMMA NextInv == Inv /\ [Next]_vars => Inv'
<1> SUFFICES ASSUME Inv, [Next]_vars PROVE Inv'
  OBVIOUS
<1>1. CASE SetConfig \/ Tick \/ UNCHANGED vars
  BY <1>1, OthersStep
<1>2. ASSUME NEW r \in Request, ListStrategies(r) PROVE Inv'
  BY <1>2, ListStrategiesStep
<1>3. ASSUME NEW r \in Request, Authorize(r) PROVE Inv'
  BY <1>3, AuthorizeStep
<1>4. ASSUME NEW r \in Request, GetConfig(r) PROVE Inv'
  BY <1>4, GetConfigStep
<1>5. ASSUME NEW r \in Request, DoLogin(r) PROVE Inv'
  BY <1>5, GoesOn DEF DoLogin
<1>6. ASSUME NEW r \in Request, Enrich(r) PROVE Inv'
  BY <1>6, GoesOn DEF Enrich
<1>7. ASSUME NEW r \in Request, Fails(r) PROVE Inv'
  <2>1. req[r] \in Work
    BY RequestGood
  <2>2. /\ req[r].groups \in SUBSET Group
        /\ [req[r] EXCEPT !.pc = "Failed"] =
             [req[r] EXCEPT !.pc = "Failed", !.groups = req[r].groups]
    BY <2>1 DEF Work
  <2> QED
    BY <1>7, <2>2, GoesOn DEF Fails
<1>8. ASSUME NEW r \in Request, Decide(r) PROVE Inv'
  BY <1>8, DecideStep
<1> QED
  BY <1>1, <1>2, <1>3, <1>4, <1>5, <1>6, <1>7, <1>8 DEF Next

\* The requests' decisions and what they rest on: the age auth_time tells is the real
\* one but for the drift and a second (checkStepUp).
THEOREM Invariance == Spec => []Inv
<1> QED
  BY InitInv, NextInv, PTL DEF Spec

\* Every reachable state is well typed, and no request decides without a
\* configuration and an ID token (authenticate).
THEOREM TypeCorrect == Spec => []TypeOK
<1> QED
  BY Invariance, InvImplies, PTL

\* Whatever the durations, the clock's drift and the IdP's sessions, a granted step-up
\* rests on a configured level and an authentication no older than maxAge and the drift.
THEOREM StepUpsProven == Spec => []StepUpProven
<1> QED
  BY Invariance, InvImplies, PTL

\* A refusal as stale is never earlier than the drift and auth_time's rounding explain.
THEOREM RefusalsJustified == Spec => []NotStaleTooSoon
<1> QED
  BY Invariance, InvImplies, PTL

\* Who is let in carries no reserved group but a step-up's, and was not admitted by one.
THEOREM GroupsFinal == Spec => []AdmittedByFinalGroups
<1> QED
  BY Invariance, InvImplies, PTL
================================================================================
