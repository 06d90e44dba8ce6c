-------------------------- MODULE LoginContractProofs --------------------------
(* What a caller is promised by every login, however many facts do not hold at a   *)
(* time and whether or not the LDAP server may be busy.                            *)
EXTENDS LoginContract, TLAPS

--------------------------------------------------------------------------------
(* The logins *)

\* A call that fails is authn's failure, and a fact that does not hold lets nobody in.
Sound(call) ==
  /\ \A a \in call.fails : a.code = 500
  /\ \A i \in DOMAIN call.needs : \A a \in call.needs[i].answers : a.code # 200

Asks(call, fact) == \E i \in DOMAIN call.needs : call.needs[i].fact = fact

\* A login asks for all of its facts, and answers as it should what goes wrong.
Complete(calls, facts) ==
  /\ Len(calls) \in Nat \ {0} /\ DOMAIN calls = 1..Len(calls)
  /\ \A k \in 1..Len(calls) : Sound(calls[k])
  /\ \A f \in facts : \E k \in 1..Len(calls) : Asks(calls[k], f)

(* What each stage asks for *)

LEMMA SharedStages ==
  /\ Sound(Issue)
  /\ Sound(Code) /\ Asks(Code, "sent")
  /\ Sound(ClientSecret) /\ Asks(ClientSecret, "valid")
  /\ Sound(Exchange) /\ Asks(Exchange, "client") /\ Asks(Exchange, "code")
<1> USE DEF Sound, Asks, Stage, Request, Need, CauseError, Failed, Refused
<1>1. Sound(Issue)
  BY DEF Issue
<1>2. Sound(Code) /\ Asks(Code, "sent")
  BY DEF Code
<1>3. Sound(ClientSecret) /\ Asks(ClientSecret, "valid")
  BY DEF ClientSecret
<1>4. Sound(Exchange) /\ Asks(Exchange, "client") /\ Asks(Exchange, "code")
  BY DEF Exchange
<1> QED
  BY <1>1, <1>2, <1>3, <1>4

LEMMA BasicStages ==
  /\ Sound(Credentials) /\ Asks(Credentials, "sent")
  /\ Sound(UserGet) /\ Asks(UserGet, "known")
  /\ Sound(comparePassword) /\ Asks(comparePassword, "valid") /\ Asks(comparePassword, "proof")
<1> USE DEF Sound, Asks, Stage, Request, Need, CauseError, Failed, Refused
<1>1. Sound(Credentials) /\ Asks(Credentials, "sent")
  BY DEF Credentials
<1>2. Sound(UserGet) /\ Asks(UserGet, "known")
  BY DEF UserGet
<1>3. Sound(comparePassword) /\ Asks(comparePassword, "valid") /\ Asks(comparePassword, "proof")
  BY DEF comparePassword
<1> QED
  BY <1>1, <1>2, <1>3

LEMMA LDAPStages ==
  /\ Sound(JSONBody) /\ Asks(JSONBody, "sent")
  /\ Sound(LDAPConfigGet) /\ Asks(LDAPConfigGet, "configured")
  /\ Sound(AdminBind) /\ Asks(AdminBind, "client")
  /\ Sound(Search) /\ Asks(Search, "valid") /\ Asks(Search, "known") /\ Asks(Search, "unambiguous")
  /\ Sound(UserBind) /\ Asks(UserBind, "proof")
  /\ Sound(GroupSearch)
<1> USE DEF Sound, Asks, Stage, Request, Need, CauseError, Failed, Refused
<1>1. Sound(JSONBody) /\ Asks(JSONBody, "sent")
  BY DEF JSONBody
<1>2. Sound(LDAPConfigGet) /\ Asks(LDAPConfigGet, "configured")
  BY DEF LDAPConfigGet
<1>3. Sound(AdminBind) /\ Asks(AdminBind, "client")
  BY DEF AdminBind, serverFailure
<1>4. Sound(Search) /\ Asks(Search, "valid") /\ Asks(Search, "known") /\ Asks(Search, "unambiguous")
  BY DEF Search, serverFailure
<1>5. Sound(UserBind) /\ Asks(UserBind, "proof")
  BY DEF UserBind, serverFailure
<1>6. Sound(GroupSearch)
  BY DEF GroupSearch, serverFailure
<1> QED
  BY <1>1, <1>2, <1>3, <1>4, <1>5, <1>6

LEMMA ServiceAccountStages ==
  /\ Sound(BearerToken) /\ Asks(BearerToken, "sent")
  /\ Sound(TokenReview) /\ Asks(TokenReview, "proof")
  /\ Sound(ServiceAccountForSA) /\ Asks(ServiceAccountForSA, "known") /\ Asks(ServiceAccountForSA, "unambiguous")
<1> USE DEF Sound, Asks, Stage, Request, Need, CauseError, Failed, Refused
<1>1. Sound(BearerToken) /\ Asks(BearerToken, "sent")
  BY DEF BearerToken
<1>2. Sound(TokenReview) /\ Asks(TokenReview, "proof")
  BY DEF TokenReview
<1>3. Sound(ServiceAccountForSA) /\ Asks(ServiceAccountForSA, "known") /\ Asks(ServiceAccountForSA, "unambiguous")
  BY DEF ServiceAccountForSA
<1> QED
  BY <1>1, <1>2, <1>3

LEMMA OAuthStages ==
  /\ Sound(OAuthConfigGet) /\ Asks(OAuthConfigGet, "configured")
  /\ Sound(OAuthEnrich)
<1> USE DEF Sound, Asks, Stage, Request, Need, CauseError, Failed, Refused
<1>1. Sound(OAuthConfigGet) /\ Asks(OAuthConfigGet, "configured")
  BY DEF OAuthConfigGet
<1>2. Sound(OAuthEnrich)
  BY DEF OAuthEnrich
<1> QED
  BY <1>1, <1>2

LEMMA OIDCStages ==
  /\ Sound(OIDCConfigGet) /\ Asks(OIDCConfigGet, "configured")
  /\ Sound(Discovery)
  /\ Sound(IdToken) /\ Asks(IdToken, "issuer") /\ Asks(IdToken, "token") /\ Asks(IdToken, "fresh")
  /\ Sound(UserInfo)
  /\ Sound(Enrich)
  /\ Sound(Admission) /\ Asks(Admission, "admitted")
  /\ Sound(checkStepUp) /\ Asks(checkStepUp, "enabled")
<1> USE DEF Sound, Asks, Stage, Request, Need, CauseError, Failed, Refused
<1>1. Sound(OIDCConfigGet) /\ Asks(OIDCConfigGet, "configured")
  BY DEF OIDCConfigGet
<1>2. Sound(Discovery)
  BY DEF Discovery, fetchDiscovery, applyDiscovery
<1>3. Sound(IdToken) /\ Asks(IdToken, "issuer") /\ Asks(IdToken, "token") /\ Asks(IdToken, "fresh")
  BY DEF IdToken
<1>4. Sound(UserInfo)
  BY DEF UserInfo
<1>5. Sound(Enrich)
  BY DEF Enrich
<1>6. Sound(Admission) /\ Asks(Admission, "admitted")
  BY DEF Admission
<1>7. Sound(checkStepUp) /\ Asks(checkStepUp, "enabled")
  BY DEF checkStepUp
<1> QED
  BY <1>1, <1>2, <1>3, <1>4, <1>5, <1>6, <1>7

--------------------------------------------------------------------------------
(* What each login does *)

LEMMA BasicComplete == Complete(basic, Concern["basic"])
<1>1. /\ Len(basic) = 4 /\ DOMAIN basic = 1..4
      /\ basic[1] = Credentials /\ basic[2] = UserGet /\ basic[3] = comparePassword
      /\ basic[4] = Issue
  BY DEF basic
<1>2. \A k \in 1..4 : Sound(basic[k])
  <2>1. \A k \in 1..4 : k \in {1, 2, 3, 4}
    OBVIOUS
  <2> QED
    BY <1>1, <2>1, SharedStages, BasicStages
<1>3. \A f \in Concern["basic"] : \E k \in 1..4 : Asks(basic[k], f)
  <2>1. Concern["basic"] = {"sent", "known", "valid", "proof"}
    BY DEF Concern
  <2> QED
    BY <1>1, <2>1, SharedStages, BasicStages
<1> QED
  BY <1>1, <1>2, <1>3 DEF Complete

LEMMA LDAPComplete == Complete(ldap, Concern["ldap"])
<1>1. /\ Len(ldap) = 7 /\ DOMAIN ldap = 1..7
      /\ ldap[1] = JSONBody /\ ldap[2] = LDAPConfigGet /\ ldap[3] = AdminBind
      /\ ldap[4] = Search /\ ldap[5] = UserBind /\ ldap[6] = GroupSearch
      /\ ldap[7] = Issue
  BY DEF ldap
<1>2. \A k \in 1..7 : Sound(ldap[k])
  <2>1. \A k \in 1..7 : k \in {1, 2, 3, 4, 5, 6, 7}
    OBVIOUS
  <2> QED
    BY <1>1, <2>1, SharedStages, LDAPStages
<1>3. \A f \in Concern["ldap"] : \E k \in 1..7 : Asks(ldap[k], f)
  <2>1. Concern["ldap"] = {"sent", "configured", "valid", "client", "known",
                           "unambiguous", "proof"}
    BY DEF Concern
  <2> QED
    BY <1>1, <2>1, SharedStages, LDAPStages
<1> QED
  BY <1>1, <1>2, <1>3 DEF Complete

LEMMA ServiceAccountComplete == Complete(serviceaccount, Concern["serviceaccount"])
<1>1. /\ Len(serviceaccount) = 4 /\ DOMAIN serviceaccount = 1..4
      /\ serviceaccount[1] = BearerToken /\ serviceaccount[2] = TokenReview
      /\ serviceaccount[3] = ServiceAccountForSA /\ serviceaccount[4] = Issue
  BY DEF serviceaccount
<1>2. \A k \in 1..4 : Sound(serviceaccount[k])
  <2>1. \A k \in 1..4 : k \in {1, 2, 3, 4}
    OBVIOUS
  <2> QED
    BY <1>1, <2>1, SharedStages, ServiceAccountStages
<1>3. \A f \in Concern["serviceaccount"] : \E k \in 1..4 : Asks(serviceaccount[k], f)
  <2>1. Concern["serviceaccount"] = {"sent", "proof", "known", "unambiguous"}
    BY DEF Concern
  <2> QED
    BY <1>1, <2>1, SharedStages, ServiceAccountStages
<1> QED
  BY <1>1, <1>2, <1>3 DEF Complete

LEMMA OAuthComplete == Complete(oauth, Concern["oauth"])
<1>1. /\ Len(oauth) = 6 /\ DOMAIN oauth = 1..6
      /\ oauth[1] = Code /\ oauth[2] = OAuthConfigGet /\ oauth[3] = ClientSecret
      /\ oauth[4] = Exchange /\ oauth[5] = OAuthEnrich /\ oauth[6] = Issue
  BY DEF oauth
<1>2. \A k \in 1..6 : Sound(oauth[k])
  <2>1. \A k \in 1..6 : k \in {1, 2, 3, 4, 5, 6}
    OBVIOUS
  <2> QED
    BY <1>1, <2>1, SharedStages, OAuthStages
<1>3. \A f \in Concern["oauth"] : \E k \in 1..6 : Asks(oauth[k], f)
  <2>1. Concern["oauth"] = {"sent", "configured", "valid", "client", "code"}
    BY DEF Concern
  <2> QED
    BY <1>1, <2>1, SharedStages, OAuthStages
<1> QED
  BY <1>1, <1>2, <1>3 DEF Complete

LEMMA OIDCComplete == Complete(authenticate \o <<Issue>>, Concern["oidc"])
<1> DEFINE calls == authenticate \o <<Issue>>
<1>1. /\ Len(calls) = 10 /\ DOMAIN calls = 1..10
      /\ calls[1] = Code /\ calls[2] = OIDCConfigGet /\ calls[3] = Discovery
      /\ calls[4] = ClientSecret /\ calls[5] = Exchange /\ calls[6] = IdToken
      /\ calls[7] = UserInfo /\ calls[8] = Enrich /\ calls[9] = Admission
      /\ calls[10] = Issue
  BY DEF authenticate
<1> HIDE DEF calls
<1>2. \A k \in 1..10 : Sound(calls[k])
  <2>1. \A k \in 1..10 : k \in {1, 2, 3, 4, 5, 6, 7, 8, 9, 10}
    OBVIOUS
  <2> QED
    BY <1>1, <2>1, SharedStages, OIDCStages
<1>3. \A f \in Concern["oidc"] : \E k \in 1..10 : Asks(calls[k], f)
  <2>1. Concern["oidc"] = {"sent", "configured", "valid", "client", "code", "issuer",
                           "token", "fresh", "admitted"}
    BY DEF Concern
  <2> QED
    BY <1>1, <2>1, SharedStages, OIDCStages
<1>4. Complete(calls, Concern["oidc"])
  BY <1>1, <1>2, <1>3 DEF Complete
<1> QED
  BY <1>4 DEF calls

LEMMA StepUpComplete == Complete(authenticate \o <<checkStepUp, Issue>>, Concern["stepup"])
<1> DEFINE calls == authenticate \o <<checkStepUp, Issue>>
<1>1. /\ Len(calls) = 11 /\ DOMAIN calls = 1..11
      /\ calls[1] = Code /\ calls[2] = OIDCConfigGet /\ calls[3] = Discovery
      /\ calls[4] = ClientSecret /\ calls[5] = Exchange /\ calls[6] = IdToken
      /\ calls[7] = UserInfo /\ calls[8] = Enrich /\ calls[9] = Admission
      /\ calls[10] = checkStepUp /\ calls[11] = Issue
  BY DEF authenticate
<1> HIDE DEF calls
<1>2. \A k \in 1..11 : Sound(calls[k])
  <2>1. \A k \in 1..11 : k \in {1, 2, 3, 4, 5, 6, 7, 8, 9, 10, 11}
    OBVIOUS
  <2> QED
    BY <1>1, <2>1, SharedStages, OIDCStages
<1>3. \A f \in Concern["stepup"] : \E k \in 1..11 : Asks(calls[k], f)
  <2>1. Concern["stepup"] = {"sent", "configured", "valid", "client", "code", "issuer",
                             "token", "fresh", "admitted", "enabled"}
    BY DEF Concern
  <2> QED
    BY <1>1, <2>1, SharedStages, OIDCStages
<1>4. Complete(calls, Concern["stepup"])
  BY <1>1, <1>2, <1>3 DEF Complete
<1> QED
  BY <1>4 DEF calls

LEMMA PipelineComplete ==
  ASSUME strategy \in Strategy
  PROVE  Complete(Calls, Facts)
<1>1. strategy \in {"basic", "ldap", "oauth", "oidc", "stepup", "serviceaccount"}
  BY LoginContractAssumption
<1>2. CASE strategy = "basic"
  BY <1>2, BasicComplete DEF Calls, Facts, Pipeline
<1>3. CASE strategy = "ldap"
  BY <1>3, LDAPComplete DEF Calls, Facts, Pipeline
<1>4. CASE strategy = "oauth"
  BY <1>4, OAuthComplete DEF Calls, Facts, Pipeline
<1>5. CASE strategy = "oidc"
  BY <1>5, OIDCComplete DEF Calls, Facts, Pipeline
<1>6. CASE strategy = "stepup"
  BY <1>6, StepUpComplete DEF Calls, Facts, Pipeline
<1>7. CASE strategy = "serviceaccount"
  BY <1>7, ServiceAccountComplete DEF Calls, Facts, Pipeline
<1> QED
  BY <1>1, <1>2, <1>3, <1>4, <1>5, <1>6, <1>7

--------------------------------------------------------------------------------
(* The inductive invariant *)

\* What has not been in order since the request came in is still to be asked for.
StillAsked ==
  stage # 0 => \A f \in lacking : \E k \in DOMAIN Calls : k >= stage /\ Asks(Calls[k], f)

\* A refusal that stands has a reason that still holds, and held all through the
\* request under way.
Reasoned ==
  \A a \in standing : a.code \in {401, 403} =>
    \E f \in Facts \ holds : stage # 0 => f \in lacking

Inv ==
  /\ TypeOK
  /\ stage # 0 => answer = NoAnswer
  /\ lacking \cap holds = {}
  /\ StillAsked
  /\ GrantedDeserved
  /\ Reasoned
  /\ RefusalStands

LEMMA AnswerCodes ==
  /\ Granted.code = 200 /\ NoAnswer.code = 0
  /\ Granted # NoAnswer
<1>1. Granted.code = 200
  BY DEF Granted, CauseError
<1>2. NoAnswer.code = 0
  BY DEF NoAnswer, CauseError
<1>3. Granted # NoAnswer
  BY <1>1, <1>2
<1> QED
  BY <1>1, <1>2, <1>3

LEMMA InitInv == Init => Inv
<1> SUFFICES ASSUME Init PROVE Inv
  OBVIOUS
<1>1. Len(Calls) \in Nat \ {0}
  BY PipelineComplete DEF Init, Complete
<1>2. holds \subseteq Facts /\ stage = 0 /\ answer = NoAnswer /\ missed = {} /\ lacking = {} /\ standing = {}
  BY DEF Init
<1>3. TypeOK
  BY <1>1, <1>2 DEF Init, TypeOK
<1> QED
  BY <1>2, <1>3 DEF Inv, StillAsked, GrantedDeserved, Reasoned, RefusalStands

\* What every step leaves alone, and what is known of the request under way.
LEMMA Surroundings ==
  ASSUME Inv
  PROVE  /\ strategy \in Strategy
         /\ Len(Calls) \in Nat \ {0} /\ DOMAIN Calls = 1..Len(Calls)
         /\ \A k \in 1..Len(Calls) : Sound(Calls[k])
         /\ \A f \in Facts : \E k \in 1..Len(Calls) : Asks(Calls[k], f)
         /\ holds \subseteq Facts /\ lacking \subseteq missed /\ missed \subseteq Facts
         /\ lacking \cap holds = {} /\ stage \in 0..Len(Calls)
<1>1. strategy \in Strategy
  BY DEF Inv, TypeOK
<1>2. Complete(Calls, Facts)
  BY <1>1, PipelineComplete
<1> QED
  BY <1>1, <1>2 DEF Inv, TypeOK, Complete

\* The caller's login stays the same.
LEMMA SameLogin ==
  ASSUME strategy' = strategy
  PROVE  Calls' = Calls /\ Facts' = Facts
BY DEF Calls, Facts

\* The answers a login may give when it does not let in.
Answers ==
  UNION {Calls[k].fails \cup UNION {Calls[k].needs[i].answers : i \in DOMAIN Calls[k].needs} :
         k \in DOMAIN Calls}

\* A request comes in, with a reason for each refusal that stands.
LEMMA ReceiveStep ==
  ASSUME Inv, Receive, UNCHANGED strategy, holds' \subseteq Facts,
         \/ standing' = {}
         \/ standing' = standing /\ holds' = holds
  PROVE  Inv'
<1>1. Calls' = Calls /\ Facts' = Facts /\ strategy' \in Strategy /\ Len(Calls) \in Nat \ {0}
  BY SameLogin, Surroundings
<1>2. stage' = 1 /\ answer' = NoAnswer /\ missed' = Facts \ holds' /\ lacking' = Facts \ holds'
  BY DEF Receive
<1>3. TypeOK'
  BY <1>1, <1>2 DEF Inv, TypeOK
<1>4. StillAsked'
  <2>1. \A f \in Facts : \E k \in DOMAIN Calls : k >= 1 /\ Asks(Calls[k], f)
    BY Surroundings
  <2> QED
    BY <1>1, <1>2, <2>1 DEF StillAsked, Asks
<1>5. GrantedDeserved'
  BY <1>2 DEF GrantedDeserved
<1>6. Reasoned'
  BY <1>1, <1>2 DEF Inv, Reasoned
<1>7. answer' # Granted
  BY <1>2, AnswerCodes
<1>8. RefusalStands'
  BY <1>7 DEF RefusalStands
<1> QED
  BY <1>2, <1>3, <1>4, <1>5, <1>6, <1>8 DEF Inv

\* An answer other than Granted ends the request; a refusal has a reason.
LEMMA AnswerStep ==
  ASSUME Inv, NEW a, Answer(a), stage # 0,
         a = NoAnswer \/ a \in Answers, a # Granted,
         a.code \in {401, 403} => \E f \in Facts : f \in missed,
         holds' \subseteq holds,
         UNCHANGED <<strategy, missed, lacking, calm>>
  PROVE  Inv'
<1>1. /\ Calls' = Calls /\ Facts' = Facts /\ strategy' \in Strategy /\ Len(Calls) \in Nat \ {0}
      /\ holds' \subseteq Facts /\ missed \subseteq Facts /\ lacking \subseteq missed
  BY SameLogin, Surroundings
<1>2. answer' = a /\ stage' = 0 /\ answer' # Granted
  BY DEF Answer
<1>3. \/ standing' = standing
      \/ standing' = standing \cup {a} /\ missed = lacking /\ a.code >= 300
  BY DEF Answer
<1>4. standing' \subseteq Answers
  <2>1. standing \subseteq Answers
    BY DEF Inv, TypeOK, Answers
  <2>2. CASE a = NoAnswer
    BY <1>3, <2>1, <2>2, AnswerCodes
  <2> QED
    BY <1>3, <2>1, <2>2
<1>5. TypeOK'
  BY <1>1, <1>2, <1>4 DEF Inv, TypeOK, Answers
<1>6. StillAsked'
  BY <1>2 DEF StillAsked
<1>7. GrantedDeserved'
  BY <1>2 DEF GrantedDeserved
<1>8. Reasoned'
  <2> SUFFICES ASSUME NEW b \in standing', b.code \in {401, 403}
               PROVE  \E f \in Facts \ holds' : TRUE
    BY <1>1, <1>2 DEF Reasoned
  <2>1. CASE b \in standing
    BY <2>1 DEF Inv, Reasoned
  <2>2. CASE b = a /\ missed = lacking
    BY <1>1, <2>2 DEF Inv
  <2> QED
    BY <1>3, <2>1, <2>2
<1>9. RefusalStands'
  BY <1>2 DEF RefusalStands
<1> QED
  BY <1>2, <1>5, <1>6, <1>7, <1>8, <1>9 DEF Inv

\* A stage is passed, or the last is and the caller is let in, lacking nothing: then
\* no refusal stands, for want of a reason.
LEMMA SucceedStep ==
  ASSUME Inv, Succeed
  PROVE  Inv'
<1>1. /\ stage # 0 /\ \A i \in DOMAIN Needs : Passes(Needs[i].fact)
      /\ UNCHANGED <<strategy, missed, lacking, calm>>
      /\ holds' \subseteq holds
  BY DEF Succeed
<1>2. /\ Calls' = Calls /\ Facts' = Facts /\ strategy' \in Strategy
      /\ Len(Calls) \in Nat \ {0} /\ DOMAIN Calls = 1..Len(Calls) /\ stage \in 1..Len(Calls)
      /\ holds' \subseteq Facts /\ missed \subseteq Facts /\ lacking \subseteq missed
  BY <1>1, SameLogin, Surroundings
<1>3. \A f \in lacking : \E k \in DOMAIN Calls : k > stage /\ Asks(Calls[k], f)
  <2> SUFFICES ASSUME NEW f \in lacking
               PROVE  \E k \in DOMAIN Calls : k > stage /\ Asks(Calls[k], f)
    OBVIOUS
  <2>1. PICK k \in DOMAIN Calls : k >= stage /\ Asks(Calls[k], f)
    BY <1>1 DEF Inv, StillAsked
  <2>2. CASE k # stage
    BY <1>2, <2>1, <2>2
  <2>3. CASE k = stage
    \* This call passes f although it has never held, so that a later call asks for it.
    BY <1>1, <2>1, <2>3 DEF Passes, Needs, Asks
  <2> QED
    BY <2>2, <2>3
<1>4. holds' \cap lacking' = {}
  BY <1>1 DEF Inv
<1>5. CASE Last
  <2>1. lacking = {}
    BY <1>2, <1>3, <1>5 DEF Last
  <2>2. answer' = Granted /\ stage' = 0 /\ standing' = standing
    BY <1>5, AnswerCodes DEF Succeed, Answer
  <2>3. \A a \in standing : a.code \notin {401, 403}
    BY <1>1, <2>1 DEF Inv, Reasoned
  <2>4. TypeOK'
    BY <1>1, <1>2, <2>2 DEF Inv, TypeOK
  <2> QED
    BY <1>1, <1>4, <2>1, <2>2, <2>3, <2>4 DEF Inv, StillAsked, GrantedDeserved, Reasoned, RefusalStands
<1>6. CASE ~Last
  <2>1. stage' = stage + 1 /\ answer' = answer /\ standing' = standing /\ stage' \in 1..Len(Calls)
    <3>1. stage' = stage + 1 /\ answer' = answer /\ standing' = standing
      BY <1>6 DEF Succeed
    <3>2. Len(Calls) \in Nat /\ stage \in 1..Len(Calls) /\ stage # Len(Calls)
      BY <1>2, <1>6 DEF Last
    <3> QED
      BY <3>1, <3>2
  <2>2. TypeOK'
    BY <1>1, <1>2, <2>1 DEF Inv, TypeOK
  <2>3. StillAsked'
    <3>1. \A k \in DOMAIN Calls : k > stage => k >= stage'
      BY <1>2, <2>1
    <3> QED
      BY <1>1, <1>2, <1>3, <3>1 DEF StillAsked, Asks
  <2>4. answer' = NoAnswer /\ answer' # Granted
    BY <1>1, <2>1, AnswerCodes DEF Inv
  <2>5. Reasoned'
    BY <1>1, <1>2, <2>1 DEF Inv, Reasoned
  <2> QED
    BY <1>4, <2>2, <2>3, <2>4, <2>5 DEF Inv, GrantedDeserved, RefusalStands
<1> QED
  BY <1>5, <1>6

LEMMA EditStep ==
  ASSUME Inv, Edit
  PROVE  Inv'
<1>1. /\ standing' = {} /\ UNCHANGED <<strategy, stage, answer>>
      /\ missed' = missed \cup (Facts \ holds') /\ lacking' = lacking \ holds'
      /\ holds' \subseteq Facts
  BY Surroundings DEF Edit
<1>2. Calls' = Calls /\ Facts' = Facts
  BY <1>1, SameLogin
<1>3. TypeOK'
  BY <1>1, <1>2, Surroundings DEF TypeOK
<1>4. StillAsked'
  BY <1>1, <1>2 DEF Inv, StillAsked, Asks
<1> QED
  BY <1>1, <1>3, <1>4 DEF Inv, GrantedDeserved, Reasoned, RefusalStands

LEMMA NextInv == Inv /\ [Next]_vars => Inv'
<1> SUFFICES ASSUME Inv, [Next]_vars PROVE Inv'
  OBVIOUS
<1>1. CASE Send
  BY <1>1, Surroundings, ReceiveStep DEF Send
<1>2. CASE SignIn
  BY <1>2, Surroundings, ReceiveStep DEF SignIn
<1>3. CASE Succeed
  BY <1>3, SucceedStep
<1>4. CASE Refuse
  <2>1. PICK i \in DOMAIN Needs : Needs[i].fact \in missed /\ \E a \in Needs[i].answers : Answer(a)
    BY <1>4 DEF Refuse
  <2>2. PICK a \in Needs[i].answers : Answer(a)
    BY <2>1
  <2>3. stage # 0 /\ stage \in DOMAIN Calls /\ Sound(Calls[stage])
    BY <1>4, Surroundings DEF Refuse
  <2>4. a \in Answers /\ a.code # 200
    BY <2>2, <2>3 DEF Answers, Needs, Sound
  <2>5. a # Granted /\ \E f \in Facts : f \in missed
    BY <2>1, <2>4, Surroundings, AnswerCodes
  <2> QED
    BY <1>4, <2>2, <2>3, <2>4, <2>5, AnswerStep DEF Refuse
<1>5. CASE Fail
  <2>1. PICK a \in Calls[stage].fails : Answer(a)
    BY <1>5 DEF Fail
  <2>2. stage # 0 /\ stage \in DOMAIN Calls /\ Sound(Calls[stage])
    BY <1>5, Surroundings DEF Fail
  <2>3. a \in Answers /\ a.code = 500
    BY <2>1, <2>2 DEF Answers, Sound
  <2>4. a # Granted /\ holds' \subseteq holds
    BY <1>5, <2>3, AnswerCodes DEF Fail, Unanswered
  <2> QED
    BY <1>5, <2>1, <2>2, <2>3, <2>4, AnswerStep DEF Fail
<1>6. CASE Lose
  <2>1. NoAnswer # Granted /\ NoAnswer.code \notin {401, 403}
    BY AnswerCodes
  <2>2. holds' \subseteq holds
    BY <1>6 DEF Lose, Unanswered
  <2> QED
    BY <1>6, <2>1, <2>2, AnswerStep DEF Lose
<1>7. CASE Edit
  BY <1>7, EditStep
<1>8. CASE CalmDown \/ UNCHANGED vars
  <2>1. UNCHANGED <<strategy, holds, stage, answer, missed, lacking, standing>>
    BY <1>8 DEF CalmDown, vars
  <2>2. Calls' = Calls /\ Facts' = Facts
    BY <2>1, SameLogin
  <2> QED
    BY <2>1, <2>2 DEF Inv, TypeOK, StillAsked, GrantedDeserved, Reasoned, RefusalStands
<1> QED
  BY <1>1, <1>2, <1>3, <1>4, <1>5, <1>6, <1>7, <1>8 DEF Next

--------------------------------------------------------------------------------
(* The theorems *)

\* What a caller and its request know of each other (the handlers' early returns).
THEOREM Invariance == Spec => []Inv
<1> QED
  BY InitInv, NextInv, PTL DEF Spec

\* Every reachable state is well typed, and no request goes beyond the last stage of
\* its login (the six Handlers).
THEOREM TypeCorrect == Spec => []TypeOK
<1>1. Inv => TypeOK
  BY DEF Inv
<1> QED
  BY Invariance, <1>1, PTL

\* In each of the six logins, who is let in was in order on every count, whatever is
\* edited while the request is under way (the Handlers' early returns).
THEOREM GrantsDeserved == Spec => []GrantedDeserved
<1>1. Inv => GrantedDeserved
  BY DEF Inv
<1> QED
  BY Invariance, <1>1, PTL

\* No request that was answered 401 or 403 is granted when it is sent again unchanged,
\* with a busy LDAP server and any number of facts that do not hold (status.CauseError).
THEOREM RefusalsStand == Spec => []RefusalStands
<1>1. Inv => RefusalStands
  BY DEF Inv
<1> QED
  BY Invariance, <1>1, PTL
================================================================================
