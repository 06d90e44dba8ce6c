# TLA+ models of authn

authn turns a caller's proof of identity (basic, LDAP, OAuth2, OIDC, a
ServiceAccount token) into a Kubernetes client certificate, stored in a
`<user>-clientconfig` Secret, and a login JWT. This directory models the parts of
it where an interleaving, a crash, a stale read or a clock can go wrong, checks
them with TLC on small instances and proves the most important results with TLAPS
for every instance.

Paths are relative to `src/go/authn/` unless they start with `docs/`.

## The system

| Part | State it keeps | Operations | Talks to |
|---|---|---|---|
| credential issuance (`internal/helpers/kube/config`, `.../kube`, `.../secrets`) | the `-clientconfig` and `-clientconfig-stepup` Secrets; a CSR while one is signed | check groups, mint (create, approve, await and delete a CSR), store (create, else update) | apiserver, signer |
| login answer (`internal/helpers/encode`) | none | sign a JWT no longer than the certificate, or attach the kubeconfig | the caller |
| login strategies (`internal/routes/auth/*`, `internal/helpers/kube/resolvers`) | none | prove an identity, then issue | identity providers, custom resources |
| OIDC step-up (`internal/routes/auth/oidc/stepup.go`) | none | accept a fresh, strong enough ID token, then issue a credential with `krateo:loa:2` | the IdP |
| step-up sweep (`internal/stepupsweep`) | none across passes | list, judge, delete | Secrets; leader only |
| identity backfill (`internal/identitybackfill`) | none across starts | list, look up, stamp | Secrets, User and ServiceAccount objects; leader only |
| own identity renewal (`internal/certrenewal`) | a timer; the `authn-clientconfig` Secret, the CSR named `authn` | ensure, issue, annotate, sleep | apiserver, signer; leader only |
| leader election (`internal/leader`) | the `authn-cert-renewal` Lease | campaign, lead, lose, campaign again | apiserver |
| process (`main.go`, `internal/routes/health`, `internal/telemetry`) | the health flag, the HTTP server | check the keys, start, serve, flush, drain, stop | the kubelet, the Deployment |
| restaction enrichment (`internal/helpers/restaction`) | per-user copies of a RESTAction and its endpoint Secrets | copy, call snowplow, delete | apiserver, snowplow |
| JWKS (`internal/routes/jwks`) | the current and previous signing keys | publish | verifiers of the JWT |
| strategies listing (`internal/routes/auth/strategies`, `.../resolvers/list.go`) | none | list Users and configurations, discover endpoints | the login page, apiserver, identity providers |
| CORS and routing (`internal/middlewares/cors`, `routes.go`, `internal/routes`) | the options | admit a preflight, name the origin, find the route | browsers |
| generator caches (`.../kube/config/build.go`) | CA data and server URL | fill once | every request of a handler |
| short ids, uuid | a clock and a counter; a generator's state | next id | an annotation of a CSR; names of OAuth's copies |

They meet in the apiserver. Any number of replicas serve logins at once, none
coordinates with another, and one user's logins write one Secret. The leader's
background work writes the same Secrets as the logins. What makes that hard:

- a login's store is two calls (create, then update), and the update carries no
  resourceVersion: the last one to arrive wins;
- the sweep and the backfill act on a list taken earlier, and protect themselves
  with the listed resourceVersion;
- a write can take effect and still be reported as failed;
- the signer grants less time than was asked, and time passes before the token is
  signed;
- the leader stops, at any step, and another starts over; work of a lost lease is
  cancelled but not waited for;
- nothing polls: a renewal that is scheduled late stays late;
- a login mints by five calls around a CSR of its own, and shares an unsynchronised
  cache with the other logins of its handler;
- pods of two configurations serve side by side while a signing key is rotated, and
  validators keep what the one that answered them published;
- the strategies are read kind by kind, and any list or discovery may fail.

What makes each part correct:

- **issuance**: the Secret's certificate, annotations and name belong together; an
  answered login is not undone; no reserved group on a session;
- **answer**: a token never outlives its certificate;
- **sweep**: removes expired step-ups, all of them in the end, and nothing else;
- **backfill**: adds what is missing to what it read, never to something newer;
- **own identity**: the certificate is renewed before it expires, whoever leads;
- **logins**: nobody is let in who misses a condition, a refusal is not a passing
  failure, and what a cause advises leads somewhere;
- **enrichment**: no copy outlives its login, no login uses another's copy;
- **minting**: a login fails for reasons of its own, leaves no CSR, and takes a CA of
  its cluster;
- **keys**: what signs a token is published as long as the token lives, one key to a
  key ID;
- **listing**: what is there is listed, and what is listed can be called.

## Modules

| Module | What it models |
|---|---|
| `Credentials` | certificates, Secret names and annotations: `identity.go`, `storage.go`, `userinfo.go` |
| `SecretStore` | the Secrets and the three ways the code writes them: create, unconditional update, update or delete on condition of a resourceVersion |
| `ClientConfig` | logins and step-ups, the sweep and the backfill over one `SecretStore` |
| `CredentialLifecycle` | the abstract specification: what may happen to a stored credential at all |
| `Minting` | the abstract specification of minting, which both `ClientConfig` and `Issuance` implement |
| `ClientConfigProofs` | the theorems about `ClientConfig` |
| `OwnIdentity` | authn's own certificate: the leader's Lease, `ownIdentity` of `main.go`, the renewer's loop |
| `OwnIdentityProofs` | the theorems about `OwnIdentity` |
| `LegacyResolve` | the copies of a RESTAction and its endpoints that logins make, use and delete: `resolver.go`, `restactions.go` |
| `LegacyResolveProofs` | the theorems about `LegacyResolve` |
| `OidcLogin` | `/oidc/login` and `/oidc/stepup` up to the decision, with the IdP's sessions and clock |
| `OidcLoginProofs` | the theorems about `OidcLogin` |
| `LoginContract` | the six logins as their callers see them: what each asks, in which order, and how it answers (`internal/routes/auth`, `internal/status`) |
| `LoginContractProofs` | the theorems about `LoginContract` |
| `SigningKeys` | the keys a process is configured with: `main`'s checks, `previous.go`, what `jwks.go` publishes |
| `Process` | the life of one process per pod: start-up, the listening goroutine, the health flag, the shutdown |
| `Rollout` | composes the two: the rotation of the signing key by rolling updates, with logins, crashes and a validator |
| `RolloutProofs` | the theorems about `Rollout`, `Process` and `SigningKeys` |
| `Issuance` | what `ClientConfig` takes as the one step `Mint`: the CSR call by call, the shared CA, the token's clamp (`build.go`, `gen.go`, `certs.go`, `success.go`) |
| `IssuanceProofs` | the theorems about `Issuance` |
| `Cors` | the CORS middleware: options, preflight, answer |
| `Portal` | a login page that lists the strategies and calls one of them through `Cors` and the routes |
| `PortalProofs` | the theorems about `Portal` and `Cors` |
| `MCClientConfig`, `MCOwnIdentity`, `MCOwnIdentityShort`, `MCLegacyResolve`, `MCOidcLogin`, `MCLoginContract`, `MCRollout`, `MCIssuance`, `MCPortal` | their instances for TLC |

### How `ClientConfig` corresponds to the code

State. `secrets` maps each Secret name to its certificate, annotations and
resourceVersion; `revision` is the apiserver's counter; `req[r]` is one HTTP
request between `Generate`/`GenerateStepUp` and its answer, its `pc` naming the
next call to an external system; `sweep[w]` and `fill[w]` are the local variables
of a running `stepupsweep.Run` and `identitybackfill.Run`. There is a set of each,
so that two leaders whose work overlaps are included. `declared` says which users
have a User or ServiceAccount object.

Actions. One per call that reads or writes shared state, with the code that leads
up to it:

| Action | Code |
|---|---|
| `Begin` | `Generate`, `GenerateStepUp`, `checkGroups`; an early refusal |
| `Mint` | `generateClientCertAndKey`: the CSR's name is generated, so no other request can see it, and its create, approve, wait and delete are one step (`Issuance` has each of them, and both implement `Minting`) |
| `PutCreate`, `PutAlreadyExists`, `PutUpdate`, `PutNotFound` | the two calls of `storage.Put` and their four outcomes |
| `Success`, `Attach` | `encode.Success` with `tokenDuration`; the kubeconfig download of `/basic/login?d` |
| `Fail` | any call's error path, or the replica stops |
| `Sweep`, `SweepKeep`, `SweepDelete`, `SweepConflict`, `SweepAbort` | `stepupsweep.Sweep` and the loop of `Run` |
| `Fill`, `FillSkip`, `FillOwn`, `FillLookup`, `FillDecide`, `FillStamp`, `FillSkipped`, `FillDone` | `identitybackfill.Run`, `missingAnnotations`, `strategyOf` |
| `Declare` | an administrator creates or deletes a User or ServiceAccount |
| `Tick` | the clock |

A write that took effect may be reported as failed: `PutCreate` and `PutUpdate`
choose whether the request goes on to sign or is refused.

Abstractions. Keys, CA data, the server URL and string formats are left out.
`tokenDuration` and `CreateToken` read the clock one after the other; this model
reads it once, `Issuance` twice. The operator namespace and `AUTHN_STORAGE_NAMESPACE` are one. The
`notBefore` annotation goes wherever `notAfter` goes and is not modelled apart.
A recreated Secret's UID and resourceVersion are both new, so the resourceVersion
stands for both preconditions of the sweep's delete.

### How `OwnIdentity` corresponds to the code

State. `stored` is the `authn-clientconfig` Secret, its certificate and what its
annotations describe; `csr` the CSR named `authn`; `holder` the replica that holds
the Lease; `work[p]` the goroutine that runs `ownIdentity` on replica `p`, its `pc`
naming the next call; `late` the calls of a lead that is over. Time is a countdown:
each certificate, timer and the CA carries what is left of it, so that behaviours
need not end and the model is finite.

| Action | Code |
|---|---|
| `Start`, `Acquire`, `Lose`, `Crash` | `leader.Run`: campaign, lead under a cancellable context, campaign again; a replica stops and starts |
| `ReadFails`, `Current`, `Due` | `Renewer.Ensure`: the read failed, the certificate is current, it is missing or past its renewal point |
| `IssueCsr`, `Collect`, `CsrReplaced`, `IssueFails`, `Store` | `Renewer.issue`: the calls of `signup.Do`, which is not in this repository |
| `Readback`, `Annotate`, `AnnotateFails` | `annotate` and `syncAnnotations` |
| `BackfillDone` | `ownIdentity` runs the identity backfill between the first `Ensure` and the loop |
| `Wake` | the loop of `Renewer.Run` |
| `Arrive` | a call that was cancelled takes effect after all |
| `Sign`, `Wipe`, `Rotate`, `Tick` | the signer, somebody deleting the Secret, CA rotation, time |

The clock. Running code takes no time: a `Tick` while a replica is in the middle
of `Ensure` is a slow call. Slow calls, failed calls, lost leads and time in which
nobody can lead are *trouble*, counted in `trouble` since the stored certificate
was signed. What is assumed of the environment: the Lease is taken within
`LeaseDuration` when there is a candidate; a call of a lead that is over arrives
within a unit or never; a certificate that was signed is stored within a unit or
`signup` has failed; the CA is rotated before it has less than `CAMin` left.

Abstractions. The Secret's resourceVersion is one bit per reader (`same`: nobody has
written since). `signup.Do` is modelled by the calls it is known to make: delete a CSR
of the name, create its own, await it, put the Secret whole and without metadata. The
certificate it returns parses: on one that does not, `issue` would wait off the
duration it asked for (`renewal.go:252-258`). Renewal switched off
(`AUTHN_CRT_RENEWAL_ENABLED=false`) is not modelled: nothing is promised then.

### How `LegacyResolve` corresponds to the code

The logins of the model share the names of their copies: those of an OIDC email's
DNS form. (OAuth names its copies by a random uuid: a set of one login.) State.
`restaction` is the stages of the RESTAction, each naming an endpoint; `copy` maps
each name to the object there is, if any; `login[l]` holds the local variables of
`LegacyResolve`, its `pc` naming the next call; `edits`, `overlapped` and
`troubled` record what happened, for the properties to refer to.

| Action | Code |
|---|---|
| `Begin` | the fallback from `Resolve`; the RESTAction is read |
| `Look`, `Write`, `Conflict` | `secrets.CreateOrUpdate` and the RESTAction's: read, then create or update on condition of what was read; one endpoint of a stage after the other, the RESTAction last |
| `Call` | snowplow resolves the copy |
| `List`, `Skip`, `Delete`, `Gone` | `deleteRestActionCopyWithEndpoints`: goes by the stages of the copy that is there, an endpoint that was deleted already is skipped |
| `Fails` | any call's error, a cancelled context, a crash |
| `Edit` | an administrator edits the RESTAction |

A login that failed counts as active until the call it was in has landed: until
then it may still write. Snowplow is external; it resolves the stages of the copy
with the endpoint copies there are, and fails when one is missing.

### How `OidcLogin` corresponds to the code

State. `req[r]` is one request from the listing of the strategies to its decision;
`config` the OIDCConfig, which may be edited; `session` the user's authentication
at the IdP; `drift` how far the IdP's clock is ahead. A request remembers what it
was asked for (`asked`), the code it got, the configuration `getConfig` read and
when it was decided.

| Action | Code |
|---|---|
| `ListStrategies` | `StepUpExtensions`; the portal picks the entry's URL or its step-up URL |
| `Authorize` | external: the IdP reuses the session or authenticates the user, and issues a code |
| `GetConfig`, `DoLogin`, `Enrich`, `Fails` | `authenticate`, one step per external call |
| `Decide` | the end of `authenticate` (`validate`, `checkAllowedGroups`) and, on `/oidc/stepup`, `checkStepUp` and `NewStepUpUser` |
| `SetConfig`, `Tick` | an administrator; the clock |

The ID token's own checks (issuer, audience, expiry) and UserInfo are one failing
step. What is issued then is `ClientConfig`'s.

### How `LoginContract` corresponds to the code

Each login is a sequence of stages: a call to an external system, or a test of what is
there already, with the answers the code gives when the call fails and when it shows
something else than what the login needs. `Pipeline` is those of the six handlers of
`routes.go`, in the order of their early returns; a stage has the name of the function
that makes the call. What a login needs is a set of *facts*: `sent` (the request has
what it must), `configured` and `valid` (the configuration is there and right), `client`
(authn's own credentials are accepted), `known`, `unambiguous`, `proof` (the user),
`code`, `fresh`, `issuer`, `token` (the identity provider), `admitted`, `enabled`.

State. `strategy` is the caller's login; `holds` the facts that hold now; `stage` the
one its request is at, 0 if it has been answered; `answer` the last answer. A request
reads each fact at some time of its own, perhaps in parts and long before it uses it,
so the model remembers those that failed to hold at some time since the request came
in (`missed`) and those that never held (`lacking`): a stage may find a fact in order
unless it is `lacking`, and out of order if it is `missed`. A fact may be of several
things, of which a stage asks for some: a wrong `valid` OIDCConfig is found out by the
discovery or, with its endpoints set by hand, only by the client's Secret or the exchange.
So a stage may also pass a `lacking` fact if a later one asks for it, and the last to ask
finds out all (`Passes`). `standing` is the answers
to requests since when nothing has changed, for the properties. `calm` is from when
nothing goes wrong.

| Action | Code |
|---|---|
| `Send`, `SignIn` | the caller, external: the same request again; a new code |
| `Succeed` | a stage is passed; the last one answers (`encode.Success`) |
| `Refuse`, `Fail` | an early return: `status.Refused`, `status.Failed`, `encode.Failure` |
| `Lose` | the connection or authn is gone; `WriteTimeout` |
| `Edit`, `CalmDown` | users and administrators |

`docs/api.md` gives each cause what a caller should do; `RetryLater` and `SignInAgain`
are those two kinds, and any other is not sent again unchanged. A code that was sent to
the identity provider may be used up whether or not the exchange was answered, so
advice to retry after it leads to `AuthorizationCodeRejected`, and that to a new
sign-in. `Busy` says whether the LDAP server may answer with a result code that is
passing; `serverFailure` tells apart lost connections only. `/basic/login?d`, which
answers with a file, is in `ClientConfig`.

### How `Rollout` corresponds to the code

State. `SigningKeys` has `JWT_KID`, `JWT_SIGN_KEY_FILE` and `JWT_PREVIOUS_KEYS` as a
`Config`, which configurations a process starts with (`Starts`), and what it publishes
from then on (`Published`). `Process` has, per pod, where `main` is (`phase`), where the
listening goroutine is (`listener`), the health flag, the shutdown context's deadline
and whether a login is in flight. `Rollout` adds the configurations deployed so far
(`release`), the one each pod was created with (`gen`), the unexpired tokens, and the
validator's cache.

| Action | Code |
|---|---|
| `Boot`, `MarkHealthy`, `Listen` | `main` up to the goroutine; the goroutine sets `healthy` before it listens, even after `main` cleared it |
| `Signal`, `Flush`, `Drained`, `Forced` | the signal; `otelShutdown`; `Shutdown` returns, or its context expires; both share one 30s context |
| `BeginLogin`, `Sign`, `Refuse` | a request; `CreateToken` with the pod's current key |
| `Die` | the process ends, and kubelet restarts it unless the pod is leaving |
| `Rotate`, `Retire`, `RolledOut` | external: the administrator follows `docs/jwt-jwks.md`; `helm upgrade --wait` |
| `Rotate` with one of `Mistakes`, `Fix` | a previous key that is no key, cannot be read, or repeats the current kid or key; no new pod starts, and the setting is corrected |
| `Schedule`, `Terminate` | external: the Deployment's rolling update with one pod more |
| `Fetch`, `FetchUnanswered` | external but for what is published: plumbing's `JWKSKeySource`, its TTL and its floor between attempts |

A configuration mistake the code cannot see, such as a valid but wrong kid for the
retired key, is not among `Mistakes`: it breaks the rotation, and no check could tell.
`docs/jwt-jwks.md` says validators accept the new key's tokens immediately; what holds
is `RefusedOnlyMeanwhile`: a validator that asked an old pod, or none, may refuse
them until its next attempt.

### How `Issuance` corresponds to the code

State. `cache` is the generator's `caData`, the two words of a Go string, since `issue`
fills it without a lock while other logins test it; `kubernetesURL` is filled the same
way. `csrs` are the CSRs in the cluster; `pc[r]` and `work[r]` are where a login is and
its local variables. Time is in ticks, several to a second, because `tokenDuration`
and `CreateToken` each read the clock and the CSR's `expirationSeconds` is cut to whole
seconds of an int32.

| Action | Code |
|---|---|
| `Begin`, `Fetch`, `Fill` | `issue`: the test of `caData`, `CACrt`, the assignment word by word |
| `Create`, `CreateLost` | `NewCertificateSigningRequest`, `CreateCertificateSigningRequest`; a creation that took effect and was not answered |
| `Approve`, `WaitIssued`, `WaitRefused`, `Delete` | the following calls and the deferred deletion, which fails silently |
| `Sign` | external: the signer issues what the API and its own limit allow, or fails |
| `Assemble`, `Put` | `generateCertAndClusterInfo`, `storeCertAndClusterInfo` |
| `Measure`, `Success` | `tokenDuration`, `CreateToken` |
| `Fail`, `Restart`, `RotateCa`, `Tick` | a failed call; the process ends and the cache with it; the cluster's CA; the clock |

A duration too great for an int32 becomes the least or the greatest one, by the
platform Go is built for, and the model allows either. `CsrName` is a user and the
login's random suffix. What `Put` does to the Secret is `ClientConfig`'s.

`Minting` is where the two meet: per login, the duration it asks for, how far it is
(`asking`, `minted`, `stored`, and then `answered` or `refused` for good) and the expiry of
its certificate. `ClientConfig` has a login minted by its step `Mint`. In `Issuance` it is
minted when the signer issues its CSR, though it learns of it later or never: the calls
before and after are stutters of `Minting`, and the certificate is what the CSR says until
the login has read it. A restart refuses all the logins of the process in one step. Tokens
are not part of `Minting`: `Issuance` measures and signs at two readings of the clock and
`ClientConfig` at one, which `WithinAsked` and `TokenWithinItsCertificate` are about.
Nor is what a login is stored under, or whose CA it carries: each is in one of the two
modules only.

### How `Portal` corresponds to the code

State. `declared` is the Users and configurations there are, `steady` and `once` those
there have been all along and at any time since the list was asked for; `pc`, `failed`,
`found`, `left`, `broken`, `err`, `entries` and `usable` are the local state of one
`GET /strategies`; `page` is the call the page makes of an entry.

| Action | Code |
|---|---|
| `Users`, `ListOidc`, `ForLdap`, `ForOAuth` | `Handler`'s four lists, each of which may fail and is then left out |
| `Discover`, `ForOidc` | `OIDCConfigList`'s loop, one discovery a step, and `forOIDC` |
| `Choose` | external: the page calls a login, or the step-up an entry's extensions tell of (`StepUpExtensions`) |
| `Preflight`, `Send` | `cors.Handler` (`handlePreflight`, `handleActualRequest`) with `main`'s options, or none without `AUTHN_CORS`; `Serve` by path and method; the browser's check (`Passes`) |
| `Edit` | external: an administrator creates or deletes an object |

An OAuthConfig that does not convert leaves a nil in `listOauthConfig`'s result, and its
error only when it is the last: `ListOAuthConfigs` then panics on the nil
(`list.go:49`, `list.go:85`), and the page gets no answer at all (`aborted`). The CRD's
schema makes that rare. `AllowCredentials` is set with the origin `*` (`main.go:276`),
a combination no browser accepts for a request with its own credentials: authn's
logins need none, so nothing is lost, and `PageReads` says which pages can read what.

## What is checked

Durations are small integers that keep the order of the real ones: a signer that
grants as much as is asked or less (`SignerMax` 2, `CANotAfter` 4), a step-up
shorter than a session (1 and 2), a grace period (1), a clock that runs past the
expiry of what was issued last (`MaxTime` 3).

| Run | Instance | Shows |
|---|---|---|
| `logins` | two requests, each a session login whose source asserts a reserved group, the same user's step-up or another's, and two sweepers, `FairSpec` | `TypeOK`, `AnsweredNotRolledBack`, `TokenWithinItsCertificate`; every step is one of `CredentialLifecycle`, so that only an expired step-up is removed although the lists are stale; `Minted`, that a login mints once and ends once; and `ExpiredStepUpRemoved` |
| `backfill` | Secrets of an earlier release for a user and for authn, a login, objects that come and go, one backfill; the clock stands still | `AnnotationsDescribeCertificate`, `LoginStrategyStands`, `AnsweredNotRolledBack` |
| `outlived` | two logins | a **violation** of what `docs/certificate-renewal.md:18` says |
| `renewal` | two replicas that crash, lose the Lease and leave late calls behind; half a window of 12 units | `TypeOK`, `RenewedInTime`, `AnnotationsDescribeCertificate`, `NeverRolledBack` |
| `renewal_liveness` | one replica, a signer that grants at most two units and a floor of two, `FairSpec` | `RenewedForever` |
| `copies` | three logins, two endpoints, stages that name one of them twice, and that an edit changes | `TypeOK`, `AloneSucceeds`, `NoStaleToken`, `SomeoneSucceeds`, `SuccessLeavesNoCopy`, `CleansUp` |
| `decisions` | a login or step-up, seven configurations that may be edited meanwhile, clocks off by one unit, half a second each | `TypeOK`, `StepUpProven`, `NotStaleTooSoon`, `AdmittedByFinalGroups` |
| `contract` | all six logins, one fact that does not hold at a time, an LDAP server that may be busy, `FairSpec` | `TypeOK`, `GrantedDeserved`, `RefusalStands`, `EntitledGetsIn` |
| `rollout` | two pods, two keys under two key IDs, one mistake of each kind, one crash, one unexpired token at a time, `FairSpec` | `TypeOK`, `KeysOutliveTokens`, `NeverInvalid`, `RefusedOnlyMeanwhile`, `RolloutCompletes` |
| `issuance` | two logins of one user, two CAs, three durations of which one is too short and one too long, one restart | `RefusedForCause`, `CsrsCleanedUp`, `CaOfCluster`, `WithinAsked`, `Minted` |
| `portal` | a User, two OIDCConfigs with discovery, an LDAPConfig, two OAuthConfigs of which one does not convert, each edited once | `ListedOrExplained`, `PageReads` |
| `listing` | the same | a **violation** of what `docs/behavior.md:40` says |

Two requests are enough for a login to be answered while another of the same user is in
flight, and for a step-up to be rewritten under a sweep's stale list; two sweepers are
the old leader's and the new one's, whose passes overlap. A user has one step-up Secret
at most, so there are two users with one: an error on the one's then drops the other's from the
pass. `ClientConfigProofs` has the
safety properties and the refinement for any number of each. `CHECK_DEADLOCK FALSE` in
`ClientConfig`, `Issuance`, `Portal` and `Rollout`, where requests, time or edits run
out. `Issuance` and `Portal` are well typed by `TypeCorrect` of their proofs, which no run
repeats.

`TokenNeverOutlivesSecret` fails: logins A and B mint at times 0 and 1, B's update
arrives first and B is answered with a token that lasts as long as B's
certificate, then A's update arrives. The Secret now holds A's certificate, which
expires before B's token. What does hold is `TokenWithinItsCertificate`: a token
never outlives the certificate it was minted with.

The backfill's `strategyOf` infers `basic` from a User object with the certificate's
name (`backfill.go:183`), although its own comment promises never to guess
(`backfill.go:64`). A user who logged in through LDAP before this release, and shares
the name with a User, is stamped `basic`. The model includes it; what does hold is
`LoginStrategyStands`: what a login of this release recorded is never changed.

In `renewal` half of the window has to absorb the backfill (one unit) and one
trouble, a late call that deletes the renewal's CSR included: `MaxTrouble` is 1,
the window 12 units, `RetryInterval`, `LeaseDuration`, `BackfillTime` and `MinSleep`
one each. The signer's CA never has less left than the window (`CAMin` 12): with a
CA that is closer to its end a renewal grants little, and a late write of a
certificate from before the rotation could replace a long one by a short one. Two
replicas are enough for an overlap, which takes one leader and the late calls of
another. `renewal_liveness` has one replica because replicas are anonymous: every
lead starts from nothing, so the second lead of one replica is that of another.
Its windows are those `RenewedInTime` leaves out: whatever the signer grants has lapsed
when the floored wait is over (`InstanceIsShort` of `MCOwnIdentityShort`), so authn is
without a valid certificate after every renewal, and gets one again.

`copies` needs three logins: one that left copies behind, and two that overlap over
them. Two endpoints, one named by two stages, tell apart what is deleted twice from
what is not deleted; one edit is enough to change the stages between a copy and its
deletion.

Overlapping logins can leave copies behind even though nothing crashed and no call
failed on its own, which `docs/gotchas.md:185` does not foresee: login A deletes the
endpoint copies that login B is about to use, B's call fails because an endpoint is
missing, and `LegacyResolve` returns without deleting what B wrote in the meantime. What
does hold: logins that all succeed leave nothing (`SuccessLeavesNoCopy`), a login by
itself removes what was left (`CleansUp`), and what is left is never resolved with the
token it carries (`NoStaleToken`), unless the RESTAction was edited and logins
overlapped as well.

`decisions` has one request because a request reads nothing of another's; the
session it may find at the IdP is as old as the clock lets it be. Seven units of
time are enough for a session older than every `maxAge` and a slow exchange.

`contract` lets one fact fail to hold at a time (`MaxLacking` 1), besides the code and
the sign-in's freshness, which come and go by themselves: the handlers stop at the
first fact that does not hold, so a second one matters only once the first has been
put right, and edits do that.

`EntitledGetsIn` has an exception. `serverFailure` answers `LDAPBindFailed` or
`LDAPSearchFailed` for every result code but a lost connection, that of a server which is
busy or over a limit included. `docs/api.md:254-255` files both under "Tell an
administrator", and line 111 says of those that retrying won't help until it is fixed; yet
the same request is granted a moment later with nothing fixed, and a caller who does as it
says stops there (`Misled`). What holds is that no other failure's advice leads nowhere,
and with a server that is never busy none does. `RefusalStands`, that a 401 or 403 is
never answered to who would be let in by sending the same again, holds for a busy server
too.

`rollout` has one replica: a rolling update then has two pods, one of each
configuration, which is as many configurations as can serve together. Three units of
time are a token's longest life (2) and one of the shutdown's (`Grace` 1); the
validator's cache outlives both (`TTL` 2).

`issuance` needs two logins to overlap over the cache and to meet each other's CSRs,
and a CA rotated once for a cache of parts of two. With two ticks to a second, and the
greatest number of seconds three, durations of 1, 3 and 9 ticks are below, within and
beyond what the API takes, 3 with a fraction to cut.

`portal` has two OIDCConfigs so that a discovery can fail first and last, and two
OAuthConfigs so that the one that does not convert is followed by one that does. One
origin is enough: with main's options every origin is treated the same, and
`PortalProofs` has any.

`OneEntryPerConfig` fails: `OIDCConfigList` assigns each discovery's result to the one
`err` it returns (`oidcconfig.go:111`), and `forOIDC` drops the whole kind on it. A
provider that does not answer takes every OIDC entry off the page if its configuration
is listed last, and otherwise only spoils its own. What does hold is
`ListedOrExplained`.

### Fairness

`FairSpec` of `ClientConfig`, which `logins` runs, assumes that the leader's sweep loop
keeps running (`Run` lists again every interval, whatever the last pass ended in), that
it judges what it listed, and that a delete the apiserver is asked for again and again
is in the end carried out (strong fairness: an error drops the pass, a conflict moves
on, so the delete is enabled only now and then). Without the last, one Secret whose
deletion always fails would keep every pass from those listed behind it. Logins, the
backfill and administrators are assumed nothing of.

`FairSpec` of `OwnIdentity` assumes that time passes and the CA is rotated, that a
free Lease is in the end taken, and that a call which is made again and again in
the end succeeds: the loop retries for ever (`RetryInterval`), `leader.Run`
campaigns again for ever, and nothing gives up. These are strong fairness, because
a lost lead or a failed call disables the next step in between. Nothing is assumed
of crashes, lost leads, failures or deletions of the Secret: they may go on
for ever.

`FairSpec` of `LoginContract` assumes that a handler goes on (a call that hangs is
`Fail` or `Lose`), that the caller sends its request when the documentation of the last
answer's cause says to retry, and that it signs in anew when told to, again and again
if need be (strong fairness: in between it may send a code that is used up). Whom a
busy LDAP server sent to an administrator, it lets wait. `EntitledGetsIn` supposes that
at some time everything is in order, nobody edits anything and no call fails (`calm`);
before it anything may have happened.

`FairSpec` of `Rollout` assumes weak fairness only: the Deployment's controller goes on
creating and removing pods, a process that boots, marks itself healthy, listens,
flushes and drains goes on, and a request ends, answered or not. Nothing is assumed of
administrators, validators or crashes, of which there are finitely many.
`RolloutCompletes` is conditional on a configuration that starts: with one that does
not, authn means to stay with the old pods. The other modules state safety only.

## What is proved

`ClientConfigProofs` proves, for any users, groups, requests, sweepers, fillers,
durations and clock bound that satisfy `CredentialsAssumption` and
`ClientConfigAssumption`:

| Theorem | States |
|---|---|
| `TypeCorrect` | `[]TypeOK` |
| `AnnotationsCorrect` | `[]AnnotationsDescribeCertificate` |
| `StrategyCorrect` | `[]LoginStrategyStands` |
| `LoginsStand` | `[]AnsweredNotRolledBack` |
| `TokensBounded` | `[]TokenWithinItsCertificate` |
| `ImplementsLifecycle` | `Spec => LifecycleSpec` |
| `ImplementsMinting` | `Spec => Minted` |

They follow from one inductive invariant, `Inv` (theorem `Invariance`). The
properties are about what is stored; they are not inductive because a writer with
an old list, or a request that has been running for long, could store anything.
`Inv` adds what those writers know:

- `SnapshotsFaithful`: a listed Secret's resourceVersion was given out, and as long
  as the stored Secret still has it, its contents are the listed ones. It needs
  `RevisionsGiven`, and makes a write that is conditional on the resourceVersion
  preserve the certificate.
- `RequestsFaithful`: a request between minting and answering carries a
  certificate of its own, for its own identity, with groups that can be recorded;
  the requests that were over when it began are still over. It makes an
  unconditional update safe: whatever it replaces, what it stores is newer than
  every request that was over.
- `StoredNotRolledBack`: the rollback property from the moment the credential is
  stored, not only once the login is answered.

The refinement maps `held` to the readable certificates of the store and `clock`
to the clock. A login's write is `Rotate`, the sweep's conditional delete is
`Remove` (by `SnapshotsFaithful` the certificate it judged is the stored one), the
backfill's write is a stutter (for the same reason it stores the certificate that
is stored). `Minted` looks at the requests instead: the writers in the background stutter,
and a request whose update finds no Secret is refused with the certificate it has.

`OwnIdentityProofs` proves, for any replicas, durations and threshold that satisfy
`OwnIdentityAssumption`:

| Theorem | States |
|---|---|
| `TypeCorrect` | `[]TypeOK` |
| `AnnotationsCorrect` | `[]AnnotationsDescribeCertificate` |
| `NoRollback` | `NeverRolledBack` |
| `NeverExpires` | `[]RenewedInTime`, given `RoomForTrouble` |

Here too the invariant is about what is going to be written. `CallsFaithful` says of
every replica, and of every call of a lead that is over: an annotation write whose
resourceVersion is still good carries the certificate that is stored, and a
certificate about to be stored was signed within the last unit. `StoredStep` then
lists all that a step can do to the Secret, and both properties follow from it.

`NeverExpires` is about quantities, and `RoomInv` keeps the account. `Reserve` is what
the trouble still to be endured may cost: each failed call, lost lead or late call costs
a wait for the Lease or for the next try, and the backfill after it (`Cost`). `Ample`
says that what is left of the stored certificate exceeds the reserve and, on top of it,
the wait under way: that for the Lease, or what the holder has yet to wait (`Pending`),
or the retry that follows once somebody has replaced the CSR being awaited. `Waits`
bounds those waits, `Led` and `SoleCsr` say that only the holder runs `ownIdentity` and
that there is one CSR named `authn` at most, and `ProperCerts` that every certificate
about was granted by the signer, so that its life is between `Shortest` and `Longest`.
Time passing takes a unit of the certificate and of the wait, or counts as trouble; a
step that fails takes its share of the reserve; a renewal starts the account anew.

The hypothesis `RoomForTrouble` is not an assumption on the constants, because the code
does not enforce it: a signer that grants minutes, or a CA about to expire, does leave
authn without a valid certificate for a while, as `renewal.go:60` knows. It asks that
what the threshold leaves of the shortest lifetime covers the floor, the backfill and
the trouble, and that the shortest certificate outlasts the longest wait and the trouble,
because a late call can put it in the place of a long one by whose schedule the holder
sleeps. With the defaults (a threshold of 0.66, a minute for `minSleep` and for
`retryInterval`, 15 seconds for the Lease) a signer that grants an hour leaves 20 minutes.
`MCOwnIdentity` has TLC check the hypothesis for the instance of `renewal`.

`LegacyResolveProofs` proves, for any logins, endpoints and stages that satisfy
`LegacyResolveAssumption`:

| Theorem | States |
|---|---|
| `TypeCorrect` | `[]TypeOK` |
| `TokensFresh` | `[]NoStaleToken` |
| `AloneSucceed` | `[]AloneSucceeds` |
| `CopiesCleanedUp` | `CleansUp` |
| `NothingLeft` | `[]SuccessLeavesNoCopy` |
| `OneSucceeds` | `[]SomeoneSucceeds` |

The invariant adds `CopiesFresh` (what a login has copied so far is there with a
token that is not stale), `OwnStages` (the copy it is about to resolve has the
stages it read) and `HistoryFaithful` (who overlapped whom). Copying is a loop over
the stages, so the first of them is stated for the stages passed. `AloneInv` is for a
login with no other beside it, as `HistoryFaithful` knows: what it has copied is there
until it deletes it, what it has deleted is gone, and of what it has yet to delete each
endpoint is there or is a stage it has passed already (theorem `Solitude`).
`DebtInv` (theorem `Debts`) is for logins that overlap: as long as none failed, either
each copy has a login that will delete it (`Tidy`), or more logins have to delete the
RESTAction's copy than there are copies, and one of them is bound to fail (`Doomed`).
`RaceInv` (theorem `Race`) is for logins that undo each other although no call fails and
nothing is edited. Until somebody begins to delete, everybody has all the copies it
made, and the last to write meets no conflict (`Gathering`); from then on the login that
has deleted most leads, since what it has yet to delete nobody else has reached
(`Leads`). A login that fails is never the one that can go on, so the last one left
succeeds.

`OidcLoginProofs` proves, for any durations, drift, groups, configurations and
requests that satisfy `OidcLoginAssumption`:

| Theorem | States |
|---|---|
| `TypeCorrect` | `[]TypeOK` |
| `StepUpsProven` | `[]StepUpProven` |
| `RefusalsJustified` | `[]NotStaleTooSoon` |
| `GroupsFinal` | `[]AdmittedByFinalGroups` |

The invariant adds `Dated`: `auth_time` is within the drift and a second of when the
user really authenticated (lemma `StampedBounds`, about rounding down). From it the
age `checkStepUp` computes bounds the real one on both sides.

`LoginContractProofs` proves, for any subset of the logins, any number of facts that do
not hold at a time, and an LDAP server that may be busy or not:

| Theorem | States |
|---|---|
| `TypeCorrect` | `[]TypeOK` |
| `GrantsDeserved` | `[]GrantedDeserved` |
| `RefusalsStand` | `[]RefusalStands` |

`PipelineComplete` is about the logins themselves: each asks for all it goes by, and no
failure is answered as a refusal or as a grant. The invariant adds `StillAsked` (a fact that
is `lacking` is asked for at the stage under way or later) and `Reasoned` (a refusal that stands has a
fact that does not hold, and has not held since the request under way came in).

`RolloutProofs` proves, for any pods, keys, lifetimes, grace period and number of
rotations and crashes that satisfy `ProcessAssumption`, `KeysAssumption` and
`RolloutAssumption`:

| Theorem | States |
|---|---|
| `TypeCorrect` | `[]TypeOK` |
| `KeysStay` | `[]KeysOutliveTokens` |
| `NeverForged` | `[]NeverInvalid` |
| `RefusedBriefly` | `[]RefusedOnlyMeanwhile` |

The properties relate a token to pods of another configuration. The invariant adds how
configurations follow one another (a key ID keeps its key through all of them, each
can be followed by the next, a mistaken one is corrected), `Settling` (once an upgrade
is rolled out, pods of an older configuration are leaving, within their deadlines, so
what they sign ends in time), and that tokens and the cache come of the configurations
they name.

`IssuanceProofs` proves, for any logins, users, CAs, durations and limits that satisfy
`IssuanceAssumption`:

| Theorem | States |
|---|---|
| `TypeCorrect` | `[]TypeOK` |
| `RefusalsCaused` | `[]RefusedForCause` |
| `CsrsDeleted` | `[]CsrsCleanedUp` |
| `CaRight` | `[]CaOfCluster` |
| `LifetimesBounded` | `[]WithinAsked` |
| `ImplementsMinting` | `Spec => Minted` |

The invariant says of each CSR which login it is of and how far that login is
(`CsrGood`), of each login what it holds at its place (`CauseGood`, `CaGood`), and of
one that began with the cache at rest that nobody has filled it since (`CalmGood`).

The refinement needs `MintInv` besides (lemma `StepKeepsMint`): no login has two CSRs, a
login that has yet to approve its CSR has a pending one, and one that has a certificate has
only to delete its CSR and to finish. From it `LoginMoves` makes each call of a login one of
five moves: it begins, it waits, it takes the certificate the signer gave, it goes on with
it, or it ends; in none does it touch another's CSR, so the others look the same
(`OthersSame`). What remains is to name the step of `Minting` for each move, for the
signer's step (`SignMints`) and for a restart (`RestartMints`).

`PortalProofs` proves, for any objects, ranks and origins that satisfy
`PortalAssumption` and `CorsAssumption`:

| Theorem | States |
|---|---|
| `TypeCorrect` | `[]TypeOK` |
| `ListingExplained` | `[]ListedOrExplained` |
| `PagesRead` | `[]PageReads` |

`Listed` is `ListedOrExplained` for the lists read so far, with the error as the loop keeps
it; `Ranked` says whose error that is: that of the last discovery so far, since the loop
goes by rank. `Paged` is what the lemmas about `New(Options)`, the preflight's and the
request's answer make of a call.

`ExpiredStepUpRemoved`, `RenewedForever`, `EntitledGetsIn` and `RolloutCompletes` are
liveness and stay with TLC, which has to show what fairness and `ENABLED` make of a
specification. Every other property of a passing run is a theorem.

## Plan

1. One abstract specification over `Minting` and `CredentialLifecycle`: that what a login
   keeps is what rotates into its Secret, and a statement of what a login and its Secret
   promise together.
2. `OwnIdentity` shown to implement an abstract renewal, of one certificate by one writer.

## Not modelled

- Cryptography and encodings, HTTP parsing, the recover and trace middleware, logs and
  metrics; preflight caching (`Access-Control-Max-Age`).
- The token authn mints for itself when it builds its routes (`routes.go:78-84`): once,
  with a life of a year, used for nothing but the calls of enrichment.
- A login user whose name is `AUTHN_USERNAME`, who shares `authn-clientconfig` with
  authn itself: nothing in the code keeps the two apart, and each writes the Secret as
  `ClientConfig` and `OwnIdentity` have it.
- Short ids, which end as an annotation of a CSR and decide nothing; uuid's bit mixing;
  the custom resources' types and schemas; an entry's graphics.
- Filters of LDAP searches, names of claims, comparing passwords: facts that hold or
  not.

`PROJECT.json` lists every part with its status.
