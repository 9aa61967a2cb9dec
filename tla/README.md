# hss-science: a verification development

TLA+ models of the three Go services under `src/server/services`, TLC
configurations that check them on small instances, and TLAPS proofs of the safety
properties of every component.  Paths of documents are relative to `src/`,
paths of code to `src/server/services/` unless they begin with `src/`.

## 1. The system

**identity-service** is an OpenID provider (zitadel/oidc as the protocol library,
PostgreSQL as its only state, gRPC for the account API).  A browser is sent to
it with an *auth request*; the user signs in with Google or GitHub; the callback
finds or creates the *user*, finds or creates the *device session* the browser's
cookie names, and completes the auth request.  The client redeems the code for
an access token and a *refresh token* bound to the device session, and each
refresh *rotates* the pair.  Revoking a device session deletes its refresh
tokens.  Cleanup loops delete what has expired.

**myaccount-bff** keeps a browser session in Redis (access token, refresh token,
times) behind a cookie, refreshes the tokens under a Redis lock when they are
about to expire, and forwards account calls to identity-service.

**blob-service** hands out presigned URLs of Cloudflare R2 for content-addressed
blobs and keeps in PostgreSQL whether a blob is PENDING or COMMITTED.

| Component | State | Operations | Hard behaviour | What makes it correct | Module |
|---|---|---|---|---|---|
| Grant store (`oidc/postgres/token_repo.go`, `device_session_repo.go`, `oidc/adapter/storage.go`) | `device_sessions`, `tokens`, `refresh_tokens`, completed `auth_requests`; device cookies | login callback, code exchange, client credentials, rotation, dsid claim, revocation by session, by user, by token, logout, three cleanup loops | two refreshes with one token; revocation, logout or cleanup between a handler's read and its transaction; users who share a browser; a sweep that deletes by an older snapshot | a refresh token is used once; one token pair per login; a revoked login stays dead; tokens are bound to sessions of their own user; a login that is used keeps its session | `TokenStore` |
| Its transactions at READ COMMITTED | row locks, snapshots | the statements of rotation, exchange, revocation, logout | snapshots that miss a concurrent INSERT; lock orders that deadlock; early returns that must roll back | each transaction takes effect at one point; each ends | `TokenTx`, `TokenTxAtomic` |
| Auth requests (`oidc/authrequest_svc.go`, `postgres/authrequest_repo.go`, `authn/handler.go`, `pkg/crypto/aes.go`) | `auth_requests`; encrypted login states in browsers | create, redirect to a provider, complete, read with TTL, save code, redeem, delete, sweep, restart with another key | callbacks that come twice or late, or after a restart; expiry and sweep at the boundary | tokens go to who completed this request in time, with a state the process could read; an answered code is spent; the sweep spares live requests; none piles up | `AuthRequests` |
| Users and identities (`identity/service.go`, `identity/postgres/user_repo.go`, `authn/provider_*.go`) | `users`, `federated_identities` | fetch claims, sign-in, profile and its overrides, unlinking | first sign-ins that race; edits during a sign-in; GitHub's second call failing; the second UPDATE failing | one user per provider account; no orphaned user; edits are not lost; verified means verified; a later sign-in repairs | `Accounts` |
| Access tokens and signing keys (`oidc/adapter/keys.go`, `storage.go`, `grpc/interceptor.go`, blob-service `interceptor/auth.go`) | keys read at start, keys cached by relying parties, `tokens`, `refresh_tokens` with scopes | start, stop, rotate and retire keys, issue, refresh, revoke, sweep; verify at the account API, userinfo, introspection, a relying party | processes of two releases side by side; stale caches; tokens that outlive their row or login | unexpired tokens of older releases are accepted; a revocation bites within a lifetime; scopes only shrink | `TokenAccess` |
| Rate limiter (`middleware/ratelimit.go`, `main.go`) | three maps of token buckets by client address | lookup, take a token, evict | a bucket is used after the unlock, beside requests of the same client and the eviction loop; integer burst | eviction is invisible; a client below the rate is not refused (refuted for the smallest rates, section 4) | `RateLimiter`, `RateLimits` |
| BFF sessions (`middleware/auth.go`, `session/store.go`, `handler/auth.go`, `handler/sessions.go`) | Redis: sessions, refresh locks, OIDC states | login, callback, load, lock, refresh, save, release, answer, logout, revoke | concurrent requests of one session, a lock with a TTL and no owner, lost answers, crashes | what is saved is the newest token, and what is stored the current one; refreshes are serialized; one session per OIDC state; the hard maximum holds; a logout is final | `BFFSession` |
| Blob uploads (`app/blob_app.go`, `repository/postgres/blob_repo.go`, `storage/s3/r2_client.go`) | `blobs`; R2 objects and multipart uploads | initiate, complete, abort, download URL; clients PUT directly | RPCs of several clients on one blob, failure between R2 and PostgreSQL | a row only advances; one commit per blob; an assembled blob has its object; download URLs are for committed blobs | `BlobUpload` |
| What a client sees of its logins | tokens issued, tokens accepted | begin, refresh, end | lost answers, revocation and expiry between two refreshes | one accepted token per login; a spent token stays spent, an ended login ended | `Logins` |
| Processes (`main.go`, `config/config.go` of the three services) | phase, listeners, connection pools, requests in flight | load, start, serve, drain, force, crash, restart | services that need each other to start; requests through two services; small pools; shutdown with requests in flight | no request waits for ever while dependencies are up; a pool gets back each connection once; a graceful stop loses none; every process comes to serve | `Lifecycle` |
| Clients and scopes, CSRF check, web frontend, generated code | none, or read-only | | | | not modelled (section 8) |

How they interact: the callback of `authn/handler.go` calls Accounts (who is it),
then the device sessions of the grant store, then the auth request.  The token
endpoint reads an auth request and writes the grant store.  The BFF is an OIDC
client: its `Exchange` and `RefreshToken` are the grant store's exchange and
rotation, its logout and revocation the grant store's.  In the models a component's
neighbour is what it promises.  What the grant store promises its clients is a
specification of its own, `Logins`: a login begins with a token, a refresh replaces the
accepted token by a new one, a login ends for ever.  `TokenStore` implements it
(`ImplementsLogins`, checked and proved), and `TokenAccess` follows it too, with scopes and
signatures added (its `FollowsLogins`, proved).  What `BFFSession` has identity-service do for
the logins behind its sessions (`issued`, `live`) are the same three steps, written out there.
`AuthRequests` writes a device session as the user it belongs to, which is `SessionOwner`;
`TokenStore` treats each transaction as one step, which is what `TokenTx` shows; `Lifecycle` has
the requests of all three with nothing but the work they have left, the connections they
hold and whom they wait for.

## 2. How the models correspond to the code

PROJECT.json ("map") gives the lines of each definition.  Conventions:

* A step is one SQL statement, one transaction, one Redis command or one remote
  call.  A request that makes several is in flight in `call[p]`, holding the values
  it has read, and anything may happen between two of its steps.  A step named
  `Fail`, `Crash` or `Rollback` ends it between two of them.
* Tables are sets of records with the columns the behaviour depends on.  ULIDs and
  random values are counters: unique, and ordered by creation (`TokenStore` orders
  `created_at` by them).  SQL NULL is `Null`/`"NULL"`/`None`.
* One clock serves Go, PostgreSQL and Redis.  Lifetimes are counted in ticks.
* Variables called history in their comment exist for the properties only.

**TokenStore.**  `deviceSessions`, `tokens`, `refreshTokens` are the tables,
`authRequests` the completed rows of `auth_requests`.  The callback is
`FindOrCreate` (the SELECT), then `TouchDevice` or `CreateDevice`, then
`CompleteLogin`; the token endpoint is `AuthRequestByCode`, `ExchangeCode` (or
`ExchangeCodeAccessOnly` without `offline_access`), `GetPrivateClaims`, `Respond`, or
`TokenRequestByRefreshToken`, `Rotate`, `GetPrivateClaims`, `Respond`, or `ClientCredentials`;
`RevokeAllOtherSessions` is a list and then one transaction per session.  The token
sweep is two statements.  The sweep of device sessions is one DELETE, and two steps:
`FindRevokedBefore` is its snapshot, in which `NOT EXISTS` is evaluated, `DeleteRevokedBefore` what
happens when the locks it waited for are free, to whatever the rows are by then.  A rotation
can commit in between, and when it commits after the expiry of the token it has read (it tests
`expiration > now()`, the time its transaction began) the new token loses its session.
`family` is history: the exchange a token descends from; `late` has the families with such a
rotation.
Abstractions: an access token has the id of the grant that issued it;
`last_used_at`, names and addresses are left out (the row lock the UPDATE of
`last_used_at` takes is in `TokenTx`).  `RevokedLongAgo` stands for `revoked_at` older
than 30 days: by then no request is in flight (the server's write timeout is 30 s)
and no auth request of that time is left (TTL of at most 60 minutes), so the guard
says that none names the session.  The cookie is read in the step that also runs
the SELECT.  The order in which the token endpoint calls the storage is the
library's and external; so is what `RevokeToken` is passed for a refresh token
(.llm/archive/012_plan.md:889 has the token).

**Logins** has no state but the pairs of login and token that were issued and that are
accepted.  In `TokenStore` a login is a family of grants, and a token is accepted while its row
is there and unexpired, which is what the token endpoint asks, or a refresh that read it in time
is under way; in `TokenAccess` likewise, without expiry.  A refresh whose answer is lost is a
refresh; revocation, logout, expiry and the sweeps are `End`.

**TokenTx** runs rotation, exchange, revocation and logout of one user and client
one statement at a time: a SELECT or DELETE sees the rows committed when it starts, a
write takes the row's lock to the end of the transaction, a DELETE that has waited
skips a row that is gone.  **TokenTxAtomic** is what they promise, four actions
without locks; `ImplementsAtomic` is `TokenTxAtomic!Spec` under the identity mapping of
the tables (what a transaction has not committed is not visible there).

**AuthRequests** has the table with its TTL and its code column, from creation by the
authorize endpoint to deletion.  A login state is the request, the provider and the key
(`CRYPTO_KEY`) it was encrypted with; `Redeploy` is a restart with another key or other
providers, which ends what is in flight and leaves the states with the browsers; `logins` is
history, each with the environment of the process that completed it.  PKCE,
client, redirect URI and scopes never change after creation and are checked by the
library; they are left out.

**Accounts** begins with what a provider says at a sign-in: Google's one signed token, or
GitHub's profile with a second call for the address that may fail.  That call returns a list
(`GitHubEmails`: any addresses, each primary or not, verified or not), from which `PrimaryEmail` takes
the primary one if it is verified, as the adapter does; nothing else filters it.  A user has the columns
the account API shows (`shown`), their overrides (`local`), an address and its verified
flag; given and family name go the way of the text without an override.  The sign-in
is the SELECT and then two UPDATEs, or the one transaction of a first sign-in.
`Profile`, `ListLinkedProviders`, `domainStatus` and `grpcToHTTP` are what the two services
answer.

**TokenAccess**: a release is an environment with a current key and previous ones;
`Start` reads it, and a process keeps it until `Stop`.  `RotateKey` and `RetireKey` are what an
operator does (the rotation is manual, .llm/archive/011_research.md:305): a rotated key becomes
a previous key, and a previous key is retired, it is assumed, only when no process signs with it
and its tokens have expired.  `Exchange` and `Refresh` sign a token and write its row, `RevokeLogin`,
`RevokeAccessToken` and `SweepTokens` delete rows while the token itself exists for ever in
`issued`.  `AccountsAccept` is the interceptor of the account API, `Active` and `Userinfo`
the two endpoints that also read the row, `Verify` a relying party (blob-service,
myaccount-bff) with the key cache of coreos/go-oidc, which fetches when it meets an unknown
key id and is external.

**Lifecycle** has a program per process, the list of what it needs and opens in order
(`IdentityStartup`, `BFFStartup`, `BlobStartup`), and the order in which it drains its servers
(`Shutdown`).  A request is a stack of frames, one per handler; a frame has work left and
holds a connection or none, and a frame of myaccount-bff can push one of identity-service.
`lent` is the pool's own count: a connection is taken by `Begin` and given back by each way a
transaction ends (`End` by its commit, `Rollback` by the deferred rollback of an error or an early return,
`Abandon` by a cancelled context), so one that is given back twice or never is seen.
`Available`, `StoreFails` and `Abandon` are what an outage and a client that goes away do
to it.  An environment is loaded by the same tests as the code's (`LoadBoundedInt` with its
bounds, blob-service's `LoadInt` without), reduced to the settings the properties depend on.

**BFFSession** separates every Redis command and the call of identity-service.
`RefreshAccepted`, `RefreshAnswerLost`, `RefreshRefused` and `RefreshCallFails` are the
outcomes of that call.  `Drop` is a DEL whose error the callers ignore.  `Me` is a handler
that answers from the session the middleware has put into the request's context.

**BlobUpload** has the row's state and, external, R2's objects and multipart uploads.
Clients use presigned URLs when they like.  `GetDownloadURL` reads the row in one step and signs
the URL in the next; its lifetime is capped (`ttl`), which only bounds when `URLExpires` may come.
`GetBlobInfo` only reads.

**RateLimiter** separates the lookup under the mutex from `Allow()` after the unlock.
An entry and the bucket it points to are one record: a request uses the bucket of an
entry that is in the map still (`HeldBucketsStay`), because the time between the unlock and
`Allow()`, where nothing blocks, is less than the 15 minutes an idle entry is kept.
Levels are integers in units in which both the rate and a token are whole; the code's
are floating-point numbers.  The buckets are golang.org/x/time/rate and external.
Requests whose peer has a loopback or private address return from `allow` before they
reach a bucket and are left out; that includes all requests through a local proxy, so
the branch of `clientIP` that reads `X-Forwarded-For` has no effect on limiting.
**RateLimits** is what it promises, one bucket per limiter and client for ever;
`ImplementsBuckets` maps a client without an entry to a full bucket.

Each module also holds variants of its actions (`RotateUnchecked`, `AcquireAlways`,
`CreateInTwoSteps`, ...), each a plausible mistake in the code; no specification uses
them.  Putting one in place of the action it precedes must violate the property
PROJECT.json ("mutants") names.  `AuthRequests!ReadableByAll`, a state of any key that is read,
is a second mistake that violates `IssuedForItsLogin`.

## 3. What the runs check

| Run | Configuration | Shows | States |
|---|---|---|---|
| `tokens` | 2 users, 1 client, 1 browser, 2 requests, 3 grants, lifetimes of 1 tick, 2 ticks, in two scenarios | `RefreshSingleUse`, `OneTokenPairPerFamily`, `RevocationIsFinal`, `NoAccessAfterRevocation`, `RotationKeepsIdentity`; `LiveTokenKeepsSession`, over sweeps beside rotations; `SessionOwner`: no login or token is bound to another user's session, though the cookie is shared; `ImplementsLogins`, the refinement | 1.91 M |
| `revoked` | 1 user, 1 browser, 2 requests, 1 login, 2 grants, no ticks | `RevokedSessionHasNoTokens` is violated (section 4) | - |
| `atomic` | 3 connections, 3 grants, all kinds of transaction | `ImplementsAtomic`, the refinement; `NobodyWaitsForEver`: who waits for a lock waits for a transaction that can go on or is part of a cycle the detector breaks | 1.67 M |
| `access` | 2 processes, 1 relying party, 3 keys, 3 releases, 1 scope, 2 tokens, 2 ticks | `RotationIsGraceful`, `RelyingPartiesFollow`, `RevocationTakesEffect`, `ClaimsWithinGrant` | 860 k |
| `requests` | 1 request, 2 users, 2 providers, 2 handlers, 2 codes, TTL 1, 2 ticks, 1 redeployment, fairness | `IssuedForItsLogin`, `AnsweredCodeIsSpent`, `CleanupSparesLive`, `RequestsAreRemoved` | 1.63 M |
| `accounts` | a Google and a GitHub account, 2 addresses, 2 sign-ins, 3 users | `OneAccountPerSubject`, `EveryUserCanSignIn`, `LocalEditsWin`, `VerifiedMeansVerified`, `SignInRepairs` | 1.05 M |
| `sessions` | 3 requests, 1 OIDC state, 2 sessions, 3 refresh tokens, 3 ticks | `StoredTokenIsCurrent`, `SerializedRefresh`, `StateSingleUse`, `HardMaximum`, `LogoutIsFinal`, `NewestIsSaved` | 216 k |
| `stale` | 2 requests, 1 session | `NoStaleRefresh` is violated (section 4) | - |
| `upload` | 3 RPCs, 1 blob, 2 multipart uploads of 2 parts | `CommittedOnce`, `StateOnlyAdvances`, `AssembledHasObject`, `DownloadsAreCommitted` | 271 k |
| `limits` | 1 client, 2 requests, 2 chained limiters with buckets of 2 and 1, 9 ticks, eviction after 5 | `ImplementsBuckets`, the refinement; `NoUnearnedRefusal` | 280 k |
| `tiny_rate` | as `limits`, with a global rate of 3 | `SustainedRate` is violated (section 4) | - |
| `lifecycle` | 3 processes, 2 clients, 3 environments, 2 faults, handlers with 1 piece of work, pools of 1 connection, fairness | `PoolsGetBackWhatTheyLend`, `DrainLosesNothing`, `HTTPShutdownEnds`, `EveryRequestEnds`, `EveryProcessServes` | 99 k |

Every module with proofs states its inductive invariant, `IInv` (`LifecycleInv` in
`Lifecycle`), which contains the module's type invariant.  Each was found with TLC: added to the
INVARIANTS of the module's configuration it holds on all states of the run.  The runs
check what the invariants are for, and the proofs have the invariants for all
values of the constants.

**Bounds.**  Two requests are the least that race, and every race in `TokenStore` is
between two statements of one request and whole requests of another, so two
slots show all of them; three grants are an exchange and two successive or competing
rotations.  The constraint `Scenario` follows two histories to their end: two users who sign in
on one browser, with all their callbacks, revocations and sweeps and one grant, but no time; and one login
with two rotations around the expiry of its tokens, and with one and all cleanup after it.  It
only cuts histories that mix the two, whose parts are in one of them; the state where
a history leaves them is checked.  `MaxTime = 2` with lifetimes of 1 has a token live, just expired and
swept, and a sweep whose cutoff is older than a token it meets.  `TokenTx` needs a third
connection, since a third transaction can slip between two that wait for each other.
`sessions` needs a third request for a lock that is released by one that has lost it
while two others compete, and a second session id so that a state used twice
would be seen.  `requests` reaches created = cutoff, the boundary of both
comparisons, within two ticks, lets a handler sit on a row that is swept, and has two codes so that a second
callback can follow a first redemption.  Two provider accounts with
equal claims are needed for the lookup that must not go by e-mail, and one that is
verified beside one that is not.  Two processes are a rolling restart; three keys and
releases are two rotations, so that a token can be older than the previous key, or a
rotation and a retirement; two tokens are a login and its refresh, or two logins.  In
`lifecycle` two clients compete for pools of one connection, and two faults are an
outage during a shutdown, or two crashes; a third environment lets services start whose
neighbour never will.  `upload` has two
uploads of one key so that a part or an abort can meet the wrong one.  `limits` needs one
client, as clients share nothing but the map, and has time to fill a bucket, evict it
and use the next one; its lifetimes keep the relation of the code's, an entry outlives the
time its bucket takes to fill (`RateLimiterAssumption`: 10 tokens at 1 a minute, the
slowest, take 10 of the 15 minutes).  The constants
that end in a number of things issued (`MaxGrants`, `MaxUsers`, ...) only cut long
histories off; SYMMETRY is used in runs without liveness properties.

**Fairness.**  `AuthRequests!FairSpec`: time passes, the ticker fires, and the loop's DELETE
does not fail for ever (strong fairness, since an error disables it until the next
tick).  `Lifecycle!FairSpec`: weak fairness of each process (a supervisor launches it, it
goes on with its start-up or gives it up, and the deadline of a shutdown passes) and strong
fairness of each client's handlers (the Go scheduler runs them, and the waiters of a
connection pool are served in turn).  No dependency is assumed to recover and no client to
give up; the properties say what holds while the dependencies are up.  No other run needs
fairness: that transactions do not wait for each other for ever is the state
property `NobodyWaitsForEver`, with PostgreSQL's deadlock detector as the only
assumption.

## 4. Where the code and its documents disagree

Three runs show a violation, each with one property that quotes a document or a comment:

* `revoked`: a code exchanged after its device session was revoked gets a refresh
  token bound to that session (the exchange never reads `revoked_at`), and the
  session cannot be revoked again.  .llm/archive/012_plan.md:23.
* `stale`: after acquiring the lock `refreshTokens` re-checks the copy it loaded
  before, so the second caller does present a consumed token and loses its session.
  .llm/archive/015_research.md:719-720.
* `tiny_rate`: a limiter "allows burst requests per IP with a sustained rate of rps requests per
  second" (identity-service/internal/middleware/ratelimit.go:27-28).  The burst of the global limiter
  is a quarter of its rate in integers (main.go:154), 0 for the rates 1 to 3 the configuration accepts
  (config/config.go:165), and every request is refused.

What the code keeps of the last for every configuration is `NoUnearnedRefusal`, in run `limits`.

The modules state further claims of this kind, which TLC also refutes when they replace
the INVARIANTS or PROPERTIES of the configuration named:

| Definition | Configuration | Claim |
|---|---|---|
| `TokenStore!CodeSingleUse` | `tokens` | codes are single use (.llm/archive/008_OIDC_EVALUATION.md:80): reading, issuing and deleting are separate statements |
| `TokenStore!ClaimIsOwnSession` | `tokens` without its constraint, one user, two browsers, MaxDevices, MaxLogins and MaxGrants 2, MaxTime 0 | the dsid lookup returns the token just created (.llm/archive/016_plan.md:33-34): another browser's may be newer |
| `TokenStore!SweepDetachesNoLiveToken` | `tokens` | when an old session is deleted its linked refresh tokens are already expired or deleted (.llm/archive/012_plan.md:97): not the one of a rotation that commits beside the DELETE, after the old token has expired |
| `BFFSession!LogoutDeletes` | `sessions` | logging out deletes the session (.llm/archive/015_research.md:539): a refresh that is under way saves it again |
| `TokenTx!LogoutRemovesAllLogins` | `atomic` | a logout atomically deletes all tokens of user and client (.llm/archive/008_OIDC_EVALUATION.md:243): at READ COMMITTED its DELETE misses the row a concurrent rotation puts in place of the one it waits for |
| `TokenAccess!AcceptedEverywhere` | `access` | keys of several releases are accepted at the same time (.llm/archive/008_OIDC_EVALUATION.md:110): a process of the older release refuses tokens of the newer one |
| `BlobUpload!NoPhantoms` | `upload` | a committed blob has its object (server/.llm/context/architecture.md:438): CompleteUpload does not ask R2 |
| `BlobUpload!NeverReuploaded` | `upload` | a committed blob is never re-uploaded (architecture.md:274): the PUT URL outlives the commit |
| `BlobUpload!RefusedBecauseCommitted` | `upload` | "blob already committed" (blob-service domain/errors.go:7) is also the answer for a PENDING row another client has inserted |
| `Accounts!NameFollowsProvider` | `accounts`, Claims {c1, c2} | the upstream name is refreshed on every login (.llm/archive/014_plan.md:203-204): not while it is overridden |
| `Accounts!LastProviderIsRefused` | `accounts` | unlinking the last provider is answered FailedPrecondition (.llm/archive/014_plan.md:227-228): PostgreSQL refuses `SELECT COUNT(*) ... FOR UPDATE` (its rule on aggregates and row locks, taken as given), so unlinking always ends in an internal error |

`SerializedRefresh` is stated for sessions whose lock has not expired under its holder:
the lock is a key without an owner, and a refresh that outlasts its 10 s runs beside the
next one and deletes the next one's lock when it ends.

## 5. What is proved

Every theorem holds for all values of the constants that satisfy what their module assumes
about them:

* `TokenStoreAssumption`, `TokenAccessAssumption`, `BlobUploadAssumption`,
  `AuthRequestsAssumption`: lifetimes and bounds are naturals (and there is a first release, a
  first part).  A refresh token lives for at least a tick (REFRESH_TOKEN_EXPIRY_DAYS is 1 to 90,
  identity-service config/config.go:130): one that is expired when it is issued would be an end, not a refresh.
* `AccountsAssumption`: the addresses providers have verified are addresses, and the empty
  string is none.
* `BFFSessionAssumption`: naturals, a login has a first token, and the name of the absent lock
  holder is no request.
* `LifecycleAssumption`: an environment gives each process its settings, and a setting that is
  empty or no number is not a number.  It says nothing of which environments load.
* `TokenTxAssumption`: the connection pool is finite.  `WaitsEnd` needs it: infinitely many transactions
  could wait in a line that has no end.
* `RateLimiterAssumption`: rates are positive, which `LoadBoundedInt` enforces, and an entry is kept
  for longer than its bucket takes to fill (`Burst * Minute <= RPM * (TTL - MaxStall)`;
  main.go's numbers satisfy it).

Bounds appear in guards only, so a behaviour of any finite length is one of some instance.

### TokenStoreProofs

| Theorem | States |
|---|---|
| `TypeCorrect` | `Spec => []TypeOK` |
| `Invariance` | `Spec => []IInv` |
| `RefreshTokensAreSingleUse` | `Spec => []RefreshSingleUse` |
| `OnePairPerFamily` | `Spec => []OneTokenPairPerFamily` |
| `RevocationFinality` | `Spec => []RevocationIsFinal` |
| `RotationIdentity` | `Spec => []RotationKeepsIdentity` |
| `SessionOwnership` | `Spec => []SessionOwner` |
| `AccessEndsWithRevocation` | `Spec => NoAccessAfterRevocation` |
| `CleanupKeepsSessions` | `Spec => []LiveTokenKeepsSession` |
| `GrantsImplementLogins` | `Spec => ImplementsLogins`, that is `Logins!Spec` |
| `GrantsKeepPromises` | `Spec => []Served!OneToken /\ Served!EndedForEver /\ Served!SpentForEver` |

None of the properties is inductive by itself.  The invariant has three parts, each
proved over all actions, with the others as hypotheses.

* `GrantInv`.  `RefreshSingleUse` is about the history of grants, while the code decides
  by the presence of a row; the link is `RowsMatchGrants`: a row in `refresh_tokens` agrees
  with the grant that issued it, and *no grant has it as parent yet*.  A rotation needs the
  row, removes it, and records it as parent, so a second rotation finds nothing.
  `GrantIdsMinted` and `GrantKeys` (ids are fresh and are keys) make the new pair
  different from all others, and `GrantCall` ties what a request in flight has read to
  the grant it came from; a request may hold a token that is gone, but
  user and client of its grant do not change.  `RevocationIsFinal` is preserved because
  a rotation continues the family of a row that exists, whose family is not in `ended`.
* `SessionInv`.  `SessionOwner` needs that device ids are keys (`DeviceKeys`), that an
  id a callback is about to insert has been minted (`DevicesMinted`), and that a callback or an
  exchange in flight names a session of its user (`SessionCall`).  A session row never changes
  its user, and the sweep removes only sessions that no request and no auth request names.
* `SweepInv`.  A sweep deletes what it found earlier, so what it found has to stay `Forgotten`: nothing
  can bind a login or a token to a session revoked that long ago, but a rotation of a token that
  names it.  The snapshot had no such token unexpired, so the rotation commits after the expiry of
  the one it replaces, and puts its family in `late`.  `RowsMatchGrants` and `OneSessionPerFamily` turn
  that into `LiveTokenKeepsSession`: a family outside `late` has the session of its code in every
  grant, and in the row while that is unexpired.

`NoAccessAfterRevocation` follows from `IInv`, `[Next]_vars` and the definitions of the
actions.  Each part has one lemma per group of actions that share an argument
(`GrantInvShrinks` for all deletions, `GrantInvReplace` for the rotation,
`SessionInvStays`, `RevocationStays`), which the step lemmas cite.

The refinement maps the issued tokens to the history of grants and the accepted ones to the
rows that are unexpired, or that a refresh is about to replace which read them in time.  `Issuance` sorts the steps into those that issue a token and those
that only remove rows or let them expire.  `ExchangeBegins` is the exchange, whose family is its
own fresh id; `ReplaceRefreshes` the rotation, where `OneTokenPairPerFamily` makes the row that
is removed the only one of its family; almost everything else is `End` (`RemovalEnds`).  The sweep
of device sessions changes rows too (ON DELETE SET NULL), in a column no client sees
(`SweepIsUnseen`).  `PromisesKept` then proves from `Logins` alone what a client may rely
on, and the refinement gives it of the grant store.

### TokenAccessProofs

| Theorem | States |
|---|---|
| `Invariance` | `Spec => []IInv` |
| `GracefulRotation` | `Spec => []RotationIsGraceful` |
| `RelyingPartiesVerify` | `Spec => []RelyingPartiesFollow` |
| `RevocationWindow` | `Spec => []RevocationTakesEffect` |
| `ClaimsShrink` | `Spec => []ClaimsWithinGrant` |
| `AccessFollowsLogins` | `Spec => FollowsLogins`, that is `Logins!Spec` |

* `KeyInv`.  `RotationIsGraceful` speaks of running processes, but a rotation changes the
  environment the next one will read, so the invariant is about all releases *in force*, the
  deployed one and those of running processes: one that is not older than a signer has the
  signer's current key and the keys of all unexpired tokens of releases up to its own.
  A retirement keeps this because of the operator's two conditions, a rotation
  because the replaced key stays.  Two releases in force with the deployed version are equal, so
  restarting twice with the same version changes nothing.
* `LoginInv`.  Ids are fresh and are keys; a login has one refresh row, and none once it
  is revoked; its scopes are within those of every token issued before.  So a
  refresh can only narrow them, and the last token of a revoked login was signed no
  later than the revocation, which bounds its expiry.
  In `AccessFollowsLogins` they make an exchange begin a login and a refresh replace its one
  token (`ExchangeBegins`, `RotationRefreshes`).  TLC agrees when `FollowsLogins` is added to the
  PROPERTIES of run `access`.

### ServiceProofs

About `BlobUpload`:

| Theorem | States |
|---|---|
| `Invariant` | `Spec => []IInv` |
| `OneCommit` | `Spec => []CommittedOnce` |
| `AssembledBlobsAreThere` | `Spec => []AssembledHasObject` |
| `DownloadsFindCommits` | `Spec => []DownloadsAreCommitted` |
| `RowsOnlyAdvance` | `Spec => StateOnlyAdvances` |

The strengthening is `CallInv`, what a call knows between its steps: one that goes on to
commit a multipart upload has had R2 assemble the object, one that goes on to sign a download
URL has read a committed row.  Neither can be undone, since no step removes an object and no step
takes a row back; `StorageStep` says this once for all steps that touch only R2.

About `Lifecycle`, with any number of clients, any work and any environments:

| Theorem | States |
|---|---|
| `ProcessInvariance` | `LifecycleSpec => []LifecycleInv` |
| `PoolsAreExact` | `LifecycleSpec => []PoolsGetBackWhatTheyLend` |
| `DrainsLoseNothing` | `LifecycleSpec => DrainLosesNothing` |

* Neither property is inductive.  A pool's count is compared with the frames of all requests, and a
  process that ends takes frames out of the middle of stacks; `StackOK` says that a stack
  is one handler, or one of myaccount-bff below one of identity-service, and that who holds a connection
  has work to do with it.  `Stages` has the environment of a process that runs loaded and its
  position in its program within bounds.
* `HoldersExcept` counts: when a request changes and the holders of a process are those of before
  without the ones it gave up, `lent` must go down by as many as it gave up.  `AccountsKept` lifts this
  to all processes, and the step lemmas (`TransactionEnds`, `AbandonStep`, `WhatRemains`) show for each way a handler
  ends that the pool takes back just that; `BeginStep` is the one in which a pool lends.
* `OffIsSilent` and `ClosedInOrder` are about listeners: a process that is off accepts nothing
  and has no frames, and one that stops has closed its servers up to the one it waits for, with those before
  it empty.  When the last has drained, none has a request, and the end of the process leaves all
  stacks as they are (`LastDrained`).
* `Proceeds` is what all steps of requests but one have in common, the ends of processes included:
  a frame was there before, with no fewer connections, or is new in a server that is open.  Then no
  server that is closed and empty gets a frame (`VacantStays`), and the sets of holders only shrink
  (`HoldersShrink`).  `TopChanges` gives it for the handler on top, `WhatRemains` for a
  process that ends.  The exception is `Begin` (`BeginStep`).

### AuthRequestsProofs

| Theorem | States |
|---|---|
| `Invariance` | `Spec => []IInv` |
| `TokensFollowTheLogin` | `Spec => []IssuedForItsLogin` |
| `CodesAreSpent` | `Spec => []AnsweredCodeIsSpent` |
| `SweepsRemoveTheExpired` | `Spec => CleanupSparesLive` |

`IssuedForItsLogin` compares the tokens with the logins that came in time, while the exchange
works with a row it read earlier.  `RowsKnowTheirLogin` says that the user and device
session in a completed row are those of such a login *or the row has expired*: the callback's
UPDATE does not look at the age, but the read by code does.  `CallsKnowTheirRow` carries this across
the steps of an exchange; `LoginsKnowTheirState` says of every completed login that a state for
its request existed, encrypted with the key and for a provider of the process that completed it (`SentBy`):
states are never lost, and `CallbackStep` is where one is decrypted; `MintedIds` makes an answered request's id one no later request
gets; `CutoffIsPast` is all that `SweepsRemoveTheExpired` needs, for a cutoff of any age.

### AccountsProofs

| Theorem | States |
|---|---|
| `Invariance` | `Spec => []IInv` |
| `AccountsAreSeparate` | `Spec => []OneAccountPerSubject` |
| `AccountsAreReachable` | `Spec => []EveryUserCanSignIn` |
| `ChoicesLast` | `Spec => []LocalEditsWin` |
| `VerifiedIsTrue` | `Spec => []VerifiedMeansVerified` |
| `RepairsBySignIn` | `Spec => SignInRepairs` |

`AccountKeys` has identities and users one to one: the transaction of a first sign-in inserts both,
the unique key on (provider, subject) rolls the loser of a race back, and nothing deletes either.
`SignInsAreLinked` keeps the user a sign-in has looked up its subject's until the last UPDATE.
`LocalIsChosen` relates the overrides to what the user chose, `ClaimsAreTrue` a sign-in's claims
to what the provider verified; `FetchedClaims` has that of what the adapters return, from the test of
`Verified` in `PrimaryEmail` for any list GitHub may send.  `SignInRepairs` is about two UPDATEs of which the second is
the step: `WrittenStands` says that the first still stands if the sign-in is alone, and `AloneIsAlone`
that it then has no companion.

### BFFSessionProofs

| Theorem | States |
|---|---|
| `Invariance` | `Spec => []IInv` |
| `TokensStayCurrent` | `Spec => []StoredTokenIsCurrent` |
| `AgeIsLimited` | `Spec => []HardMaximum` |
| `StatesWorkOnce` | `Spec => []StateSingleUse` |
| `RefreshesAreSerial` | `Spec => []SerializedRefresh` |
| `LogoutsAreFinal` | `Spec => []LogoutIsFinal` |
| `SavesAreNewest` | `Spec => NewestIsSaved` |

* `StoredTokenIsCurrent` survives the loss of the lock, so the lock is not in its proof.  What
  carries it is `SavedOnce`: a token that is about to be saved is held by nobody else and not
  stored, and it is the one identity-service accepts or the login is revoked.  `StoredOnce`
  is the same for a new login, `SessionsKnowTheirLogin` binds what Redis and the requests hold
  to the login of the session id.
* `LockHolders` is the opposite: while no refresh has outlasted its lock, whoever refreshes is the
  holder, and that is `SerializedRefresh`.
* `StatesAreSpent` puts an OIDC state in one place at a time: Redis, one callback, or one login.
* `DeadStaysDead` is the part of a logout that later steps rely on: no request is on its way to
  writing back a session that was logged out, but those that were already about to refresh it
  (`under`).  `LoadedInTime` remembers that the hard maximum was checked when the session was loaded.
* `NewestHeld` is what `SavesAreNewest` needs: a token that is about to be saved is the last one issued.
  A refresh is accepted only for the token that is, and puts its successor into the hands of the one
  request that presented it, so until that is saved no other refresh of the session can succeed, whoever has
  the lock.  `OthersKeepOrDrop` says that all other steps leave what Redis holds or delete it.

### TokenTxProofs

| Theorem | States |
|---|---|
| `Invariance` | `Spec => []IInv` |
| `TransactionsAreAtomic` | `Spec => ImplementsAtomic`, that is `TokenTxAtomic!Spec` |
| `WaitsEnd` | `Spec => []NobodyWaitsForEver` |

* `Consistent(p)` says of each open transaction what its snapshot and its locks are worth now: a
  rotation that deleted the row it read has it locked, and the row is committed as it was read
  (`GrantConsistent`); what is deleted is locked and was committed (`DeleteConsistent`); a
  revocation holds the device session's lock, so no commit can add a row it has not found
  (`RevokeConsistent`); what a logout has missed was issued after it began (`LogoutConsistent`).
  `LocksAreExclusive` and `IdsAreFresh` keep other transactions away from these rows.
* `StatementStep` is the invariant's proof for all statements, which take a lock at most and leave the
  committed tables alone; `CommitKeeps` and `CommitStep` say what a commit may do to the
  transactions beside it.
* In the refinement a statement is a stutter, a rollback forgets a logout's beginning, and a commit
  is the action of the abstract specification with the same effect (`CommitGrantIsAtomic`, `CommitRevokeIsAtomic`,
  `CommitLogoutIsAtomic`).
* `WaitsEnd` takes those who wait: each waits for a transaction that runs (`HoldersRun`: a lock does not
  outlive its holder), and if none of these can go on, each waits for one of their own.  A
  least nonempty set of that kind, which exists as there are finitely many, is a
  deadlock (`WaitingInCircles`).

### RateLimiterProofs

| Theorem | States |
|---|---|
| `Invariance` | `Spec => []IInv` |
| `MapOfBuckets` | `Spec => ImplementsBuckets`, that is `RateLimits!Spec` |
| `RefusalsAreEarned` | `Spec => NoUnearnedRefusal` |
| `TinyRatePassesNobody` | `Spec => []EmptyBurstPassesNobody` |

* The mapping takes a client without an entry to a full bucket.  `LookupKeepsLevels` and
  `CleanupKeepsLevels` show that making and evicting entries are stutters there: an entry
  that goes has not been used for so long that it is full, by `BucketsAreSound` (it was used at most
  `MaxStall` after it was last seen) and `RateLimiterAssumption`.  `HeldBucketsStay` says that the
  entry a request has looked up is in the map when it calls `Allow()`.  `PassTakesToken` and
  `TickFillsLevels` are the remaining two steps.
* `PassesAreKnown` relates a bucket to the history of passes, so that an empty one means a
  recent pass; that is `RefusalsAreEarned`, of every limiter with a burst.  A global rate of 1 to 3
  gives a burst of 0 (section 4), and `TinyRatePassesNobody` says what it amounts to: no request ever passes.

## 6. What is only model-checked

* Liveness: `RequestsAreRemoved`, `HTTPShutdownEnds`, `EveryRequestEnds`, `EveryProcessServes`.
  TLAPS cannot treat ENABLED, and so fairness.  All other properties of the passing runs are
  theorems.
* What the documents say and the code refutes (section 4): a counterexample is enough.

## 7. What is taken as given

PostgreSQL's READ COMMITTED semantics, unique and foreign key constraints, row locks and
deadlock detection; the atomicity of one Redis command or script; R2's
assembling of an open upload whose listed parts exist; the call order of zitadel/oidc; signatures and AES-GCM (what was signed
or encrypted with a key is accepted with that key only); the key cache of
coreos/go-oidc; an operator who retires a signing key only when it is no longer needed
(`RetireKey`); a supervisor that restarts processes.
These are the external definitions of the map.

## 8. What is not modelled

* `authn/devicename.go`, `authn/ip.go`: parse strings into columns no behaviour depends on.
* Clients, scopes (`client_svc.go`, `client_repo.go`, `adapter/client.go`): read-only tables and pure
  lookups.
* `middleware/csrf.go` of the BFF compares two headers of one request, without state.
* zitadel/oidc and the wiring of it (`adapter/provider.go`): the library is not in the repository.
* In the files that are modelled: logging, metrics, the layout of pages and answers, health
  checks, and `GetBlobInfo` and the other reads whose answer nothing else uses.
* `src/web` (presentation), `src/server/gen` and `src/api` (generated code and its input).

## 9. Plan

Done: `TokenStore` and `TokenAccess` over `Logins`, `TokenTx` over
`TokenTxAtomic`, `BFFSession`, `BlobUpload`, `Accounts`, `AuthRequests`, `RateLimiter` over `RateLimits`, and
`Lifecycle`, each with its proofs.

Left:

1. `AuthRequests` over what it takes from the grant store (section 1), as
   `TokenAccess` is over `Logins`.
2. Liveness of the grant store's cleanup loops, should anything come to depend on it.

## 10. Running it

    tlc -workers 2 -config MCTokenStore_tokens.cfg MCTokenStore
    tlapm TokenStoreProofs.tla

The other configurations are named after their module and run (`MCTokenTx_atomic.cfg` is
run `atomic` of `MCTokenTx`), the other proofs are in `TokenAccessProofs`, `TokenTxProofs`,
`AuthRequestsProofs`, `AccountsProofs`, `BFFSessionProofs`, `ServiceProofs` (about `BlobUpload` and `Lifecycle`) and
`RateLimiterProofs`.
