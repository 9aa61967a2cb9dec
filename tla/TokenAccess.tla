---------------------------- MODULE TokenAccess ----------------------------
(***************************************************************************)
(* The use of access tokens while signing keys are rotated: the processes  *)
(* of identity-service, which sign tokens and verify them at the account   *)
(* API, at userinfo and at introspection, and the relying parties          *)
(* (blob-service, myaccount-bff), which verify with keys they have fetched.*)
(*                                                                         *)
(* A process reads its keys from the environment once, when it starts;     *)
(* rotating keys is a release with another environment and a restart, and  *)
(* during a rolling restart processes of two releases run side by side.    *)
(* A token carries the id of its key and its expiry, and has a row in      *)
(* `tokens` that userinfo and introspection read and nobody else does.     *)
(***************************************************************************)
EXTENDS Naturals

CONSTANTS
    Servers,         \* processes of identity-service
    RelyingParties,  \* processes that verify tokens with fetched keys
    Keys,            \* RSA keys (a key's id is the hash of its public half)
    Scopes,          \* "profile", "email"; "openid" is in every request
    Lifetime,        \* ACCESS_TOKEN_LIFETIME_MINUTES
    MaxReleases,     \* bound: environments ever deployed
    MaxTokens,       \* bound: access tokens ever issued
    MaxTime          \* bound: ticks of the clock

ASSUME TokenAccessAssumption ==
    /\ {Lifetime, MaxTokens, MaxTime} \subseteq Nat
    /\ MaxReleases \in Nat \ {0}
    /\ Scopes \subseteq {"profile", "email"}

VARIABLES
    now,
    release,   \* the environment a process started now would read
    server,    \* server[s]: the environment s has read, or Down
    cache,     \* cache[r]: the keys r has fetched last
    issued,    \* the access tokens handed out: they exist for ever
    rows,      \* table tokens
    refresh,   \* table refresh_tokens
    nextId,    \* the next ULID
    revoked    \* history: revoked[f] is when login f was revoked, or Never

tables == <<rows, refresh>>
vars == <<now, release, server, cache, issued, tables, nextId, revoked>>

Down == [down |-> TRUE]
Null == 0
Never == MaxTime + 1
Ids == 1..MaxTokens

\* SIGNING_KEY_PEM, SIGNING_KEY_PREVIOUS_PEM; the version is history.
Release == [version : 1..MaxReleases, current : Keys, previous : SUBSET Keys]

\* The claims of an access token; the version of its signer and the login it
\* descends from (the id of the login's first token) are history.
Token == [id : Ids, kid : Keys, expiry : Nat, scopes : SUBSET Scopes,
          version : 1..MaxReleases, family : Ids]
Row == [id : Ids, expiration : Nat, scopes : SUBSET Scopes]
RefreshRow == [id : Ids, scopes : SUBSET Scopes, family : Ids]

\* (A row agrees with the token it was returned for.)
TypeOK ==
    /\ now \in 0..MaxTime
    /\ release \in Release
    /\ server \in [Servers -> Release \cup {Down}]
    /\ cache \in [RelyingParties -> SUBSET Keys]
    /\ issued \subseteq Token
    /\ rows \subseteq Row
    /\ \A x \in rows : \E t \in issued :
          t.id = x.id /\ t.expiry = x.expiration /\ t.scopes = x.scopes
    /\ refresh \subseteq RefreshRow
    /\ nextId \in 1..MaxTokens + 1
    /\ revoked \in [Ids -> 0..Never]

Init ==
    /\ now = 0
    /\ \E k \in Keys : release = [version |-> 1, current |-> k, previous |-> {}]
    /\ server = [s \in Servers |-> Down]
    /\ cache = [r \in RelyingParties |-> {}]
    /\ issued = {} /\ rows = {} /\ refresh = {}
    /\ nextId = 1
    /\ revoked = [f \in Ids |-> Never]

Running == {s \in Servers : server[s] # Down}

-----------------------------------------------------------------------------
(***************************************************************************)
(* Keys.                                                                   *)
(***************************************************************************)

\* A key set that forgets the previous keys.
CurrentOnly(e) == {e.current}

\* PublicKeySet.All: what a process verifies with and serves to relying parties.
PublicKeySet(e) == {e.current} \cup e.previous

\* A process starts with the keys of the environment and keeps them.
Start(s) ==
    /\ server[s] = Down
    /\ server' = [server EXCEPT ![s] = release]
    /\ UNCHANGED <<now, release, cache, issued, tables, nextId, revoked>>

Stop(s) ==
    /\ server[s] # Down
    /\ server' = [server EXCEPT ![s] = Down]
    /\ UNCHANGED <<now, release, cache, issued, tables, nextId, revoked>>

Deploy(k, previous) ==
    /\ release.version < MaxReleases
    /\ release' = [version |-> release.version + 1, current |-> k, previous |-> previous]
    /\ UNCHANGED <<now, server, cache, issued, tables, nextId, revoked>>

\* The operator makes k the signing key and the one it replaces a previous key.
RotateKey(k) ==
    /\ k # release.current
    /\ Deploy(k, (release.previous \cup {release.current}) \ {k})

\* ... and removes a previous key when no process signs with it any more and
\* the tokens it has signed have expired.
RetireKey(k) ==
    /\ k \in release.previous
    /\ \A s \in Running : server[s].current # k
    /\ \A t \in issued : t.kid = k => now > t.expiry
    /\ Deploy(release.current, release.previous \ {k})

-----------------------------------------------------------------------------
(***************************************************************************)
(* Issuing tokens.  Each is one transaction of TokenStore, here with the   *)
(* scopes and the signature.                                               *)
(***************************************************************************)

\* The JWT: SigningKey, and the id and expiration the storage has returned.
Signed(s, scopes, family) ==
    [id |-> nextId, kid |-> server[s].current, expiry |-> now + Lifetime,
     scopes |-> scopes, version |-> server[s].version, family |-> family]

\* CreateAccessAndRefreshTokens in place of the rows with id old.
Issue(s, scopes, kept, old, family) ==
    /\ s \in Running
    /\ nextId <= MaxTokens
    /\ nextId' = nextId + 1
    /\ issued' = issued \cup {Signed(s, scopes, family)}
    /\ rows' = {x \in rows : x.id # old} \cup
          {[id |-> nextId, expiration |-> now + Lifetime, scopes |-> scopes]}
    /\ refresh' = {x \in refresh : x.id # old} \cup
          {[id |-> nextId, scopes |-> kept, family |-> family]}
    /\ UNCHANGED <<now, release, server, cache, revoked>>

Exchange(s, scopes) == Issue(s, scopes, scopes, Null, nextId)

\* A refresh whose refresh token keeps the scopes of the old one.
RefreshWide(s, r, asked) == asked \subseteq r.scopes /\ Issue(s, asked, r.scopes, r.id, r.family)

\* A refresh may ask for fewer scopes (SetCurrentScopes): both new rows get them.
Refresh(s, r, asked) == asked \subseteq r.scopes /\ Issue(s, asked, asked, r.id, r.family)

\* A revocation that leaves the refresh tokens for the sweep.
MarkRevoked(f) ==
    /\ \E r \in refresh : r.family = f
    /\ revoked' = [revoked EXCEPT ![f] = now]
    /\ UNCHANGED <<now, release, server, cache, issued, tables, nextId>>

\* RevokeByID: the refresh tokens of the login's device session go, the access
\* token stays.
RevokeLogin(f) ==
    /\ \E r \in refresh : r.family = f
    /\ refresh' = {r \in refresh : r.family # f}
    /\ revoked' = [revoked EXCEPT ![f] = now]
    /\ UNCHANGED <<now, release, server, cache, issued, rows, nextId>>

\* RevokeToken for an access token.
RevokeAccessToken(x) ==
    /\ rows' = rows \ {x}
    /\ UNCHANGED <<now, release, server, cache, issued, refresh, nextId, revoked>>

\* DeleteExpired.
SweepTokens ==
    /\ \E x \in rows : x.expiration < now
    /\ rows' = {x \in rows : ~(x.expiration < now)}
    /\ UNCHANGED <<now, release, server, cache, issued, refresh, nextId, revoked>>

-----------------------------------------------------------------------------
(***************************************************************************)
(* Using tokens.                                                           *)
(***************************************************************************)

\* verifyJWT: the key with the token's id, if the process has it.
VerifyJWT(s, t) == t.kid \in PublicKeySet(server[s])

\* The interceptor of the account API.  Issuer and subject are the same in all tokens.
AccountsAccept(s, t) == VerifyJWT(s, t) /\ ~(now > t.expiry)

\* GetByID: the token's row, unless it has expired or is gone.
LiveRow(t) == {x \in rows : x.id = t.id /\ x.expiration > now}

\* Introspection: the library verifies the JWT with the process's own keys
\* (it refuses it from the second of its expiry on), then the row decides.
Active(s, t) == VerifyJWT(s, t) /\ now < t.expiry /\ LiveRow(t) # {}

\* setUserinfo: the claims of the scopes in the row.
ClaimsOf(scopes) ==
    {"sub"} \cup (IF "profile" \in scopes THEN {"name", "picture", "updated_at"} ELSE {})
            \cup (IF "email" \in scopes THEN {"email", "email_verified"} ELSE {})

\* SetUserinfoFromToken.
Userinfo(s, t) ==
    IF Active(s, t) THEN UNION {ClaimsOf(x.scopes) : x \in LiveRow(t)} ELSE {}

\* A verifier that keeps the keys it has fetched when it started.
KeysOnceFetched(r, s, t) ==
    IF cache[r] # {} THEN cache[r] ELSE PublicKeySet(server[s])

\* A relying party verifies t; if it has no key of that id it first fetches the
\* keys of process s (the verifier of coreos/go-oidc).
KeysAfterVerify(r, s, t) ==
    IF t.kid \in cache[r] THEN cache[r] ELSE PublicKeySet(server[s])

\* Verify: an expired token is refused before its key is looked for.
Verify(r, s, t) ==
    /\ s \in Running
    /\ now <= t.expiry
    /\ cache' = [cache EXCEPT ![r] = KeysAfterVerify(r, s, t)]
    /\ UNCHANGED <<now, release, server, issued, tables, nextId, revoked>>

Tick ==
    /\ now < MaxTime
    /\ now' = now + 1
    /\ UNCHANGED <<release, server, cache, issued, tables, nextId, revoked>>

-----------------------------------------------------------------------------
Operator ==
    \/ \E s \in Servers : Start(s) \/ Stop(s)
    \/ \E k \in Keys : RotateKey(k) \/ RetireKey(k)

Grants ==
    \/ \E s \in Servers, scopes \in SUBSET Scopes : Exchange(s, scopes)
    \/ \E s \in Servers, r \in refresh, asked \in SUBSET Scopes : Refresh(s, r, asked)
    \/ \E f \in Ids : RevokeLogin(f)
    \/ \E x \in rows : RevokeAccessToken(x)
    \/ SweepTokens

Use == \E r \in RelyingParties, s \in Servers, t \in issued : Verify(r, s, t)

Next == Operator \/ Grants \/ Use \/ Tick

Spec == Init /\ [][Next]_vars

-----------------------------------------------------------------------------
(***************************************************************************)
(* Properties.                                                             *)
(***************************************************************************)

\* Every process accepts the unexpired tokens of all processes whose release is
\* not newer than its own, through any number of rotations: previous keys are
\* verified with (PublicKeySet.All), and the keys of one release never exclude a
\* key that an older process still signs with.
RotationIsGraceful ==
    \A s \in Running, t \in issued :
        server[s].version >= t.version /\ now <= t.expiry => AccountsAccept(s, t)

\* A relying party that meets a token of a process not newer than the one that
\* would answer its fetch verifies it, whatever it has cached, keys fetched earlier
\* from a process of an older release included: an unknown key makes it fetch, and
\* fetching never loses a key that is needed.  Left out is the fetch that is itself
\* answered by a process older than the signer (AcceptedEverywhere).
RelyingPartiesFollow ==
    \A r \in RelyingParties, s \in Running, t \in issued :
        server[s].version >= t.version /\ now <= t.expiry
            => t.kid \in KeysAfterVerify(r, s, t)

\* Revoking a login takes effect within one lifetime of an access token: later
\* no token of it opens the account API, userinfo or introspection, although
\* neither asks whether the login was revoked.
RevocationTakesEffect ==
    \A s \in Running, t \in issued :
        now > revoked[t.family] + Lifetime => ~AccountsAccept(s, t) /\ ~Active(s, t)

\* Userinfo tells a client no claims beyond the scopes of the login and of every
\* refresh since, and scopes given up in a refresh cannot be had back in a later one.
ClaimsWithinGrant ==
    \A t \in issued :
        /\ \A s \in Running, u \in issued :
              u.family = t.family /\ t.id <= u.id => Userinfo(s, u) \subseteq ClaimsOf(t.scopes)
        /\ \A r \in refresh :
              r.family = t.family => ClaimsOf(r.scopes) \subseteq ClaimsOf(t.scopes)

\* Of the grant store this module has no more than Logins, which TokenStore
\* implements: a login is known by its first token, and its refresh tokens by the
\* ids of the grants.
Served == INSTANCE Logins WITH
    Ids      <- Ids,
    Tokens   <- Ids,
    issued   <- {<<t.family, t.id>> : t \in issued},
    accepted <- {<<r.family, r.id>> : r \in refresh}

FollowsLogins == Served!Spec

-----------------------------------------------------------------------------
(***************************************************************************)
(* The invariant the proofs use (TokenAccessProofs).                       *)
(***************************************************************************)

\* The environments that are in force or will be at the next start.
InForce == {release} \cup {server[s] : s \in Running}

\* Nobody runs ahead of the environment, whose version stands for its content;
\* whoever has not an older environment than a signer has the signer's key, and
\* that of the unexpired tokens of its release and the earlier ones.
KeyInv ==
    /\ \A e \in InForce :
          /\ e.version <= release.version
          /\ e.version = release.version => e = release
    /\ \A s \in Running, e \in InForce :
          e.version >= server[s].version => server[s].current \in PublicKeySet(e)
    /\ \A t \in issued :
          /\ t.version <= release.version
          /\ \A e \in InForce :
                e.version >= t.version /\ now <= t.expiry => t.kid \in PublicKeySet(e)

\* Ids are fresh and are keys; a revoked login has no refresh token, another one
\* at most one, and its tokens were issued before; scopes shrink along a login.
LoginInv ==
    /\ \A t \in issued :
          /\ t.id < nextId /\ t.family <= t.id
          /\ t.expiry <= now + Lifetime
          /\ t.expiry <= revoked[t.family] + Lifetime
          /\ \A u \in issued :
                /\ t.id = u.id => t = u
                /\ t.family = u.family /\ t.id <= u.id => u.scopes \subseteq t.scopes
    /\ \A r \in refresh :
          /\ r.id < nextId /\ r.family <= r.id
          /\ revoked[r.family] = Never
          /\ \A q \in refresh : q.family = r.family \/ q.id = r.id => q = r
          /\ \A t \in issued : t.family = r.family => r.scopes \subseteq t.scopes
    /\ \A f \in Ids : revoked[f] # Never => f < nextId

IInv == TypeOK /\ KeyInv /\ LoginInv

-----------------------------------------------------------------------------
\* Keys of several releases are accepted at the same time, "enabling graceful key
\* rotation" (.llm/archive/008_OIDC_EVALUATION.md:110): not by a process that
\* runs on with the old environment when another one signs with the new key.
AcceptedEverywhere ==
    \A s \in Running, t \in issued : now <= t.expiry => AccountsAccept(s, t)
=============================================================================
