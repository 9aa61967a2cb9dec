----------------------------- MODULE TokenStore -----------------------------
(***************************************************************************)
(* The grant store of identity-service: device sessions, completed         *)
(* logins, access tokens and refresh tokens, as the HTTP handlers of the   *)
(* OIDC provider, the gRPC session API and the cleanup loops read and      *)
(* write them.                                                             *)
(*                                                                         *)
(* The three tables and the completed rows of auth_requests are sets of    *)
(* records.  A step is one SQL statement or one transaction; a request     *)
(* that makes several of them is in flight in call[p] between two steps,   *)
(* holding the values it has read, so everything another request does in   *)
(* between is interleaved.  ULIDs are counters: ids are unique and grow    *)
(* with creation time.  Null is SQL NULL (and Go's "" for an id).          *)
(***************************************************************************)
EXTENDS Naturals

CONSTANTS
    Users,       \* accounts (users.id)
    Clients,     \* relying parties (clients.id)
    Browsers,    \* user agents: each has one device cookie
    Procs,       \* request slots: how many handlers run concurrently
    AccessTTL,   \* access token lifetime, in ticks
    RefreshTTL,  \* refresh token lifetime, in ticks
    MaxDevices,  \* bound: device session ids minted
    MaxLogins,   \* bound: logins completed
    MaxGrants,   \* bound: token grants issued
    MaxTime      \* bound: ticks of the clock

ASSUME TokenStoreAssumption ==
    /\ AccessTTL \in Nat
    /\ RefreshTTL \in Nat \ {0}
    /\ MaxDevices \in Nat
    /\ MaxLogins \in Nat
    /\ MaxGrants \in Nat
    /\ MaxTime \in Nat

VARIABLES
    now,             \* the clock Go and Postgres share
    cookie,          \* cookie[b]: the device id browser b presents, or Null
    deviceSessions,  \* table device_sessions
    authRequests,    \* rows of auth_requests that are done and have a code
    tokens,          \* table tokens (access tokens)
    refreshTokens,   \* table refresh_tokens
    call,            \* call[p]: the request in slot p, at its next statement
    nextDevice, nextLogin, nextGrant,  \* the next ULID of each kind
    grants,          \* history: every refresh token ever issued
    ended,           \* history: token families ended by a revocation
    late             \* history: families rotated after the token had expired

tables  == <<deviceSessions, authRequests, tokens, refreshTokens>>
ids     == <<nextDevice, nextLogin, nextGrant>>
history == <<grants, ended, late>>
vars    == <<now, cookie, tables, call, ids, history>>

Null == 0
Idle == [at |-> "idle"]

(***************************************************************************)
(* Rows.  "family" is history: the id of the grant an exchange created,    *)
(* inherited by every rotation of it.                                      *)
(***************************************************************************)
DeviceSession == [id : Nat, user : Users, revoked : BOOLEAN]
AuthRequest   == [id : Nat, user : Users, client : Clients, ds : Nat]
Token         == [id : Nat, user : Users \cup {Null}, client : Clients,
                  expiration : Nat, refresh : Nat, family : Nat]
RefreshToken  == [id : Nat, user : Users, client : Clients, access : Nat,
                  expiration : Nat, ds : Nat, family : Nat]
Grant         == [id : Nat, parent : Nat, auth : Nat,
                  user : Users, client : Clients, ds : Nat, family : Nat]

\* Requests in flight: a federated login callback, a call of the token
\* endpoint (code exchange or refresh), RevokeAllOtherSessions, the token
\* cleanup loop between its two statements, the cleanup of device sessions
\* between the snapshot of its DELETE and what it deletes.
LoginSteps == {"touch", "create", "complete"}
TokenSteps == {"exchange", "rotate", "claims", "respond"}
LoginCall  == [at : LoginSteps, browser : Browsers, user : Users,
               client : Clients, dsID : Nat, ds : Nat]
TokenCall  == [at : TokenSteps, user : Users, client : Clients, ds : Nat,
               auth : Nat, token : Nat, grant : Nat, dsid : Nat]
RevokeCall == [at : {"revokeAll"}, user : Users, todo : SUBSET Nat]
SweepCall  == [at : {"sweepRefresh"}, before : Nat]
DropCall   == [at : {"dropSessions"}, found : SUBSET Nat]
Call       == {Idle} \cup LoginCall \cup TokenCall \cup RevokeCall
                \cup SweepCall \cup DropCall

TypeOK ==
    /\ now \in Nat
    /\ cookie \in [Browsers -> Nat]
    /\ deviceSessions \subseteq DeviceSession
    /\ authRequests \subseteq AuthRequest
    /\ tokens \subseteq Token
    /\ refreshTokens \subseteq RefreshToken
    /\ call \in [Procs -> Call]
    /\ nextDevice \in Nat \ {0}
    /\ nextLogin \in Nat \ {0}
    /\ nextGrant \in Nat \ {0}
    /\ grants \subseteq Grant
    /\ ended \subseteq Nat
    /\ late \subseteq Nat

Init ==
    /\ now = 0
    /\ cookie = [b \in Browsers |-> Null]
    /\ deviceSessions = {}
    /\ authRequests = {}
    /\ tokens = {}
    /\ refreshTokens = {}
    /\ call = [p \in Procs |-> Idle]
    /\ nextDevice = 1
    /\ nextLogin = 1
    /\ nextGrant = 1
    /\ grants = {}
    /\ ended = {}
    /\ late = {}

Unexpired(r) == r.expiration > now
DeviceExists(id) == \E d \in deviceSessions : d.id = id
OwnedBy(id, u) == \E d \in deviceSessions : d.id = id /\ d.user = u
Families(rows) == {r.family : r \in rows}

-----------------------------------------------------------------------------
(***************************************************************************)
(* The federated login callback.                                           *)
(***************************************************************************)

\* SelectProvider gives a browser without a device cookie a fresh id.
SelectProvider(b) ==
    /\ cookie[b] = Null
    /\ nextDevice <= MaxDevices
    /\ cookie' = [cookie EXCEPT ![b] = nextDevice]
    /\ nextDevice' = nextDevice + 1
    /\ UNCHANGED <<now, tables, call, nextLogin, nextGrant, history>>

\* A row that another user owns is reused as well.
ReusableByAnyone(id, u) ==
    \E d \in deviceSessions : d.id = id /\ ~d.revoked

\* The session row the cookie names may be used again by the same user.
Reusable(id, u) ==
    \E d \in deviceSessions : d.id = id /\ d.user = u /\ ~d.revoked

\* FederatedCallback up to the SELECT of DeviceSessionRepository.FindOrCreate:
\* an unknown id is created as presented, a reusable one is touched, one that
\* is revoked or owned by another user is replaced by a fresh id.
FindOrCreate(p, b, u, c) ==
    LET dsID == IF cookie[b] = Null THEN nextDevice ELSE cookie[b]
        ds   == IF DeviceExists(dsID) /\ ~Reusable(dsID, u)
                THEN nextDevice ELSE dsID
    IN /\ call[p] = Idle
       /\ nextLogin <= MaxLogins
       /\ ds <= MaxDevices
       /\ nextDevice' = IF ds = nextDevice THEN nextDevice + 1 ELSE nextDevice
       /\ call' = [call EXCEPT ![p] =
              [at |-> IF Reusable(dsID, u) THEN "touch" ELSE "create",
               browser |-> b, user |-> u, client |-> c, dsID |-> dsID, ds |-> ds]]
       /\ UNCHANGED <<now, cookie, tables, nextLogin, nextGrant, history>>

\* The UPDATE of an existing session sets last_used_at and the agent only.
TouchDevice(p) ==
    /\ call[p].at = "touch"
    /\ call' = [call EXCEPT ![p].at = "complete"]
    /\ UNCHANGED <<now, cookie, tables, ids, history>>

\* The INSERT fails on a duplicate id: another callback of the same browser
\* created it first.
CreateDevice(p) ==
    /\ call[p].at = "create"
    /\ IF DeviceExists(call[p].ds)
       THEN /\ call' = [call EXCEPT ![p] = Idle]
            /\ UNCHANGED deviceSessions
       ELSE /\ call' = [call EXCEPT ![p].at = "complete"]
            /\ deviceSessions' = deviceSessions \cup
                 {[id |-> call[p].ds, user |-> call[p].user, revoked |-> FALSE]}
    /\ UNCHANGED <<now, cookie, authRequests, tokens, refreshTokens, ids, history>>

\* CompleteLogin binds user and device session to the auth request, which is
\* then handed a code; the response carries the new device cookie.
CompleteLogin(p) ==
    LET q == call[p] IN
    /\ q.at = "complete"
    /\ nextLogin <= MaxLogins
    /\ DeviceExists(q.ds)
    /\ authRequests' = authRequests \cup
         {[id |-> nextLogin, user |-> q.user, client |-> q.client, ds |-> q.ds]}
    /\ nextLogin' = nextLogin + 1
    /\ cookie' = IF q.ds # q.dsID THEN [cookie EXCEPT ![q.browser] = q.ds]
                                  ELSE cookie
    /\ call' = [call EXCEPT ![p] = Idle]
    /\ UNCHANGED <<now, deviceSessions, tokens, refreshTokens,
                   nextDevice, nextGrant, history>>

\* An auth request older than its TTL is no longer returned, and is deleted
\* by the cleanup loop.
ExpireAuthRequest(a) ==
    /\ authRequests' = authRequests \ {a}
    /\ UNCHANGED <<now, cookie, deviceSessions, tokens, refreshTokens, call,
                   ids, history>>

-----------------------------------------------------------------------------
(***************************************************************************)
(* The token endpoint.  Exchange: read the auth request by code, create    *)
(* the tokens, look up the dsid claim, delete the auth request.  Refresh:  *)
(* read the refresh token, rotate it, look up the claim.                   *)
(***************************************************************************)
AuthRequestByCode(p, a) ==
    /\ call[p] = Idle
    /\ call' = [call EXCEPT ![p] =
          [at |-> "exchange", user |-> a.user, client |-> a.client, ds |-> a.ds,
           auth |-> a.id, token |-> Null, grant |-> Null, dsid |-> Null]]
    /\ UNCHANGED <<now, cookie, tables, ids, history>>

TokenRequestByRefreshToken(p, r) ==
    /\ call[p] = Idle
    /\ Unexpired(r)
    /\ call' = [call EXCEPT ![p] =
          [at |-> "rotate", user |-> r.user, client |-> r.client, ds |-> Null,
           auth |-> Null, token |-> r.id, grant |-> Null, dsid |-> Null]]
    /\ UNCHANGED <<now, cookie, tables, ids, history>>

\* The pair of rows a grant inserts for request q, bound to session ds.
NewAccess(q, refresh, family) ==
    [id |-> nextGrant, user |-> q.user, client |-> q.client,
     expiration |-> now + AccessTTL, refresh |-> refresh, family |-> family]

NewRefresh(q, ds, family) ==
    [id |-> nextGrant, user |-> q.user, client |-> q.client, access |-> nextGrant,
     expiration |-> now + RefreshTTL, ds |-> ds, family |-> family]

NewGrant(q, ds, family) ==
    [id |-> nextGrant, parent |-> q.token, auth |-> q.auth, user |-> q.user,
     client |-> q.client, ds |-> ds, family |-> family]

\* CreateAccessAndRefresh, no current refresh token.  The foreign key refuses
\* a device session that does not exist.
ExchangeCode(p) ==
    LET q == call[p] IN
    /\ q.at = "exchange"
    /\ nextGrant <= MaxGrants
    /\ DeviceExists(q.ds)
    /\ tokens' = tokens \cup {NewAccess(q, nextGrant, nextGrant)}
    /\ refreshTokens' = refreshTokens \cup {NewRefresh(q, q.ds, nextGrant)}
    /\ grants' = grants \cup {NewGrant(q, q.ds, nextGrant)}
    /\ nextGrant' = nextGrant + 1
    /\ call' = [call EXCEPT ![p] = [q EXCEPT !.at = "claims", !.grant = nextGrant]]
    /\ UNCHANGED <<now, cookie, deviceSessions, authRequests, nextDevice,
                   nextLogin, ended, late>>

\* CreateAccess: no offline_access scope, no refresh token.
ExchangeCodeAccessOnly(p) ==
    LET q == call[p] IN
    /\ q.at = "exchange"
    /\ nextGrant <= MaxGrants
    /\ tokens' = tokens \cup {NewAccess(q, Null, nextGrant)}
    /\ nextGrant' = nextGrant + 1
    /\ call' = [call EXCEPT ![p].at = "claims"]
    /\ UNCHANGED <<now, cookie, deviceSessions, authRequests, refreshTokens,
                   nextDevice, nextLogin, history>>

\* The client_credentials grant: an access token whose subject is the client, no
\* user's.
ClientCredentials(c) ==
    /\ nextGrant <= MaxGrants
    /\ tokens' = tokens \cup {NewAccess([user |-> Null, client |-> c], Null, nextGrant)}
    /\ nextGrant' = nextGrant + 1
    /\ UNCHANGED <<now, cookie, deviceSessions, authRequests, refreshTokens, call,
                   nextDevice, nextLogin, history>>

\* What the rotation transaction writes when it replaces row r.
Replace(p, r, oldAccess, ds) ==
    LET q == call[p] IN
    /\ nextGrant <= MaxGrants
    /\ tokens' = {t \in tokens : t.id # oldAccess}
                   \cup {NewAccess(q, nextGrant, r.family)}
    /\ refreshTokens' = (refreshTokens \ {r}) \cup {NewRefresh(q, ds, r.family)}
    /\ grants' = grants \cup {NewGrant(q, ds, r.family)}
    /\ late' = IF Unexpired(r) THEN late ELSE late \cup {r.family}
    /\ nextGrant' = nextGrant + 1
    /\ call' = [call EXCEPT ![p] =
                   [q EXCEPT !.at = "claims", !.grant = nextGrant, !.ds = ds]]

\* A rotation that loses the device session of the row it replaces.
RotateUnbound(p) ==
    /\ call[p].at = "rotate"
    /\ \E r \in refreshTokens : r.id = call[p].token /\ Replace(p, r, r.access, Null)
    /\ UNCHANGED <<now, cookie, deviceSessions, authRequests, nextDevice,
                   nextLogin, ended>>

\* A rotation that leaves the old access token behind.
RotateKeepingAccess(p) ==
    /\ call[p].at = "rotate"
    /\ \E r \in refreshTokens : r.id = call[p].token /\ Replace(p, r, Null, r.ds)
    /\ UNCHANGED <<now, cookie, deviceSessions, authRequests, nextDevice,
                   nextLogin, ended>>

\* A rotation that does not look at RowsAffected: it goes on from the grant
\* it was asked to replace even if the row is gone.
RotateUnchecked(p) ==
    /\ call[p].at = "rotate"
    /\ \E g \in grants :
          /\ g.id = call[p].token
          /\ Replace(p, [id |-> g.id, user |-> g.user, client |-> g.client,
                         access |-> g.id, expiration |-> 0, ds |-> g.ds,
                         family |-> g.family], g.id, g.ds)
    /\ UNCHANGED <<now, cookie, deviceSessions, authRequests, nextDevice,
                   nextLogin, ended>>

\* CreateAccessAndRefresh with a current refresh token, one transaction: if
\* the row is gone or expired nothing is written, else it is replaced and the
\* new one inherits its device session.  now() is the time the transaction
\* began, after the read that found the row unexpired: by the commit it may have
\* expired.
Rotate(p) ==
    LET old == {r \in refreshTokens : r.id = call[p].token} IN
    /\ call[p].at = "rotate"
    /\ \/ /\ \A r \in old : ~Unexpired(r)
          /\ call' = [call EXCEPT ![p] = Idle]
          /\ UNCHANGED <<tokens, refreshTokens, nextGrant, grants, late>>
       \/ \E r \in old : Replace(p, r, r.access, r.ds)
    /\ UNCHANGED <<now, cookie, deviceSessions, authRequests, nextDevice,
                   nextLogin, ended>>

\* ORDER BY created_at DESC LIMIT 1: the device session of the newest unexpired
\* refresh token of user and client, Null if there is none.
LatestDeviceSessionID(u, c) ==
    LET live == {r \in refreshTokens : r.user = u /\ r.client = c /\ Unexpired(r)}
    IN IF live = {} THEN {Null}
       ELSE {r.ds : r \in {x \in live : \A s \in live : s.id <= x.id}}

GetPrivateClaims(p) ==
    /\ call[p].at = "claims"
    /\ \E id \in LatestDeviceSessionID(call[p].user, call[p].client) :
          call' = [call EXCEPT ![p].at = "respond", ![p].dsid = id]
    /\ UNCHANGED <<now, cookie, tables, ids, history>>

\* The exchange ends with DeleteAuthRequest; a refresh has nothing left to do.
Respond(p) ==
    /\ call[p].at = "respond"
    /\ authRequests' = {a \in authRequests : a.id # call[p].auth}
    /\ call' = [call EXCEPT ![p] = Idle]
    /\ UNCHANGED <<now, cookie, deviceSessions, tokens, refreshTokens, ids, history>>

-----------------------------------------------------------------------------
(***************************************************************************)
(* Revocation.                                                             *)
(***************************************************************************)
Revocable(id, u) == \E d \in deviceSessions : d.id = id /\ d.user = u /\ ~d.revoked

\* RevokeByID that marks the session and leaves its refresh tokens.
MarkRevoked(id, u) ==
    /\ Revocable(id, u)
    /\ deviceSessions' = {[d EXCEPT !.revoked = d.revoked \/ d.id = id] :
                             d \in deviceSessions}
    /\ ended' = ended \cup Families({r \in refreshTokens : r.ds = id})
    /\ UNCHANGED refreshTokens

\* DeviceSessionRepository.RevokeByID, one transaction.
RevokeByID(id, u) ==
    /\ Revocable(id, u)
    /\ deviceSessions' = {[d EXCEPT !.revoked = d.revoked \/ d.id = id] :
                             d \in deviceSessions}
    /\ ended' = ended \cup Families({r \in refreshTokens : r.ds = id})
    /\ refreshTokens' = {r \in refreshTokens : r.ds # id}

RevokeSession(d) ==
    /\ RevokeByID(d.id, d.user)
    /\ UNCHANGED <<now, cookie, authRequests, tokens, call, ids, grants, late>>

\* RevokeAllOtherSessions: list the active sessions, then revoke them one by
\* one, ignoring the ones that are gone by then.
RevokeAllOthers(p, u, current) ==
    LET active == {d \in deviceSessions : d.user = u /\ ~d.revoked}
        others == {d.id : d \in active} \ {current}
    IN /\ call[p] = Idle
       /\ others # {}
       /\ call' = [call EXCEPT ![p] = [at |-> "revokeAll", user |-> u, todo |-> others]]
       /\ UNCHANGED <<now, cookie, tables, ids, history>>

RevokeNext(p) ==
    /\ call[p].at = "revokeAll"
    /\ \E id \in call[p].todo :
          /\ \/ RevokeByID(id, call[p].user)
             \/ /\ ~Revocable(id, call[p].user)
                /\ UNCHANGED <<deviceSessions, refreshTokens, ended>>
          /\ call' = [call EXCEPT ![p] =
                IF call[p].todo = {id} THEN Idle
                ELSE [call[p] EXCEPT !.todo = @ \ {id}]]
    /\ UNCHANGED <<now, cookie, authRequests, tokens, ids, grants, late>>

\* A row that a request still in flight has issued.
JustIssued(r) ==
    \E p \in Procs : call[p].at \in {"claims", "respond"} /\ call[p].grant = r.id

\* TerminateSession (end_session): DeleteByUserAndClient, one transaction of two
\* DELETEs.  At READ COMMITTED it removes all that was there when it began; a
\* grant issued while it runs may escape it, even one that replaces a row it
\* was waiting for (TokenTx models the statements).
TerminateSession(u, c) ==
    LET mine == {r \in refreshTokens : r.user = u /\ r.client = c} IN
    \E missed \in SUBSET {r \in mine : JustIssued(r)} :
    \E kept \in SUBSET {t \in tokens : \E r \in missed : r.access = t.id} :
        /\ refreshTokens' = refreshTokens \ (mine \ missed)
        /\ tokens' = {t \in tokens : ~(t.user = u /\ t.client = c)} \cup kept
        /\ ended' = ended \cup Families(mine \ missed)
        /\ UNCHANGED <<now, cookie, deviceSessions, authRequests, call, ids, grants, late>>

\* RevokeToken for a refresh token: its row only, the access token stays.  It is
\* looked up by the hash of what the library passes, the token as
\* .llm/archive/012_plan.md:889 has it; for anything else the answer is "not
\* found" and nothing changes.
RevokeRefreshToken(r) ==
    /\ Unexpired(r)
    /\ refreshTokens' = refreshTokens \ {r}
    /\ ended' = ended \cup {r.family}
    /\ UNCHANGED <<now, cookie, deviceSessions, authRequests, tokens, call, ids, grants, late>>

\* RevokeToken for an access token.
RevokeAccessToken(t) ==
    /\ tokens' = tokens \ {t}
    /\ UNCHANGED <<now, cookie, deviceSessions, authRequests, refreshTokens, call,
                   ids, history>>

-----------------------------------------------------------------------------
(***************************************************************************)
(* Cleanup loops, failures, time.                                          *)
(***************************************************************************)

\* TokenRepository.DeleteExpired: two statements with one cutoff.
SweepTokens(p) ==
    /\ call[p] = Idle
    /\ tokens' = {t \in tokens : ~(t.expiration < now)}
    /\ call' = [call EXCEPT ![p] = [at |-> "sweepRefresh", before |-> now]]
    /\ UNCHANGED <<now, cookie, deviceSessions, authRequests, refreshTokens, ids, history>>

SweepRefreshTokens(p) ==
    /\ call[p].at = "sweepRefresh"
    /\ refreshTokens' = {r \in refreshTokens : ~(r.expiration < call[p].before)}
    /\ call' = [call EXCEPT ![p] = Idle]
    /\ UNCHANGED <<now, cookie, deviceSessions, authRequests, tokens, ids, history>>

\* The device session a request in flight binds a login or a token to.
Names(q) == IF q.at \in LoginSteps \cup {"exchange"} THEN {q.ds} ELSE {}

\* revoked_at < now - 30 days.  No request and no auth request lives that
\* long, so whatever named the session when it was revoked is gone.
RevokedLongAgo(d) ==
    /\ d.revoked
    /\ \A p \in Procs : d.id \notin Names(call[p])
    /\ \A a \in authRequests : a.ds # d.id

\* Any session counts as unused.
NeverInUse(d) == FALSE

InUse(d) == \E r \in refreshTokens : r.ds = d.id /\ Unexpired(r)

\* DeleteRevokedBefore, one DELETE at READ COMMITTED.  First its snapshot: the old
\* sessions that no unexpired refresh token points to.
FindRevokedBefore(p) ==
    LET unused == {d.id : d \in {e \in deviceSessions : RevokedLongAgo(e) /\ ~InUse(e)}}
    IN /\ call[p] = Idle
       /\ \E found \in SUBSET unused \ {{}} :
             call' = [call EXCEPT ![p] = [at |-> "dropSessions", found |-> found]]
       /\ UNCHANGED <<now, cookie, tables, ids, history>>

\* Then the rows go, when those who hold locks on them (a rotation that touches
\* the session, a foreign key check) have committed: NOT EXISTS is not asked again
\* of what they wrote.  ON DELETE SET NULL finds all rows that point to the
\* session by then.  A row that another sweep has deleted is not deleted again: one
\* that a login has made under its id is not in the snapshot.
DeleteRevokedBefore(p) ==
    LET gone == call[p].found IN
    /\ call[p].at = "dropSessions"
    /\ deviceSessions' = {d \in deviceSessions : d.id \notin gone}
    /\ refreshTokens' = {[r EXCEPT !.ds = IF @ \in gone THEN Null ELSE @] :
                            r \in refreshTokens}
    /\ call' = [s \in Procs |->
          IF s = p THEN Idle
          ELSE IF call[s].at = "dropSessions" THEN [call[s] EXCEPT !.found = @ \ gone]
          ELSE call[s]]
    /\ UNCHANGED <<now, cookie, authRequests, tokens, ids, history>>

\* A database error, a cancelled request or a crash ends a handler between two
\* statements; what it has committed stays.
Fail(p) ==
    /\ call[p] # Idle
    /\ call' = [call EXCEPT ![p] = Idle]
    /\ UNCHANGED <<now, cookie, tables, ids, history>>

Tick ==
    /\ now < MaxTime
    /\ now' = now + 1
    /\ UNCHANGED <<cookie, tables, call, ids, history>>

LoginNext ==
    \/ \E b \in Browsers : SelectProvider(b)
    \/ \E p \in Procs, b \in Browsers, u \in Users, c \in Clients :
          FindOrCreate(p, b, u, c)
    \/ \E p \in Procs : TouchDevice(p) \/ CreateDevice(p) \/ CompleteLogin(p)
    \/ \E a \in authRequests : ExpireAuthRequest(a)

TokenNext ==
    \/ \E p \in Procs, a \in authRequests : AuthRequestByCode(p, a)
    \/ \E p \in Procs, r \in refreshTokens : TokenRequestByRefreshToken(p, r)
    \/ \E p \in Procs : \/ ExchangeCode(p) \/ ExchangeCodeAccessOnly(p)
                        \/ Rotate(p) \/ GetPrivateClaims(p) \/ Respond(p)
    \/ \E c \in Clients : ClientCredentials(c)

RevokeNextState ==
    \/ \E d \in deviceSessions : RevokeSession(d)
    \/ \E p \in Procs, u \in Users :
          \E current \in {Null} \cup {d.id : d \in deviceSessions} :
             RevokeAllOthers(p, u, current)
    \/ \E p \in Procs : RevokeNext(p)
    \/ \E u \in Users, c \in Clients : TerminateSession(u, c)
    \/ \E r \in refreshTokens : RevokeRefreshToken(r)
    \/ \E t \in tokens : RevokeAccessToken(t)

SystemNext ==
    \/ \E p \in Procs : \/ SweepTokens(p) \/ SweepRefreshTokens(p)
                        \/ FindRevokedBefore(p) \/ DeleteRevokedBefore(p)
                        \/ Fail(p)
    \/ Tick

Next == LoginNext \/ TokenNext \/ RevokeNextState \/ SystemNext

Spec == Init /\ [][Next]_vars

-----------------------------------------------------------------------------
(***************************************************************************)
(* Properties.                                                             *)
(***************************************************************************)

\* A refresh token is consumed by at most one rotation, however many refresh
\* requests have read it before one of them commits (CreateAccessAndRefresh).
RefreshSingleUse ==
    \A g, h \in grants : g.parent # Null /\ g.parent = h.parent => g = h

\* Over any number of rotations one login holds at most one refresh token and
\* one access token, and the two point at each other (CreateAccessAndRefresh
\* deletes the access token of the row it replaces).
OneTokenPairPerFamily ==
    /\ \A r, s \in refreshTokens : r.family = s.family => r = s
    /\ \A t, s \in tokens : t.family = s.family => t = s
    /\ \A r \in refreshTokens, t \in tokens :
          r.family = t.family => t.id = r.access /\ t.refresh = r.id

\* A login whose refresh token was removed by a session revocation, a logout
\* or a token revocation never has a refresh token again: a refresh that had
\* already read the token does not bring it back.
RevocationIsFinal == \A r \in refreshTokens : r.family \notin ended

\* ... and no step issues it another access token: what it holds runs out
\* within one access token lifetime.
NoAccessAfterRevocation ==
    [][\A t \in tokens' \ tokens : t.family \notin ended]_vars

\* A token and an auth request are only ever bound to an existing device
\* session of their own user, although users share browsers and cookies.
SessionOwner ==
    \A row \in refreshTokens \cup authRequests :
        row.ds # Null => OwnedBy(row.ds, row.user)

\* A rotation hands on user, client and device session of the token it
\* replaces (the INSERT takes the first two from the request, the third from
\* the row); a login that was once refreshed late may have lost its session.
RotationKeepsIdentity ==
    \A g, h \in grants :
        h.parent = g.id =>
            /\ h.user = g.user /\ h.client = g.client
            /\ h.ds = g.ds \/ (h.ds = Null /\ h.family \in late)

\* The cleanup of revoked sessions never takes the device session of a login that
\* still has a token, without which it could never be revoked by session: over
\* any number of rotations and sweeps, whose DELETE works on an older snapshot,
\* the unexpired token of a login names the session of its code.  Excepted is a
\* login one of whose refreshes committed after the token had expired: a sweep
\* can have taken it for unused in between.
LiveTokenKeepsSession ==
    \A r \in refreshTokens, g \in grants :
        r.family = g.family /\ Unexpired(r) /\ r.family \notin late => r.ds = g.ds

\* A refresh that has read row r is under way.
Refreshing(r) == \E p \in Procs : call[p].at = "rotate" /\ call[p].token = r.id

\* To a client the grant store is what Logins says, although a refresh reads its
\* token in one statement and replaces it in another: a refresh that overtakes or
\* is overtaken by another, a revocation, a logout or a sweep brings no login back
\* and leaves it no second token.  A token is accepted while its row is there and
\* is unexpired, or a refresh that read it in time is under way.
Served == INSTANCE Logins WITH
    Ids      <- 1..MaxGrants,
    Tokens   <- 1..MaxGrants,
    issued   <- {<<g.family, g.id>> : g \in grants},
    accepted <- {<<r.family, r.id>> :
                    r \in {row \in refreshTokens : Unexpired(row) \/ Refreshing(row)}}

ImplementsLogins == Served!Spec

(***************************************************************************)
(* The inductive invariant behind the properties above (TokenStoreProofs). *)
(***************************************************************************)

\* Ids are minted in order, so nothing stored carries an id not yet minted.
GrantIdsMinted ==
    /\ \A row \in tokens \cup refreshTokens : row.family < nextGrant
    /\ \A g \in grants :
          g.id \in 1..(nextGrant - 1) /\ g.parent < nextGrant /\ g.family < nextGrant
    /\ \A f \in ended : f < nextGrant

DevicesMinted ==
    /\ \A d \in deviceSessions : d.id \in 1..(nextDevice - 1)
    /\ \A b \in Browsers : cookie[b] < nextDevice

GrantKeys  == \A g, h \in grants : g.id = h.id => g = h
DeviceKeys == \A d, e \in deviceSessions : d.id = e.id => d = e

\* A refresh token row agrees with the grant that issued it; its session is
\* the one it was issued for as long as it is unexpired and its login was never
\* refreshed late; and it has not been rotated yet.
RowsMatchGrants ==
    /\ \A r \in refreshTokens : \E g \in grants :
          /\ g.id = r.id /\ g.user = r.user /\ g.client = r.client
          /\ g.family = r.family
          /\ r.ds = g.ds \/ (r.ds = Null /\ (Unexpired(r) => r.family \in late))
    /\ \A r \in refreshTokens, g \in grants : g.parent # r.id

\* A login that was never refreshed late has one device session.
OneSessionPerFamily ==
    \A g, h \in grants : g.family = h.family /\ g.family \notin late => g.ds = h.ds

\* What a request in flight claims about the rows it has read.
GrantCall(q) ==
    /\ q.at = "exchange" => q.token = Null
    /\ q.at = "rotate" =>
          \E g \in grants : g.id = q.token /\ g.user = q.user /\ g.client = q.client

SessionCall(q) ==
    /\ q.at = "create" => q.ds \in 1..(nextDevice - 1)
    /\ q.at \in {"touch", "complete"} => OwnedBy(q.ds, q.user)
    /\ q.at = "exchange" /\ q.ds # Null => OwnedBy(q.ds, q.user)

GrantInv ==
    /\ GrantIdsMinted
    /\ GrantKeys
    /\ RowsMatchGrants
    /\ \A p \in Procs : GrantCall(call[p])
    /\ RefreshSingleUse
    /\ OneTokenPairPerFamily
    /\ RevocationIsFinal
    /\ RotationKeepsIdentity
    /\ OneSessionPerFamily

SessionInv ==
    /\ DevicesMinted
    /\ DeviceKeys
    /\ SessionOwner
    /\ \A p \in Procs : SessionCall(call[p])

\* A session revoked so long ago that nothing can bind a login or a token to it
\* any more, but late refreshes.
Forgotten(id) ==
    /\ \E d \in deviceSessions : d.id = id /\ d.revoked
    /\ \A p \in Procs : id \notin Names(call[p])
    /\ \A a \in authRequests : a.ds # id
    /\ \A r \in refreshTokens : r.ds = id /\ Unexpired(r) => r.family \in late

\* What a sweep has found stays so until it is deleted.
SweepInv ==
    \A p \in Procs :
        call[p].at = "dropSessions" => \A id \in call[p].found : Forgotten(id)

IInv == TypeOK /\ GrantInv /\ SessionInv /\ SweepInv

(***************************************************************************)
(* Stated by the design notes, refuted by the code.                        *)
(***************************************************************************)

\* "Revoking the device session immediately invalidates all associated refresh
\* tokens" (.llm/archive/012_plan.md:23).
RevokedSessionHasNoTokens ==
    \A r \in refreshTokens, d \in deviceSessions : r.ds = d.id => ~d.revoked

\* When an old session is deleted "the linked refresh tokens are already
\* expired/deleted" (.llm/archive/012_plan.md:97), so none loses its session.
SweepDetachesNoLiveToken ==
    [][\A r \in refreshTokens, s \in refreshTokens' :
          r.id = s.id /\ Unexpired(r) => s.ds = r.ds]_vars

\* "Authorization codes are single-use" (.llm/archive/008_OIDC_EVALUATION.md:80).
CodeSingleUse ==
    \A g, h \in grants : g.auth # Null /\ g.auth = h.auth => g = h

\* The dsid lookup "will reliably return the token just created"
\* (.llm/archive/016_plan.md:34): a claim that names a session names the
\* one the tokens of this response are bound to.
ClaimIsOwnSession ==
    \A p \in Procs :
        call[p].at = "respond" /\ call[p].grant # Null =>
            call[p].dsid \in {Null, call[p].ds}
=============================================================================
