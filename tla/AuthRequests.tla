---------------------------- MODULE AuthRequests ----------------------------
(***************************************************************************)
(* The life of an auth request in identity-service: created by the         *)
(* authorize endpoint, sent to a provider with an encrypted login state,   *)
(* completed by a login callback, given a code, redeemed at the token      *)
(* endpoint or removed by the cleanup loop, while the service is restarted *)
(* with another environment.                                               *)
(*                                                                         *)
(* A step is one SQL statement; a request to the service is in flight in   *)
(* call[p] between two of them.  What the OIDC library checks of a request *)
(* that never changes (client, redirect URI, PKCE) is left out, and the    *)
(* tokens a code is exchanged for are those of TokenStore.  A device       *)
(* session is written as the user it belongs to (TokenStore, SessionOwner).*)
(***************************************************************************)
EXTENDS Naturals

CONSTANTS
    Users,
    Providers,    \* "google", "github"
    CryptoKeys,   \* values of CRYPTO_KEY
    Procs,        \* requests handled concurrently
    TTL,          \* AUTH_REQUEST_TTL_MINUTES, in ticks
    MaxRequests,  \* bound: auth requests created
    MaxCodes,     \* bound: codes saved
    MaxDeploys,   \* bound: changes of the environment
    MaxTime       \* bound: ticks of the clock

ASSUME AuthRequestsAssumption == {TTL, MaxRequests, MaxCodes, MaxDeploys, MaxTime} \subseteq Nat

VARIABLES
    now,       \* the clock of the service and of PostgreSQL
    env,       \* CRYPTO_KEY and the providers that are configured
    deploys,   \* how often it has changed
    states,    \* the login states handed out to browsers
    requests,  \* table auth_requests
    call,      \* call[p]: what p has read, and its next step
    sweep,     \* the cleanup loop: the time its cutoff was taken
    nextId,    \* the next ULID
    nextCode,  \* codes are random, each used once
    logins,    \* history: who completed which request before it expired, and
               \* the environment of the process that did it
    redeemed,  \* history: what codes were exchanged for
    answered   \* history: the requests whose exchange has been answered

service == <<env, deploys, states>>
minted  == <<nextId, nextCode>>
history == <<logins, redeemed, answered>>
vars    == <<now, service, requests, call, sweep, minted, history>>

Null == 0
Idle == [at |-> "idle"]
NoSweep == [none |-> TRUE]

Ids   == 1..MaxRequests
Codes == 1..MaxCodes

\* done is is_done; user and ds are NULL until then.
AuthRequest == [id : Ids, created : Nat, done : BOOLEAN, user : Users \cup {Null},
                ds : Users \cup {Null}, code : Codes \cup {Null}]
\* What FederatedRedirect encrypts, and the key it does it with.
LoginState == [id : Ids, provider : Providers, key : CryptoKeys]

Environment == [key : CryptoKeys, providers : SUBSET Providers]
Login == [id : Ids, user : Users, env : Environment]

Call == {Idle} \cup [at : {"saveCode", "delete"}, id : Ids]
        \cup [at : {"exchange"}, id : Ids, user : Users, ds : Users]

TypeOK ==
    /\ now \in Nat
    /\ env \in Environment
    /\ deploys \in 0..MaxDeploys
    /\ states \subseteq LoginState
    /\ requests \subseteq AuthRequest
    /\ call \in [Procs -> Call]
    /\ sweep \in {NoSweep} \cup [cutoffFrom : Nat]
    /\ nextId \in 1..(MaxRequests + 1)
    /\ nextCode \in 1..(MaxCodes + 1)
    /\ logins \subseteq Login
    /\ redeemed \subseteq [id : Ids, user : Users, ds : Users]
    /\ answered \subseteq Ids

Init ==
    /\ now = 0
    /\ \E k \in CryptoKeys : env = [key |-> k, providers |-> Providers]
    /\ deploys = 0
    /\ states = {}
    /\ requests = {}
    /\ call = [p \in Procs |-> Idle]
    /\ sweep = NoSweep
    /\ nextId = 1
    /\ nextCode = 1
    /\ logins = {}
    /\ redeemed = {}
    /\ answered = {}

\* time.Now().After(CreatedAt + TTL).
Expired(r) == now > r.created + TTL

Done(p)    == call' = [call EXCEPT ![p] = Idle]
Go(p, rec) == call' = [call EXCEPT ![p] = rec]

-----------------------------------------------------------------------------
(***************************************************************************)
(* The authorize endpoint and the login callback.                          *)
(***************************************************************************)

\* created_at is the database's default.  (A request that could not outlive its
\* TTL before MaxTime is not created.)
CreateAuthRequest ==
    /\ nextId <= MaxRequests
    /\ now + TTL < MaxTime
    /\ requests' = requests \cup
         {[id |-> nextId, created |-> now, done |-> FALSE, user |-> Null,
           ds |-> Null, code |-> Null]}
    /\ nextId' = nextId + 1
    /\ UNCHANGED <<now, service, call, sweep, nextCode, history>>

\* FederatedRedirect: the state names the request, which is not looked up, and
\* the provider; it has no expiry.
FederatedRedirect(id, provider) ==
    /\ provider \in env.providers
    /\ states' = states \cup {[id |-> id, provider |-> provider, key |-> env.key]}
    /\ UNCHANGED <<now, env, deploys, requests, call, sweep, minted, history>>

\* A restart with another environment; requests are in the database, states with
\* the browsers, and what is in flight ends as in Fail.
Redeploy(key, providers) ==
    /\ deploys < MaxDeploys
    /\ providers # {}
    /\ env' = [key |-> key, providers |-> providers]
    /\ deploys' = deploys + 1
    /\ call' = [p \in Procs |-> Idle]
    /\ sweep' = NoSweep
    /\ UNCHANGED <<now, states, requests, minted, history>>

\* States that any process reads, whatever its key (IssuedForItsLogin fails of it).
ReadableByAll(st) == st.provider \in env.providers

\* decryptState, and the lookup of the provider.
Readable(st) == st.key = env.key /\ st.provider \in env.providers

\* An UPDATE that keeps the device session a request has already.
CompleteKeepingDevice(id, u) ==
    requests' = {IF r.id # id THEN r
                 ELSE [r EXCEPT !.done = TRUE, !.user = u,
                                !.ds = IF r.ds = Null THEN u ELSE @] : r \in requests}

\* CompleteLogin: one UPDATE.  Neither the TTL nor is_done is looked at, and a row
\* that is gone goes unnoticed.
CompleteLogin(id, u) ==
    requests' = {IF r.id # id THEN r
                 ELSE [r EXCEPT !.done = TRUE, !.user = u, !.ds = u] : r \in requests}

\* FederatedCallback: the browser returns with a state, as often as it likes, and
\* has signed in as u (Accounts).
FederatedCallback(st, u) ==
    /\ Readable(st)
    /\ CompleteLogin(st.id, u)
    /\ logins' = logins \cup
         {[id |-> st.id, user |-> u, env |-> env] : r \in {q \in requests : q.id = st.id /\ ~Expired(q)}}
    /\ UNCHANGED <<now, service, call, sweep, minted, redeemed, answered>>

-----------------------------------------------------------------------------
(***************************************************************************)
(* The library's callback and token endpoint.                              *)
(***************************************************************************)

\* AuthRequestByID; the library refuses a request that is not done.
AuthRequestByID(p, id) ==
    /\ call[p] = Idle
    /\ \E r \in requests : r.id = id /\ ~Expired(r) /\ r.done
    /\ Go(p, [at |-> "saveCode", id |-> id])
    /\ UNCHANGED <<now, service, requests, sweep, minted, history>>

\* A SaveAuthCode that inserts the request anew when its row is gone.
SaveAuthCodeUpsert(p) ==
    /\ call[p].at = "saveCode"
    /\ nextCode <= MaxCodes
    /\ requests' = {r \in requests : r.id # call[p].id} \cup
         {[id |-> call[p].id, created |-> now, done |-> FALSE, user |-> Null,
           ds |-> Null, code |-> nextCode]}
    /\ nextCode' = nextCode + 1
    /\ Done(p)
    /\ UNCHANGED <<now, service, sweep, nextId, history>>

\* SaveAuthCode: the code goes to the browser whether or not the row is there
\* still, and replaces one that was saved before.
SaveAuthCode(p) ==
    /\ call[p].at = "saveCode"
    /\ nextCode <= MaxCodes
    /\ requests' = {IF r.id # call[p].id THEN r
                    ELSE [r EXCEPT !.code = nextCode] : r \in requests}
    /\ nextCode' = nextCode + 1
    /\ Done(p)
    /\ UNCHANGED <<now, service, sweep, nextId, history>>

\* AuthRequestByCode, for a code that was handed out.
AuthRequestByCode(p, code) ==
    /\ call[p] = Idle
    /\ \E r \in requests :
          /\ r.code = code
          /\ ~Expired(r)
          /\ Go(p, [at |-> "exchange", id |-> r.id, user |-> r.user, ds |-> r.ds])
    /\ UNCHANGED <<now, service, requests, sweep, minted, history>>

\* The tokens are created from what was read (TokenStore!ExchangeCode).
Exchange(p) ==
    LET q == call[p] IN
    /\ q.at = "exchange"
    /\ redeemed' = redeemed \cup {[id |-> q.id, user |-> q.user, ds |-> q.ds]}
    /\ Go(p, [at |-> "delete", id |-> q.id])
    /\ UNCHANGED <<now, service, requests, sweep, minted, logins, answered>>

DeleteAuthRequest(p) ==
    /\ call[p].at = "delete"
    /\ requests' = {r \in requests : r.id # call[p].id}
    /\ answered' = answered \cup {call[p].id}
    /\ Done(p)
    /\ UNCHANGED <<now, service, sweep, minted, logins, redeemed>>

\* An error or a crash ends a request between two statements.
Fail(p) ==
    /\ call[p] # Idle
    /\ Done(p)
    /\ UNCHANGED <<now, service, requests, sweep, minted, history>>

-----------------------------------------------------------------------------
(***************************************************************************)
(* runAuthRequestCleanup.                                                  *)
(***************************************************************************)

\* The ticker fires and the cutoff is taken.
StartSweep ==
    /\ sweep = NoSweep
    /\ sweep' = [cutoffFrom |-> now]
    /\ UNCHANGED <<now, service, requests, call, minted, history>>

\* A DELETE that includes the cutoff itself.
SweepFromCutoff ==
    /\ sweep # NoSweep
    /\ requests' = {r \in requests : ~(r.created + TTL <= sweep.cutoffFrom)}
    /\ sweep' = NoSweep
    /\ UNCHANGED <<now, service, call, minted, history>>

\* The DELETE of requests that have been completed.
SweepCompleted ==
    /\ sweep # NoSweep
    /\ requests' = {r \in requests : ~(r.created + TTL < sweep.cutoffFrom /\ r.done)}
    /\ sweep' = NoSweep
    /\ UNCHANGED <<now, service, call, minted, history>>

\* DeleteExpiredBefore(cutoff): created_at < cutoff, where cutoff = cutoffFrom - TTL.
Sweep ==
    /\ sweep # NoSweep
    /\ requests' = {r \in requests : ~(r.created + TTL < sweep.cutoffFrom)}
    /\ sweep' = NoSweep
    /\ UNCHANGED <<now, service, call, minted, history>>

\* An error is logged, and the loop goes on; a restart begins it anew.
SweepFails ==
    /\ sweep # NoSweep
    /\ sweep' = NoSweep
    /\ UNCHANGED <<now, service, requests, call, minted, history>>

Tick ==
    /\ now < MaxTime
    /\ now' = now + 1
    /\ UNCHANGED <<service, requests, call, sweep, minted, history>>

Next ==
    \/ CreateAuthRequest
    \/ \E id \in 1..(nextId - 1), provider \in Providers : FederatedRedirect(id, provider)
    \/ \E st \in states, u \in Users : FederatedCallback(st, u)
    \/ \E key \in CryptoKeys, providers \in SUBSET Providers : Redeploy(key, providers)
    \/ \E p \in Procs :
          \/ \E id \in 1..(nextId - 1) : AuthRequestByID(p, id)
          \/ \E code \in 1..(nextCode - 1) : AuthRequestByCode(p, code)
          \/ SaveAuthCode(p) \/ Exchange(p) \/ DeleteAuthRequest(p) \/ Fail(p)
    \/ StartSweep \/ Sweep \/ SweepFails
    \/ Tick

Spec == Init /\ [][Next]_vars

\* Time passes, the ticker of the cleanup loop fires, and its DELETE does not
\* fail for ever.
FairSpec == Spec /\ WF_vars(Tick) /\ WF_vars(StartSweep) /\ SF_vars(Sweep)

-----------------------------------------------------------------------------
(***************************************************************************)
(* Properties.                                                             *)
(***************************************************************************)

\* The process that completed a login is one that can have sent it to the provider:
\* its key had encrypted a state for that very request and a provider it has.
SentBy(l) ==
    \E st \in states : st.id = l.id /\ st.key = l.env.key /\ st.provider \in l.env.providers

\* Tokens are issued to a user, on a device session, who completed that very
\* request with it before the request expired: not to a mixture of two callbacks
\* that complete one request, and not for a login that came too late, although
\* CompleteLogin checks neither (GetByCode reads the row at once and checks).  And
\* logins that were at a provider when CRYPTO_KEY or the providers changed lead to
\* tokens only after the browser has been sent there anew (decryptState).
IssuedForItsLogin ==
    \A g \in redeemed :
        g.ds = g.user /\ \E l \in logins : l.id = g.id /\ l.user = g.user /\ SentBy(l)

\* Once an exchange has been answered the code is spent: the request is gone and
\* nothing that was under way brings it back (DeleteAuthRequest, and UPDATEs that
\* find no row).  Only exchanges that had read it before go on.
AnsweredCodeIsSpent ==
    \A r \in requests : r.id \notin answered

\* The cleanup loop never removes a request that GetByID or GetByCode would
\* still return: its cutoff was taken earlier, and the two comparisons agree on
\* the boundary.
CleanupSparesLive ==
    [][Sweep => \A r \in requests \ requests' : Expired(r)]_vars

\* What the proofs add: ids are fresh, and keys; a login that is recorded in a row
\* came in time, or the row has expired; a login was completed with a state its process can
\* have made; only completed requests get a code; and what a call remembers of the
\* row it has read is true of it still.
MintedIds ==
    /\ \A r \in requests : r.id < nextId
    /\ \A id \in answered : id < nextId
    /\ \A p \in Procs : call[p] # Idle => call[p].id < nextId
    /\ \A r, q \in requests : r.id = q.id => r = q

LoginInTime(id, u, ds) ==
    u \in Users /\ ds = u /\ \E l \in logins : l.id = id /\ l.user = u

LoginsKnowTheirState == \A l \in logins : SentBy(l)

RowsKnowTheirLogin ==
    \A r \in requests :
        /\ r.done => /\ r.user \in Users /\ r.ds = r.user
                     /\ LoginInTime(r.id, r.user, r.ds) \/ Expired(r)
        /\ r.code # Null => r.done

KnowsItsRow(c) ==
    /\ c.at = "saveCode" => \A r \in requests : r.id = c.id => r.done
    /\ c.at = "exchange" => LoginInTime(c.id, c.user, c.ds)

CallsKnowTheirRow == \A p \in Procs : KnowsItsRow(call[p])

CutoffIsPast == sweep # NoSweep => sweep.cutoffFrom <= now

IInv ==
    /\ TypeOK
    /\ MintedIds
    /\ RowsKnowTheirLogin
    /\ LoginsKnowTheirState
    /\ CallsKnowTheirRow
    /\ CutoffIsPast
    /\ IssuedForItsLogin
    /\ AnsweredCodeIsSpent

\* A request that is abandoned at any point of the login is removed in the end.
RequestsAreRemoved ==
    \A id \in Ids : (\E r \in requests : r.id = id) ~> ~(\E r \in requests : r.id = id)
=============================================================================
