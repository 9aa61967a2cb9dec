----------------------------- MODULE BFFSession -----------------------------
(***************************************************************************)
(* myaccount-bff: the browser sessions it keeps in Redis, the refresh of   *)
(* their tokens behind a Redis lock (middleware/auth.go), login, logout    *)
(* and session revocation (handler/auth.go, handler/sessions.go).          *)
(*                                                                         *)
(* A step is one Redis command or one call of identity-service; requests   *)
(* run concurrently and hold in call[p] the session they have loaded.      *)
(* identity-service is modelled by what it does to the refresh token of    *)
(* one login: each refresh replaces it, a second use of it is refused, a   *)
(* revocation removes it (TokenStore, which implements Logins).            *)
(***************************************************************************)
EXTENDS Naturals

CONSTANTS
    States,     \* OIDC state values (random, each used once)
    Procs,      \* requests handled concurrently
    AccessTTL,  \* access token lifetime, in ticks
    Margin,     \* a token with less than this left is refreshed
    HardTTL,    \* hard maximum age of a session, in ticks
    MaxSessions,\* bound: sessions created
    MaxTokens,  \* bound: refresh tokens issued per login
    MaxTime     \* bound: ticks of the clock

None == [none |-> TRUE]
Idle == [at |-> "idle"]

ASSUME BFFSessionAssumption ==
    /\ {AccessTTL, Margin, HardTTL, MaxSessions, MaxTime} \subseteq Nat
    /\ MaxTokens \in Nat \ {0}
    /\ None \notin Procs

VARIABLES
    now,        \* the clock
    store,      \* store[s]: the Redis value of session s, or None
    lock,       \* lock[s]: the request that set refresh_lock:s, or None
    states,     \* the OIDC states in Redis
    spent,      \* the OIDC states Login has handed out
    call,       \* call[p]: the request p handles, at its next step
    live,       \* identity-service: the refresh token it accepts for s, 0 if none
    issued,     \* identity-service: refresh tokens issued for s
    origin,     \* history: the state and the time of the login that made s
    lost,       \* history: sessions whose newest token never reached Redis
    overrun,    \* history: sessions whose lock has expired under its holder
    dead,       \* history: sessions logged out, and not restored since
    under       \* history: the requests that might refresh one when it was

redis    == <<store, lock, states>>
identity == <<live, issued>>
history  == <<spent, origin, lost, overrun, dead, under>>
vars     == <<now, redis, call, identity, history>>

\* Session ids are ULIDs, each used once, in this order.
Sids == 1..MaxSessions

Session == [token : Nat, expiry : Nat, created : Nat]
Steps   == {"lock", "wait", "refresh", "save", "release", "reject", "serve", "delete"}
Request == [at : Steps, sid : Sids, sess : Session, loaded : Nat,
            then : {"serve", "reject", "fail"}]
SignIn  == [at : {"exchange"}, state : States]
           \cup [at : {"store"}, state : States, sid : Sids, sess : Session]

TypeOK ==
    /\ now \in Nat
    /\ store \in [Sids -> Session \cup {None}]
    /\ lock \in [Sids -> Procs \cup {None}]
    /\ states \subseteq States
    /\ spent \subseteq States
    /\ call \in [Procs -> {Idle} \cup Request \cup SignIn]
    /\ live \in [Sids -> Nat]
    /\ issued \in [Sids -> Nat]
    /\ origin \in [Sids -> {None} \cup [state : States, at : Nat]]
    /\ lost \subseteq Sids
    /\ overrun \subseteq Sids
    /\ dead \subseteq Sids
    /\ under \in [Sids -> SUBSET Procs]

Init ==
    /\ now = 0
    /\ store = [s \in Sids |-> None]
    /\ lock = [s \in Sids |-> None]
    /\ states = {}
    /\ spent = {}
    /\ call = [p \in Procs |-> Idle]
    /\ live = [s \in Sids |-> 0]
    /\ issued = [s \in Sids |-> 0]
    /\ origin = [s \in Sids |-> None]
    /\ lost = {}
    /\ overrun = {}
    /\ dead = {}
    /\ under = [s \in Sids |-> {}]

TooOld(sess)     == now > sess.created + HardTTL
NearExpiry(sess) == sess.expiry < now + Margin
Usable(s)        == store[s] # None /\ ~TooOld(store[s])

Goto(p, step) == call' = [call EXCEPT ![p].at = step]
Done(p)       == call' = [call EXCEPT ![p] = Idle]

\* Store.Delete: the DEL of the session; every caller ignores an error of it.
Drop(s) == \E gone \in BOOLEAN : store' = [store EXCEPT ![s] = IF gone THEN None ELSE @]

-----------------------------------------------------------------------------
(***************************************************************************)
(* Login and Callback.                                                     *)
(***************************************************************************)
Login(st) ==
    /\ st \notin spent
    /\ spent' = spent \cup {st}
    /\ states' = states \cup {st}
    /\ UNCHANGED <<now, store, lock, call, identity, origin, lost, overrun, dead, under>>

\* LoadState, with the DEL of the state left to its TTL.
LoadState(p, st) ==
    /\ call[p] = Idle
    /\ st \in states
    /\ call' = [call EXCEPT ![p] = [at |-> "exchange", state |-> st]]
    /\ UNCHANGED <<now, redis, identity, history>>

\* LoadAndDeleteState: GET and DEL in one Lua script.
LoadAndDeleteState(p, st) ==
    /\ call[p] = Idle
    /\ st \in states
    /\ states' = states \ {st}
    /\ call' = [call EXCEPT ![p] = [at |-> "exchange", state |-> st]]
    /\ UNCHANGED <<now, store, lock, identity, history>>

\* The code is exchanged for the first tokens of a new login; Callback then
\* makes a session of them under a fresh id.
Exchange(p) ==
    /\ call[p].at = "exchange"
    /\ \E s \in Sids :
          /\ issued[s] = 0
          /\ \A older \in 1..(s - 1) : issued[older] # 0
          /\ issued' = [issued EXCEPT ![s] = 1]
          /\ live' = [live EXCEPT ![s] = 1]
          /\ origin' = [origin EXCEPT ![s] = [state |-> call[p].state, at |-> now]]
          /\ call' = [call EXCEPT ![p] =
                [at |-> "store", state |-> call[p].state, sid |-> s,
                 sess |-> [token |-> 1, expiry |-> now + AccessTTL, created |-> now]]]
    /\ UNCHANGED <<now, redis, spent, lost, overrun, dead, under>>

StoreSession(p) ==
    /\ call[p].at = "store"
    /\ store' = [store EXCEPT ![call[p].sid] = call[p].sess]
    /\ Done(p)
    /\ UNCHANGED <<now, lock, states, identity, history>>

-----------------------------------------------------------------------------
(***************************************************************************)
(* Auth and refreshTokens.                                                 *)
(***************************************************************************)

\* Load: a session that is missing or past its hard age (then it is deleted) is
\* answered 401.  One whose access token is about to expire is refreshed.
Load(p, s) ==
    /\ call[p] = Idle
    /\ IF Usable(s)
       THEN /\ call' = [call EXCEPT ![p] =
                  [at |-> IF NearExpiry(store[s]) THEN "lock" ELSE "serve",
                   sid |-> s, sess |-> store[s], loaded |-> now, then |-> "serve"]]
            /\ UNCHANGED store
       ELSE /\ IF store[s] = None THEN UNCHANGED store ELSE Drop(s)
            /\ UNCHANGED call
    /\ UNCHANGED <<now, lock, states, identity, history>>

\* The second check of the expiry looks at the copy loaded before the lock.
AfterLock(sess) == IF NearExpiry(sess) THEN "refresh" ELSE "release"

\* A SET without NX: the lock is always acquired.
AcquireAlways(p) ==
    /\ call[p].at = "lock"
    /\ lock' = [lock EXCEPT ![call[p].sid] = p]
    /\ Goto(p, AfterLock(call[p].sess))
    /\ UNCHANGED <<now, store, states, identity, history>>

\* AcquireRefreshLock: SET NX EX.
AcquireRefreshLock(p) ==
    LET s == call[p].sid IN
    /\ call[p].at = "lock"
    /\ IF lock[s] = None
       THEN /\ lock' = [lock EXCEPT ![s] = p]
            /\ Goto(p, AfterLock(call[p].sess))
       ELSE /\ Goto(p, "wait")
            /\ UNCHANGED lock
    /\ UNCHANGED <<now, store, states, identity, history>>

\* Another request holds the lock: sleep, then take what is in Redis, as it is.
Reload(p) ==
    LET s == call[p].sid IN
    /\ call[p].at = "wait"
    /\ call' = [call EXCEPT ![p] =
          IF Usable(s) THEN [@ EXCEPT !.at = "serve", !.sess = store[s], !.loaded = now]
          ELSE [@ EXCEPT !.at = "reject"]]
    /\ IF store[s] = None \/ Usable(s) THEN UNCHANGED store ELSE Drop(s)
    /\ UNCHANGED <<now, lock, states, identity, history>>

\* identity-service accepts the refresh token of the loaded session: it is
\* replaced, and the BFF receives the new one.
RefreshAccepted(p) ==
    LET s == call[p].sid IN
    /\ call[p].at = "refresh"
    /\ call[p].sess.token = live[s]
    /\ issued[s] < MaxTokens
    /\ issued' = [issued EXCEPT ![s] = @ + 1]
    /\ live' = [live EXCEPT ![s] = issued[s] + 1]
    /\ call' = [call EXCEPT ![p].at = "save",
                            ![p].sess.token = issued[s] + 1,
                            ![p].sess.expiry = now + AccessTTL]
    /\ UNCHANGED <<now, redis, history>>

\* ... or the answer is lost on the way: for the BFF the refresh has failed.
RefreshAnswerLost(p) ==
    LET s == call[p].sid IN
    /\ call[p].at = "refresh"
    /\ call[p].sess.token = live[s]
    /\ issued[s] < MaxTokens
    /\ issued' = [issued EXCEPT ![s] = @ + 1]
    /\ live' = [live EXCEPT ![s] = issued[s] + 1]
    /\ lost' = lost \cup {s}
    /\ call' = [call EXCEPT ![p].at = "release", ![p].then = "reject"]
    /\ UNCHANGED <<now, redis, spent, origin, overrun, dead, under>>

\* ... or the token is refused: it was used before or revoked.
RefreshRefused(p) ==
    /\ call[p].at = "refresh"
    /\ call[p].sess.token # live[call[p].sid]
    /\ call' = [call EXCEPT ![p].at = "release", ![p].then = "reject"]
    /\ UNCHANGED <<now, redis, identity, history>>

\* A refresh that fails and goes on with the session it has loaded.
RefreshFailsOpen(p) ==
    /\ call[p].at = "refresh"
    /\ Goto(p, "save")
    /\ UNCHANGED <<now, redis, identity, history>>

\* ... or the call fails before it reaches identity-service.
RefreshCallFails(p) ==
    /\ call[p].at = "refresh"
    /\ call' = [call EXCEPT ![p].at = "release", ![p].then = "reject"]
    /\ UNCHANGED <<now, redis, identity, history>>

\* Save that keeps the refresh token it had.
SaveOldToken(p) ==
    LET s == call[p].sid IN
    /\ call[p].at = "save"
    /\ store[s] # None
    /\ store' = [store EXCEPT ![s].expiry = call[p].sess.expiry]
    /\ Goto(p, "release")
    /\ UNCHANGED <<now, lock, states, identity, history>>

\* Save that starts the age of the session anew.
SaveAsNew(p) ==
    LET s == call[p].sid IN
    /\ call[p].at = "save"
    /\ store' = [store EXCEPT ![s] = [call[p].sess EXCEPT !.created = now]]
    /\ Goto(p, "release")
    /\ UNCHANGED <<now, lock, states, identity, history>>

\* Save: an unconditional SET, whatever has become of the key.  If the session was
\* logged out while p was about to refresh it, it is back.
Save(p) ==
    LET s == call[p].sid IN
    /\ call[p].at = "save"
    /\ store' = [store EXCEPT ![s] = call[p].sess]
    /\ dead' = IF p \in under[s] THEN dead \ {s} ELSE dead
    /\ Goto(p, "release")
    /\ UNCHANGED <<now, lock, states, identity, spent, origin, lost, overrun, under>>

SaveFails(p) ==
    /\ call[p].at = "save"
    /\ call' = [call EXCEPT ![p].at = "release", ![p].then = "fail"]
    /\ lost' = lost \cup {call[p].sid}
    /\ UNCHANGED <<now, redis, identity, spent, origin, overrun, dead, under>>

\* The deferred ReleaseRefreshLock: DEL, whoever has set the key; an error of it
\* is ignored.
ReleaseRefreshLock(p) ==
    /\ call[p].at = "release"
    /\ \E gone \in BOOLEAN :
          lock' = [lock EXCEPT ![call[p].sid] = IF gone THEN None ELSE @]
    /\ IF call[p].then = "fail" THEN Done(p) ELSE Goto(p, call[p].then)
    /\ UNCHANGED <<now, store, states, identity, history>>

\* ErrRefreshFailed: the session is deleted and the answer is 401.
Reject(p) ==
    /\ call[p].at = "reject"
    /\ Drop(call[p].sid)
    /\ Done(p)
    /\ UNCHANGED <<now, lock, states, identity, history>>

-----------------------------------------------------------------------------
(***************************************************************************)
(* The handlers behind Auth.                                               *)
(***************************************************************************)

\* A handler that writes the session back, say to note when it was last active.
ServeAndTouch(p) ==
    /\ call[p].at = "serve"
    /\ store' = [store EXCEPT ![call[p].sid] = call[p].sess]
    /\ Done(p)
    /\ UNCHANGED <<now, lock, states, identity, history>>

\* Profile, providers, the list of sessions, RevokeAllOthers: nothing of the
\* BFF's own changes.
Serve(p) ==
    /\ call[p].at = "serve"
    /\ Done(p)
    /\ UNCHANGED <<now, redis, identity, history>>

Logout(p) ==
    /\ call[p].at = "serve"
    /\ Goto(p, "delete")
    /\ UNCHANGED <<now, redis, identity, history>>

\* SessionsHandler.Revoke of the current session: identity-service removes its
\* refresh token, then the BFF deletes its own session.
RevokeCurrent(p) ==
    /\ call[p].at = "serve"
    /\ live' = [live EXCEPT ![call[p].sid] = 0]
    /\ Goto(p, "delete")
    /\ UNCHANGED <<now, redis, issued, history>>

\* q has loaded s and may refresh it.
UnderWay(q, s) == call[q].at \in {"lock", "refresh", "save"} /\ call[q].sid = s

Delete(p) ==
    LET s == call[p].sid IN
    /\ call[p].at = "delete"
    /\ Drop(s)
    /\ IF store'[s] = None
       THEN /\ dead' = dead \cup {s}
            /\ under' = [under EXCEPT ![s] = {q \in Procs : UnderWay(q, s)}]
       ELSE UNCHANGED <<dead, under>>
    /\ Done(p)
    /\ UNCHANGED <<now, lock, states, identity, spent, origin, lost, overrun>>

\* Me is not behind Auth: it loads the session, and refreshes nothing.
Me(s) ==
    /\ store[s] # None /\ TooOld(store[s])
    /\ Drop(s)
    /\ UNCHANGED <<now, lock, states, call, identity, history>>

-----------------------------------------------------------------------------
(***************************************************************************)
(* The environment.                                                        *)
(***************************************************************************)

\* end_session, a revocation from another device, the end of its lifetime.
RevokedElsewhere(s) ==
    /\ live[s] # 0
    /\ live' = [live EXCEPT ![s] = 0]
    /\ UNCHANGED <<now, redis, call, issued, history>>

\* Redis drops a session that was idle for too long, or a state.
SessionExpires(s) ==
    /\ store[s] # None
    /\ store' = [store EXCEPT ![s] = None]
    /\ UNCHANGED <<now, lock, states, call, identity, history>>

StateExpires(st) ==
    /\ states' = states \ {st}
    /\ UNCHANGED <<now, store, lock, call, identity, history>>

\* Between acquire and release.
Refreshing(p, s) ==
    call[p].at \in {"refresh", "save", "release"} /\ call[p].sid = s

\* The lock's TTL passes: after its holder has died or while it still waits for
\* an answer of identity-service.
LockExpires(s) ==
    /\ lock[s] # None
    /\ lock' = [lock EXCEPT ![s] = None]
    /\ overrun' = overrun \cup IF \E p \in Procs : Refreshing(p, s) THEN {s} ELSE {}
    /\ UNCHANGED <<now, store, states, call, identity, spent, origin, lost, dead, under>>

\* A Redis error, a panic or a crash of the BFF ends a request; the lock stays
\* if the deferred release did not run.
Crash(p) ==
    /\ call[p] # Idle
    /\ lost' = lost \cup IF call[p].at = "save" THEN {call[p].sid} ELSE {}
    /\ Done(p)
    /\ UNCHANGED <<now, redis, identity, spent, origin, overrun, dead, under>>

Tick ==
    /\ now < MaxTime
    /\ now' = now + 1
    /\ UNCHANGED <<redis, call, identity, history>>

Handle(p) ==
    \/ Exchange(p) \/ StoreSession(p)
    \/ AcquireRefreshLock(p) \/ Reload(p)
    \/ RefreshAccepted(p) \/ RefreshAnswerLost(p) \/ RefreshRefused(p)
    \/ RefreshCallFails(p)
    \/ Save(p) \/ SaveFails(p) \/ ReleaseRefreshLock(p) \/ Reject(p)
    \/ Serve(p) \/ Logout(p) \/ RevokeCurrent(p) \/ Delete(p)

Environment ==
    \/ \E s \in Sids : RevokedElsewhere(s) \/ SessionExpires(s) \/ LockExpires(s)
    \/ \E st \in states : StateExpires(st)
    \/ \E p \in Procs : Crash(p)
    \/ Tick

Next ==
    \/ \E st \in States : Login(st)
    \/ \E p \in Procs, st \in States : LoadAndDeleteState(p, st)
    \/ \E p \in Procs, s \in Sids : Load(p, s)
    \/ \E s \in Sids : Me(s)
    \/ \E p \in Procs : Handle(p)
    \/ Environment

Spec == Init /\ [][Next]_vars

-----------------------------------------------------------------------------
(***************************************************************************)
(* Properties.                                                             *)
(***************************************************************************)

\* The session in Redis holds the refresh token identity-service accepts,
\* however many requests refresh it, log out or crash, unless the login was
\* revoked, the new token is about to be saved or it was lost on the way: a
\* request never writes back a token older than the one it found.
StoredTokenIsCurrent ==
    \A s \in Sids :
        store[s] # None =>
            \/ store[s].token = live[s]
            \/ live[s] = 0
            \/ s \in lost
            \/ \E p \in Procs : /\ call[p].at = "save"
                                /\ call[p].sid = s
                                /\ call[p].sess.token = live[s]

\* No request is served from a session that was older than HardTTL when it was
\* loaded: refreshes do not extend the hard maximum of a login.
HardMaximum ==
    \A p \in Procs :
        call[p].at = "serve" => call[p].loaded <= origin[call[p].sid].at + HardTTL

\* A login is completed at most once per OIDC state, though the callback may be
\* called twice: the BFF never offers the same code to identity-service twice.
StateSingleUse ==
    \A s, t \in Sids :
        origin[s] # None /\ origin[t] # None /\ origin[s].state = origin[t].state
            => s = t

\* At most one request per session is between acquire and release, whatever
\* crashes or fails to release, as long as no refresh of the session has
\* outlasted the lock's TTL.  (After one has, its release deletes a lock that
\* another request holds by then: ReleaseRefreshLock does not look whose it is.)
SerializedRefresh ==
    \A s \in Sids \ overrun, p, q \in Procs :
        Refreshing(p, s) /\ Refreshing(q, s) => p = q

\* A session its user has logged out, or revoked from itself, is gone: no request
\* that loads it, serves it or waits for its lock afterwards brings it back.  Only
\* one that was already about to refresh it when it was deleted can: Save sets the
\* key whether or not it is there.
LogoutIsFinal ==
    \A s \in dead : store[s] = None

\* Every session written to Redis has the newest refresh token identity-service has
\* issued for its login: two saves never come in the other order than their tokens,
\* also when the lock expires under the first of two refreshes, an answer is lost or
\* the login is revoked, and no request writes back the copy it has loaded.
NewestIsSaved ==
    [][\A s \in Sids :
          store'[s] # None /\ store'[s] # store[s] => store'[s].token = issued[s]]_vars

\* What the proofs add.  A session id belongs to one login, whose time its session
\* and every request that has loaded it remember; what they hold are tokens of it.
Holds(p, s) == call[p].at \in Steps \cup {"store"} /\ call[p].sid = s

OfLogin(sess, s) ==
    /\ origin[s] # None
    /\ sess.created = origin[s].at
    /\ sess.token \in 1..issued[s]

SessionsKnowTheirLogin ==
    \A s \in Sids :
        /\ (origin[s] = None <=> issued[s] = 0) /\ live[s] <= issued[s]
        /\ store[s] # None => OfLogin(store[s], s)
        /\ \A p \in Procs : Holds(p, s) => OfLogin(call[p].sess, s)
        /\ s \in dead => origin[s] # None

LoadedInTime ==
    \A p \in Procs :
        call[p].at \in Steps => call[p].loaded <= call[p].sess.created + HardTTL

\* A new session is its login's alone until it is stored, with the token that counts.
StoredOnce ==
    \A p \in Procs :
        call[p].at = "store" =>
            LET s == call[p].sid IN
            /\ store[s] = None
            /\ (live[s] = 0 \/ call[p].sess.token = live[s])
            /\ \A q \in Procs \ {p} : ~Holds(q, s)

\* A token about to be saved is nowhere else, and the one that counts.
SavedOnce ==
    \A p \in Procs :
        call[p].at = "save" =>
            LET s == call[p].sid
                token == call[p].sess.token
            IN /\ (live[s] = 0 \/ token = live[s])
               /\ store[s] # None => store[s].token # token
               /\ \A q \in Procs \ {p} : Holds(q, s) => call[q].sess.token # token

LockHolders ==
    \A s \in Sids \ overrun, p \in Procs : Refreshing(p, s) => lock[s] = p

\* A state is in Redis, in the hands of one callback, or behind one login.
StatesAreSpent ==
    /\ states \subseteq spent
    /\ \A s \in Sids : origin[s] # None => origin[s].state \in spent \ states
    /\ \A p \in Procs : call[p].at = "exchange" =>
          /\ call[p].state \in spent \ states
          /\ \A s \in Sids : origin[s] # None => origin[s].state # call[p].state
          /\ \A q \in Procs \ {p} : call[q].at = "exchange" => call[q].state # call[p].state

DeadStaysDead ==
    \A s \in dead :
        /\ store[s] = None
        /\ \A p \in Procs : /\ UnderWay(p, s) => p \in under[s]
                            /\ ~(call[p].at = "store" /\ call[p].sid = s)

\* A token about to be stored is the last one issued.
NewestHeld ==
    \A p \in Procs :
        call[p].at \in {"save", "store"} => call[p].sess.token = issued[call[p].sid]

IInv ==
    /\ TypeOK
    /\ SessionsKnowTheirLogin
    /\ LoadedInTime
    /\ StoredOnce
    /\ SavedOnce
    /\ LockHolders
    /\ StatesAreSpent
    /\ StateSingleUse
    /\ DeadStaysDead
    /\ StoredTokenIsCurrent
    /\ NewestHeld

(***************************************************************************)
(* Stated by the design notes, refuted by the code.                        *)
(***************************************************************************)

\* The lock "prevents the second caller from receiving an invalid refresh token
\* error" (.llm/archive/015_research.md:720): a refresh is refused only if the
\* login was revoked or a new token was lost.
NoStaleRefresh ==
    [][\A p \in Procs :
          RefreshRefused(p) => \/ live[call[p].sid] = 0
                               \/ call[p].sid \in lost]_vars

\* "POST /api/v1/auth/logout -> delete session" (.llm/archive/015_research.md:539):
\* what was logged out is not there again.
LogoutDeletes == [][dead \subseteq dead']_vars
=============================================================================
