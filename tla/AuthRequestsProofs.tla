------------------------- MODULE AuthRequestsProofs -------------------------
(***************************************************************************)
(* Proofs about AuthRequests: whom tokens are issued to, codes that are    *)
(* spent, and a cleanup that spares what is still valid, for any number of *)
(* users, concurrent requests, keys and changes of the environment.        *)
(***************************************************************************)
EXTENDS AuthRequests, TLAPS

-----------------------------------------------------------------------------
(***************************************************************************)
(* The records of calls and rows.                                          *)
(***************************************************************************)

\* What a call record holds, by the step it is at.
LEMMA CallFields ==
    ASSUME NEW c \in Call
    PROVE  /\ c.at \in {"idle", "saveCode", "exchange", "delete"}
           /\ c.at # "idle" => c.id \in Ids
           /\ c.at = "exchange" => c.user \in Users /\ c.ds \in Users
           /\ c.at = "idle" <=> c = Idle
BY DEF Call, Idle

\* The call records that the handlers build.
LEMMA NewCalls ==
    ASSUME NEW id \in Ids
    PROVE  /\ \A a \in {"saveCode", "delete"} : [at |-> a, id |-> id] \in Call
           /\ \A u, d \in Users : [at |-> "exchange", id |-> id, user |-> u, ds |-> d] \in Call
BY DEF Call

LEMMA IdleCall == Idle \in Call /\ Idle.at = "idle"
BY DEF Call, Idle

-----------------------------------------------------------------------------
LEMMA InitIInv == Init => IInv
BY AuthRequestsAssumption, IdleCall
   DEF Init, IInv, TypeOK, MintedIds, RowsKnowTheirLogin, LoginsKnowTheirState, SentBy,
       CallsKnowTheirRow, KnowsItsRow, CutoffIsPast, IssuedForItsLogin, AnsweredCodeIsSpent,
       Environment

-----------------------------------------------------------------------------
(***************************************************************************)
(* Steps that at most remove rows.                                         *)
(***************************************************************************)

\* Time does not bring an expired request back.
LEMMA ExpiredForEver ==
    ASSUME TypeOK, now' \in Nat, now <= now', NEW r \in requests, Expired(r)
    PROVE  Expired(r)'
BY AuthRequestsAssumption DEF TypeOK, AuthRequest, Expired

\* A call that ends, or goes to a step for which it knows enough, keeps the
\* invariant while rows are at most removed and time at most passes.
LEMMA CallStep ==
    ASSUME IInv, TypeOK',
           requests' \subseteq requests,
           now <= now', nextId' = nextId, logins' = logins, states \subseteq states',
           \A id \in answered' : id < nextId /\ \A r \in requests' : r.id # id,
           \A p \in Procs : \/ call'[p] = call[p]
                            \/ call'[p] = Idle
                            \/ call'[p].id < nextId /\ KnowsItsRow(call'[p]),
           CutoffIsPast', IssuedForItsLogin'
    PROVE  IInv'
<1>1. MintedIds'
    BY DEF IInv, MintedIds
<1>2. RowsKnowTheirLogin'
    BY ExpiredForEver DEF IInv, TypeOK, RowsKnowTheirLogin, LoginInTime
<1>3. CallsKnowTheirRow'
    <2> SUFFICES ASSUME NEW p \in Procs
                 PROVE  KnowsItsRow(call[p])'
        BY DEF CallsKnowTheirRow
    <2>1. KnowsItsRow(call'[p])
        BY DEF IInv, CallsKnowTheirRow, KnowsItsRow, Idle
    <2> QED
        BY <2>1 DEF KnowsItsRow, LoginInTime
<1>4. AnsweredCodeIsSpent' /\ LoginsKnowTheirState'
    BY DEF AnsweredCodeIsSpent, IInv, LoginsKnowTheirState, SentBy
<1> QED
    BY <1>1, <1>2, <1>3, <1>4 DEF IInv

\* A call reads or writes no row, or ends.
LEMMA OwnCallStep ==
    ASSUME IInv, NEW p \in Procs, NEW c \in Call,
           call' = [call EXCEPT ![p] = c],
           c = Idle \/ (c.id < nextId /\ KnowsItsRow(c)),
           redeemed' \subseteq [id : Ids, user : Users, ds : Users], IssuedForItsLogin',
           UNCHANGED <<now, env, deploys, states, requests, sweep, nextId, nextCode,
                       logins, answered>>
    PROVE  IInv'
<1>1. TypeOK' /\ CutoffIsPast'
    BY DEF IInv, TypeOK, CutoffIsPast
<1>2. \A q \in Procs : call'[q] = IF q = p THEN c ELSE call[q]
    BY DEF IInv, TypeOK
<1>3. now <= now'
    BY DEF IInv, TypeOK
<1>4. \A id \in answered : id < nextId /\ \A r \in requests : r.id # id
    BY DEF IInv, MintedIds, AnsweredCodeIsSpent
<1> QED
    BY <1>1, <1>2, <1>3, <1>4, CallStep

\* AuthRequestByID: a request that is done stays done.
LEMMA ByIDStep ==
    ASSUME IInv, NEW p \in Procs, NEW id \in 1..(nextId - 1), AuthRequestByID(p, id)
    PROVE  IInv'
<1> DEFINE c == [at |-> "saveCode", id |-> id]
<1>1. PICK r \in requests : r.id = id /\ r.done
    BY DEF AuthRequestByID
<1>2. c \in Call
    BY <1>1, NewCalls DEF IInv, TypeOK, AuthRequest
<1>3. c.id < nextId
    BY DEF IInv, TypeOK
<1>4. KnowsItsRow(c)
    BY <1>1 DEF KnowsItsRow, IInv, MintedIds
<1>5. /\ call' = [call EXCEPT ![p] = c]
      /\ redeemed' \subseteq [id : Ids, user : Users, ds : Users] /\ IssuedForItsLogin'
      /\ UNCHANGED <<now, env, deploys, states, requests, sweep, nextId, nextCode,
                     logins, answered>>
    BY DEF AuthRequestByID, Go, service, minted, history, IInv, TypeOK, IssuedForItsLogin, SentBy
<1> QED
    BY <1>2, <1>3, <1>4, <1>5, OwnCallStep

\* AuthRequestByCode: the row was completed, and it has not expired.
LEMMA ByCodeStep ==
    ASSUME IInv, NEW p \in Procs, NEW code \in 1..(nextCode - 1), AuthRequestByCode(p, code)
    PROVE  IInv'
<1>1. PICK r \in requests :
        /\ r.code = code
        /\ ~Expired(r)
        /\ call' = [call EXCEPT ![p] = [at |-> "exchange", id |-> r.id,
                                        user |-> r.user, ds |-> r.ds]]
    BY DEF AuthRequestByCode, Go
<1> DEFINE c == [at |-> "exchange", id |-> r.id, user |-> r.user, ds |-> r.ds]
<1>2. r.done
    BY <1>1 DEF IInv, RowsKnowTheirLogin, Null
<1>3. r.id \in Ids /\ r.id < nextId
    BY DEF IInv, TypeOK, AuthRequest, MintedIds
<1>4. LoginInTime(r.id, r.user, r.ds)
    BY <1>1, <1>2 DEF IInv, RowsKnowTheirLogin
<1>5. c \in Call
    BY <1>3, <1>4, NewCalls DEF LoginInTime
<1>6. KnowsItsRow(c)
    BY <1>4 DEF KnowsItsRow
<1>7. /\ redeemed' \subseteq [id : Ids, user : Users, ds : Users] /\ IssuedForItsLogin'
      /\ UNCHANGED <<now, env, deploys, states, requests, sweep, nextId, nextCode,
                     logins, answered>>
    BY DEF AuthRequestByCode, service, minted, history, IInv, TypeOK, IssuedForItsLogin, SentBy
<1> QED
    BY <1>1, <1>3, <1>5, <1>6, <1>7, OwnCallStep

\* Exchange: tokens for what the call has read.
LEMMA ExchangeStep ==
    ASSUME IInv, NEW p \in Procs, Exchange(p)
    PROVE  IInv'
<1> DEFINE q == call[p]
           c == [at |-> "delete", id |-> q.id]
<1>1. q \in Call /\ q.at = "exchange" /\ q # Idle
    BY CallFields DEF IInv, TypeOK, Exchange
<1>2. q.id \in Ids /\ q.user \in Users /\ q.ds \in Users /\ q.id < nextId
    BY <1>1, CallFields DEF IInv, MintedIds
<1>3. LoginInTime(q.id, q.user, q.ds)
    BY <1>1 DEF IInv, CallsKnowTheirRow, KnowsItsRow
<1>4. c \in Call
    BY <1>2, NewCalls
<1>5. KnowsItsRow(c)
    BY DEF KnowsItsRow
<1>6. /\ call' = [call EXCEPT ![p] = c]
      /\ redeemed' = redeemed \cup {[id |-> q.id, user |-> q.user, ds |-> q.ds]}
      /\ UNCHANGED <<now, env, deploys, states, requests, sweep, nextId, nextCode,
                     logins, answered>>
    BY DEF Exchange, Go, service, minted
<1>7. redeemed' \subseteq [id : Ids, user : Users, ds : Users]
    BY <1>2, <1>6 DEF IInv, TypeOK
<1>8. IssuedForItsLogin'
    <2> SUFFICES ASSUME NEW g \in redeemed'
                 PROVE  /\ g.ds = g.user
                        /\ \E l \in logins : l.id = g.id /\ l.user = g.user /\ SentBy(l)
        BY <1>6 DEF IssuedForItsLogin, SentBy
    <2>1. CASE g \in redeemed
        BY <1>6, <2>1 DEF IInv, IssuedForItsLogin, SentBy
    <2>2. CASE g = [id |-> q.id, user |-> q.user, ds |-> q.ds]
        BY <1>3, <2>2 DEF LoginInTime, IInv, LoginsKnowTheirState
    <2> QED
        BY <1>6, <2>1, <2>2
<1> QED
    BY <1>2, <1>4, <1>5, <1>6, <1>7, <1>8, OwnCallStep

LEMMA FailStep ==
    ASSUME IInv, NEW p \in Procs, Fail(p)
    PROVE  IInv'
<1> DEFINE c == Idle
<1>1. /\ call' = [call EXCEPT ![p] = c]
      /\ redeemed' \subseteq [id : Ids, user : Users, ds : Users] /\ IssuedForItsLogin'
      /\ UNCHANGED <<now, env, deploys, states, requests, sweep, nextId, nextCode,
                     logins, answered>>
    BY DEF Fail, Done, service, minted, history, IInv, TypeOK, IssuedForItsLogin, SentBy
<1> QED
    BY <1>1, IdleCall, OwnCallStep

\* DeleteAuthRequest: the request is gone when it is answered.
LEMMA DeleteStep ==
    ASSUME IInv, NEW p \in Procs, DeleteAuthRequest(p)
    PROVE  IInv'
<1>1. call[p] \in Call /\ call[p].id \in Ids /\ call[p].id < nextId
    BY CallFields, IdleCall DEF IInv, TypeOK, DeleteAuthRequest, MintedIds
<1>2. /\ call' = [call EXCEPT ![p] = Idle]
      /\ requests' = {r \in requests : r.id # call[p].id}
      /\ answered' = answered \cup {call[p].id}
      /\ UNCHANGED <<now, env, deploys, states, sweep, nextId, nextCode, logins, redeemed>>
    BY DEF DeleteAuthRequest, Done, service, minted
<1>3. TypeOK' /\ CutoffIsPast' /\ IssuedForItsLogin'
    BY <1>1, <1>2, IdleCall DEF IInv, TypeOK, CutoffIsPast, IssuedForItsLogin, SentBy
<1>4. \A id \in answered' : id < nextId /\ \A r \in requests' : r.id # id
    BY <1>1, <1>2 DEF IInv, MintedIds, AnsweredCodeIsSpent
<1>5. now <= now' /\ \A q \in Procs : call'[q] = call[q] \/ call'[q] = Idle
    BY <1>2 DEF IInv, TypeOK
<1> QED
    BY <1>2, <1>3, <1>4, <1>5, CallStep

\* The cleanup loop, time, a restart, and the redirect to a provider.
LEMMA EnvironmentStep ==
    ASSUME IInv,
           \/ StartSweep \/ Sweep \/ SweepFails \/ Tick
           \/ \E id \in 1..(nextId - 1), provider \in Providers : FederatedRedirect(id, provider)
           \/ \E key \in CryptoKeys, providers \in SUBSET Providers : Redeploy(key, providers)
    PROVE  IInv'
<1>1. /\ requests' \subseteq requests
      /\ now' \in Nat /\ now <= now'
      /\ UNCHANGED <<nextId, nextCode, logins, redeemed, answered>>
      /\ call' \in [Procs -> Call]
      /\ \A q \in Procs : call'[q] = call[q] \/ call'[q] = Idle
      /\ states \subseteq states'
    BY IdleCall
       DEF IInv, TypeOK, StartSweep, Sweep, SweepFails, Tick, FederatedRedirect, Redeploy,
           minted, history, service
<1>2. TypeOK'
    <2>1. states' \subseteq LoginState
        <3>1. CASE \E id \in 1..(nextId - 1), provider \in Providers : FederatedRedirect(id, provider)
            BY <3>1, AuthRequestsAssumption DEF IInv, TypeOK, FederatedRedirect, Ids, LoginState, Environment
        <3>2. CASE states' = states
            BY <3>2 DEF IInv, TypeOK
        <3> QED
            BY <3>1, <3>2 DEF StartSweep, Sweep, SweepFails, Tick, Redeploy, service
    <2>2. env' \in Environment /\ deploys' \in 0..MaxDeploys
        BY AuthRequestsAssumption
           DEF IInv, TypeOK, StartSweep, Sweep, SweepFails, Tick, FederatedRedirect, Redeploy,
               service, Environment
    <2>3. sweep' \in {NoSweep} \cup [cutoffFrom : Nat]
        BY DEF IInv, TypeOK, StartSweep, Sweep, SweepFails, Tick, FederatedRedirect, Redeploy
    <2> QED
        BY <1>1, <2>1, <2>2, <2>3 DEF IInv, TypeOK
<1>3. CutoffIsPast'
    BY DEF IInv, TypeOK, CutoffIsPast, StartSweep, Sweep, SweepFails, Tick, FederatedRedirect,
           Redeploy
<1>4. IssuedForItsLogin'
    BY <1>1 DEF IInv, IssuedForItsLogin, SentBy
<1>5. \A id \in answered' : id < nextId /\ \A r \in requests' : r.id # id
    BY <1>1 DEF IInv, MintedIds, AnsweredCodeIsSpent
<1> QED
    BY <1>1, <1>2, <1>3, <1>4, <1>5, CallStep

-----------------------------------------------------------------------------
(***************************************************************************)
(* Steps that add or change rows.                                          *)
(***************************************************************************)

\* CreateAuthRequest: the id is one no row, call or answer has.
LEMMA CreateStep ==
    ASSUME IInv, CreateAuthRequest
    PROVE  IInv'
<1> DEFINE new == [id |-> nextId, created |-> now, done |-> FALSE, user |-> Null,
                   ds |-> Null, code |-> Null]
<1>1. /\ requests' = requests \cup {new}
      /\ nextId' = nextId + 1
      /\ UNCHANGED <<now, env, deploys, states, call, sweep, nextCode, logins, redeemed, answered>>
    BY DEF CreateAuthRequest, service, history
<1>2. nextId \in Ids /\ nextId' \in 1..(MaxRequests + 1)
    BY <1>1, AuthRequestsAssumption DEF CreateAuthRequest, IInv, TypeOK, Ids
<1>3. new \in AuthRequest
    BY <1>2 DEF AuthRequest, IInv, TypeOK
<1>4. TypeOK' /\ CutoffIsPast' /\ IssuedForItsLogin'
    BY <1>1, <1>2, <1>3 DEF IInv, TypeOK, CutoffIsPast, IssuedForItsLogin, SentBy
<1>5. MintedIds'
    <2>1. \A r \in requests : r.id \in Nat /\ r.id < nextId
        BY DEF IInv, TypeOK, MintedIds, AuthRequest, Ids
    <2>2. \A r \in requests' : r.id < nextId'
        BY <1>1, <1>2, <2>1 DEF Ids
    <2>3. \A id \in answered' : id < nextId'
        BY <1>1, <1>2 DEF IInv, TypeOK, MintedIds, Ids
    <2>4. \A p \in Procs : call'[p] # Idle => call'[p].id < nextId'
        BY <1>1, <1>2, CallFields, IdleCall DEF IInv, TypeOK, MintedIds, Ids
    <2>5. \A r, q \in requests' : r.id = q.id => r = q
        <3>1. \A r \in requests : r.id # new.id
            BY <2>1
        <3> QED
            BY <1>1, <3>1 DEF IInv, MintedIds
    <2> QED
        BY <2>2, <2>3, <2>4, <2>5 DEF MintedIds
<1>6. RowsKnowTheirLogin'
    <2>1. ~new.done /\ new.code = Null
        OBVIOUS
    <2>2. \A r \in requests :
             /\ r.done => /\ r.user \in Users /\ r.ds = r.user
                          /\ LoginInTime(r.id, r.user, r.ds)' \/ Expired(r)'
             /\ r.code # Null => r.done
        BY <1>1 DEF IInv, RowsKnowTheirLogin, LoginInTime, Expired
    <2> HIDE DEF new
    <2> QED
        BY <1>1, <2>1, <2>2 DEF RowsKnowTheirLogin
<1>7. CallsKnowTheirRow'
    <2> SUFFICES ASSUME NEW p \in Procs PROVE KnowsItsRow(call[p])'
        BY DEF CallsKnowTheirRow
    <2>1. KnowsItsRow(call[p])
        BY DEF IInv, CallsKnowTheirRow
    <2>2. call[p].at = "saveCode" => call[p].id # nextId
        BY CallFields, IdleCall DEF IInv, TypeOK, MintedIds, Ids
    <2> QED
        BY <1>1, <2>1, <2>2 DEF KnowsItsRow, LoginInTime
<1>8. AnsweredCodeIsSpent'
    BY <1>1, <1>2 DEF IInv, TypeOK, AnsweredCodeIsSpent, MintedIds, Ids
<1>9. LoginsKnowTheirState'
    BY <1>1 DEF IInv, LoginsKnowTheirState, SentBy
<1> QED
    BY <1>4, <1>5, <1>6, <1>7, <1>8, <1>9 DEF IInv

\* An UPDATE by id: every row keeps its id, and what was done stays done.
LEMMA UpdateStep ==
    ASSUME IInv, TypeOK',
           \A w \in requests' : \E r \in requests : w.id = r.id /\ (r.done => w.done),
           \A w, v \in requests' : w.id = v.id => w = v,
           RowsKnowTheirLogin', LoginsKnowTheirState',
           logins \subseteq logins',
           \A p \in Procs : call'[p] = call[p] \/ call'[p] = Idle,
           UNCHANGED <<now, states, sweep, nextId, redeemed, answered>>
    PROVE  IInv'
<1>1. MintedIds'
    BY DEF IInv, MintedIds
<1>2. CallsKnowTheirRow'
    <2> SUFFICES ASSUME NEW p \in Procs PROVE KnowsItsRow(call[p])'
        BY DEF CallsKnowTheirRow
    <2>1. KnowsItsRow(call'[p])
        BY DEF IInv, CallsKnowTheirRow, KnowsItsRow, Idle
    <2>2. call'[p].at = "saveCode" => \A w \in requests' : w.id = call'[p].id => w.done
        BY <2>1 DEF KnowsItsRow, IInv, MintedIds
    <2>3. call'[p].at = "exchange" => LoginInTime(call[p].id, call[p].user, call[p].ds)'
        BY <2>1 DEF KnowsItsRow, LoginInTime
    <2> QED
        BY <2>2, <2>3 DEF KnowsItsRow
<1>3. CutoffIsPast' /\ IssuedForItsLogin' /\ AnsweredCodeIsSpent'
    BY DEF IInv, CutoffIsPast, IssuedForItsLogin, AnsweredCodeIsSpent, SentBy
<1> QED
    BY <1>1, <1>2, <1>3 DEF IInv

\* FederatedCallback: the login is recorded, in time or in a row that has expired.
LEMMA CallbackStep ==
    ASSUME IInv, NEW st \in states, NEW u \in Users, FederatedCallback(st, u)
    PROVE  IInv'
<1> DEFINE Completed(r) == [r EXCEPT !.done = TRUE, !.user = u, !.ds = u]
           login == [id |-> st.id, user |-> u, env |-> env]
<1>1. /\ requests' = {IF r.id # st.id THEN r ELSE Completed(r) : r \in requests}
      /\ logins' = logins \cup
           {login : r \in {q \in requests : q.id = st.id /\ ~Expired(q)}}
      /\ UNCHANGED <<now, env, deploys, states, call, sweep, nextId, nextCode, redeemed, answered>>
      /\ st.key = env.key /\ st.provider \in env.providers
    BY DEF FederatedCallback, CompleteLogin, Readable, service, minted
<1>2. \A r \in requests :
        LET w == Completed(r)
        IN  /\ w \in AuthRequest
            /\ w.id = r.id /\ w.created = r.created /\ w.code = r.code
            /\ w.done = TRUE /\ w.user = u /\ w.ds = u
    BY DEF IInv, TypeOK, AuthRequest
<1> HIDE DEF Completed
<1>0. login.id = st.id /\ login.user = u /\ login.env = env
    OBVIOUS
<1>3. \A w \in requests' : \E r \in requests :
         /\ w.id = r.id /\ (r.done => w.done)
         /\ w = IF r.id # st.id THEN r ELSE Completed(r)
    BY <1>1, <1>2
<1>4. \A w, v \in requests' : w.id = v.id => w = v
    BY <1>3 DEF IInv, MintedIds
<1>5. st.id \in Ids /\ logins \subseteq logins'
    BY <1>1 DEF IInv, TypeOK, LoginState
<1>6. TypeOK'
    <2>1. login \in Login
        BY <1>5 DEF Login, IInv, TypeOK
    <2> HIDE DEF login
    <2> QED
        BY <1>1, <1>2, <1>5, <2>1 DEF IInv, TypeOK
<1> HIDE DEF login
<1>7. LoginsKnowTheirState'
    BY <1>1, <1>0 DEF IInv, LoginsKnowTheirState, SentBy
<1>8. RowsKnowTheirLogin'
    <2> SUFFICES ASSUME NEW w \in requests'
                 PROVE  /\ w.done => /\ w.user \in Users /\ w.ds = w.user
                                     /\ LoginInTime(w.id, w.user, w.ds)' \/ Expired(w)'
                        /\ w.code # Null => w.done
        BY DEF RowsKnowTheirLogin
    <2>1. PICK r \in requests : w = IF r.id # st.id THEN r ELSE Completed(r)
        BY <1>3
    <2>2. CASE r.id # st.id
        BY <1>1, <2>1, <2>2 DEF IInv, RowsKnowTheirLogin, LoginInTime, Expired
    <2>3. CASE r.id = st.id
        <3>1. w.done /\ w.user = u /\ w.ds = u /\ w.id = st.id /\ w.created = r.created
            BY <1>2, <2>1, <2>3
        <3>2. ~Expired(r) => \E l \in logins' : l.id = st.id /\ l.user = u
            BY <1>1, <1>0, <2>3
        <3>3. Expired(r) => Expired(w)'
            BY <1>1, <3>1 DEF Expired
        <3> QED
            BY <3>1, <3>2, <3>3 DEF LoginInTime
    <2> QED
        BY <2>2, <2>3
<1> QED
    BY <1>1, <1>3, <1>4, <1>5, <1>6, <1>7, <1>8, UpdateStep

\* SaveAuthCode: only a request that is done gets a code.
LEMMA SaveCodeStep ==
    ASSUME IInv, NEW p \in Procs, SaveAuthCode(p)
    PROVE  IInv'
<1> DEFINE WithCode(r) == [r EXCEPT !.code = nextCode]
<1>1. /\ requests' = {IF r.id # call[p].id THEN r ELSE WithCode(r) : r \in requests}
      /\ nextCode' = nextCode + 1
      /\ call' = [call EXCEPT ![p] = Idle]
      /\ UNCHANGED <<now, env, deploys, states, sweep, nextId, logins, redeemed, answered>>
    BY DEF SaveAuthCode, Done, service, history
<1>2. nextCode \in Codes /\ nextCode' \in 1..(MaxCodes + 1)
    BY <1>1, AuthRequestsAssumption DEF SaveAuthCode, IInv, TypeOK, Codes
<1>3. \A r \in requests :
        LET w == WithCode(r)
        IN  /\ w \in AuthRequest
            /\ w.id = r.id /\ w.created = r.created /\ w.done = r.done
            /\ w.user = r.user /\ w.ds = r.ds /\ w.code = nextCode
    BY <1>2 DEF IInv, TypeOK, AuthRequest
<1> HIDE DEF WithCode
<1>4. \A w \in requests' : \E r \in requests :
         /\ w.id = r.id /\ (r.done => w.done)
         /\ w = IF r.id # call[p].id THEN r ELSE WithCode(r)
    BY <1>1, <1>3
<1>5. \A w, v \in requests' : w.id = v.id => w = v
    BY <1>4 DEF IInv, MintedIds
<1>6. TypeOK' /\ \A q \in Procs : call'[q] = call[q] \/ call'[q] = Idle
    BY <1>1, <1>2, <1>3, IdleCall DEF IInv, TypeOK
<1>7. \A r \in requests : r.id = call[p].id => r.done
    BY DEF SaveAuthCode, IInv, CallsKnowTheirRow, KnowsItsRow
<1>8. RowsKnowTheirLogin'
    <2> SUFFICES ASSUME NEW w \in requests'
                 PROVE  /\ w.done => /\ w.user \in Users /\ w.ds = w.user
                                     /\ LoginInTime(w.id, w.user, w.ds)' \/ Expired(w)'
                        /\ w.code # Null => w.done
        BY DEF RowsKnowTheirLogin
    <2>1. PICK r \in requests : w = IF r.id # call[p].id THEN r ELSE WithCode(r)
        BY <1>4
    <2>2. /\ w.id = r.id /\ w.created = r.created /\ w.done = r.done
          /\ w.user = r.user /\ w.ds = r.ds
          /\ w.code # Null => w.done
        BY <1>3, <1>7, <2>1 DEF IInv, RowsKnowTheirLogin
    <2> QED
        BY <1>1, <2>2 DEF IInv, RowsKnowTheirLogin, LoginInTime, Expired
<1>9. LoginsKnowTheirState'
    BY <1>1 DEF IInv, LoginsKnowTheirState, SentBy
<1> QED
    BY <1>1, <1>4, <1>5, <1>6, <1>8, <1>9, UpdateStep

-----------------------------------------------------------------------------
(***************************************************************************)
(* The theorems.                                                           *)
(***************************************************************************)

\* Every statement of every request, every sweep and every restart keeps the
\* invariant.
LEMMA NextIInv == IInv /\ [Next]_vars => IInv'
<1> SUFFICES ASSUME IInv, [Next]_vars PROVE IInv'
    OBVIOUS
<1>1. CASE UNCHANGED vars
    <2>1. UNCHANGED <<now, env, deploys, states, requests, call, sweep, nextId, nextCode,
                      logins, redeemed, answered>>
        BY <1>1 DEF vars, service, minted, history
    <2> QED
        BY <2>1
           DEF IInv, TypeOK, MintedIds, RowsKnowTheirLogin, LoginsKnowTheirState, SentBy,
               CallsKnowTheirRow, KnowsItsRow, LoginInTime, Expired, CutoffIsPast,
               IssuedForItsLogin, AnsweredCodeIsSpent
<1>2. ASSUME NEW p \in Procs,
             \/ \E id \in 1..(nextId - 1) : AuthRequestByID(p, id)
             \/ \E code \in 1..(nextCode - 1) : AuthRequestByCode(p, code)
             \/ SaveAuthCode(p) \/ Exchange(p) \/ DeleteAuthRequest(p) \/ Fail(p)
      PROVE  IInv'
    BY <1>2, ByIDStep, ByCodeStep, SaveCodeStep, ExchangeStep, DeleteStep, FailStep
<1> QED
    BY <1>1, <1>2, CreateStep, CallbackStep, EnvironmentStep DEF Next

\* Every reachable state satisfies the inductive invariant.
THEOREM Invariance == Spec => []IInv
BY InitIInv, NextIInv, PTL DEF Spec

\* Tokens are issued only to the user, and on the device session, of one login
\* that completed that very request in time (FederatedCallback, GetByCode), with a
\* state of the process's own key and providers (decryptState), for any number of
\* users, requests of the service and restarts.
THEOREM TokensFollowTheLogin == Spec => []IssuedForItsLogin
<1>1. IInv => IssuedForItsLogin
    BY DEF IInv
<1> QED
    BY <1>1, Invariance, PTL

\* No row of a request comes back after DeleteAuthRequest was answered.
THEOREM CodesAreSpent == Spec => []AnsweredCodeIsSpent
<1>1. IInv => AnsweredCodeIsSpent
    BY DEF IInv
<1> QED
    BY <1>1, Invariance, PTL

\* The DELETE of runAuthRequestCleanup removes expired requests only: its cutoff
\* was taken no later than now.
THEOREM SweepsRemoveTheExpired == Spec => CleanupSparesLive
<1>1. IInv /\ [Next]_vars => [Sweep => \A r \in requests \ requests' : Expired(r)]_vars
    <2> SUFFICES ASSUME IInv, Sweep, NEW r \in requests \ requests' PROVE Expired(r)
        OBVIOUS
    <2>1. r.created + TTL < sweep.cutoffFrom /\ sweep.cutoffFrom <= now
        BY DEF Sweep, IInv, CutoffIsPast
    <2>2. r.created \in Nat /\ sweep.cutoffFrom \in Nat /\ now \in Nat
        BY DEF Sweep, IInv, TypeOK, AuthRequest
    <2> QED
        BY <2>1, <2>2, AuthRequestsAssumption DEF Expired
<1> QED
    BY <1>1, Invariance, PTL DEF Spec, CleanupSparesLive
=============================================================================
