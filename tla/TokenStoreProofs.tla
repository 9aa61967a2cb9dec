-------------------------- MODULE TokenStoreProofs --------------------------
(***************************************************************************)
(* Proofs about TokenStore, for every set of users, clients, browsers and  *)
(* request slots and every value of the bounds.                            *)
(***************************************************************************)
EXTENDS TokenStore, TLAPS

\* The kind of a request in flight is determined by its next step.
LEMMA CallKind ==
    ASSUME NEW q \in Call
    PROVE  /\ q.at \in LoginSteps => q \in LoginCall
           /\ q.at \in TokenSteps => q \in TokenCall
           /\ q.at = "revokeAll" => q \in RevokeCall
           /\ q.at = "sweepRefresh" => q \in SweepCall
           /\ q.at = "dropSessions" => q \in DropCall
  BY DEF Call, Idle, LoginCall, TokenCall, RevokeCall, SweepCall, DropCall,
         LoginSteps, TokenSteps

\* The rows a grant inserts have the types of their tables.
LEMMA NewRowsType ==
    ASSUME TypeOK, NEW q \in TokenCall, NEW ds \in Nat, NEW f \in Nat, NEW a \in Nat
    PROVE  /\ NewAccess(q, a, f) \in Token
           /\ NewRefresh(q, ds, f) \in RefreshToken
           /\ NewGrant(q, ds, f) \in Grant
  BY TokenStoreAssumption
     DEF TypeOK, TokenCall, NewAccess, NewRefresh, NewGrant, Token,
         RefreshToken, Grant

LEMMA TypeOKInit == Init => TypeOK
  BY DEF Init, TypeOK, Call, Null

LEMMA TypeOKNext == TypeOK /\ [Next]_vars => TypeOK'
  <1> SUFFICES ASSUME TypeOK, [Next]_vars PROVE TypeOK'
    OBVIOUS
  <1>0. CASE UNCHANGED vars
    BY <1>0 DEF TypeOK, vars, tables, ids, history
  <1>1. CASE LoginNext
    <2>1. ASSUME NEW b \in Browsers, SelectProvider(b) PROVE TypeOK'
      BY <2>1 DEF SelectProvider, TypeOK, tables, history
    <2>2. ASSUME NEW p \in Procs, NEW b \in Browsers, NEW u \in Users,
                 NEW c \in Clients, FindOrCreate(p, b, u, c)
          PROVE TypeOK'
      <3>1. nextDevice' \in Nat \ {0}
        BY <2>2 DEF FindOrCreate, TypeOK
      <3>2. PICK s \in {"touch", "create"}, i \in Nat, j \in Nat :
              call' = [call EXCEPT ![p] =
                [at |-> s, browser |-> b, user |-> u, client |-> c,
                 dsID |-> i, ds |-> j]]
        BY <2>2 DEF FindOrCreate, TypeOK
      <3>3. [at |-> s, browser |-> b, user |-> u, client |-> c,
             dsID |-> i, ds |-> j] \in Call
        BY DEF Call, LoginCall, LoginSteps
      <3>4. call' \in [Procs -> Call]
        BY <3>2, <3>3 DEF TypeOK
      <3> QED
        BY <2>2, <3>1, <3>4 DEF FindOrCreate, TypeOK, tables, history
    <2>3. ASSUME NEW p \in Procs, TouchDevice(p) PROVE TypeOK'
      <3>1. call[p] \in LoginCall
        BY <2>3, CallKind DEF TouchDevice, TypeOK, LoginSteps
      <3> QED
        BY <2>3, <3>1 DEF TouchDevice, TypeOK, tables, ids, history, Call,
                          LoginCall, LoginSteps
    <2>4. ASSUME NEW p \in Procs, CreateDevice(p) PROVE TypeOK'
      <3>1. call[p] \in LoginCall
        BY <2>4, CallKind DEF CreateDevice, TypeOK, LoginSteps
      <3>2. [id |-> call[p].ds, user |-> call[p].user, revoked |-> FALSE]
              \in DeviceSession
        BY <3>1 DEF LoginCall, DeviceSession
      <3>3. [call[p] EXCEPT !.at = "complete"] \in Call
        BY <3>1 DEF Call, LoginCall, LoginSteps
      <3> QED
        BY <2>4, <3>2, <3>3 DEF CreateDevice, TypeOK, ids, history, Call
    <2>5. ASSUME NEW p \in Procs, CompleteLogin(p) PROVE TypeOK'
      <3>1. call[p] \in LoginCall
        BY <2>5, CallKind DEF CompleteLogin, TypeOK, LoginSteps
      <3> QED
        BY <2>5, <3>1 DEF CompleteLogin, TypeOK, history, Call, LoginCall,
                          AuthRequest
    <2>6. ASSUME NEW a \in authRequests, ExpireAuthRequest(a) PROVE TypeOK'
      BY <2>6 DEF ExpireAuthRequest, TypeOK, ids, history
    <2> QED
      BY <1>1, <2>1, <2>2, <2>3, <2>4, <2>5, <2>6 DEF LoginNext
  <1>2. CASE TokenNext
    <2>1. ASSUME NEW p \in Procs, NEW a \in authRequests, AuthRequestByCode(p, a)
          PROVE TypeOK'
      BY <2>1 DEF AuthRequestByCode, TypeOK, tables, ids, history, Call,
                  TokenCall, TokenSteps, AuthRequest, Null
    <2>2. ASSUME NEW p \in Procs, NEW r \in refreshTokens,
                 TokenRequestByRefreshToken(p, r)
          PROVE TypeOK'
      BY <2>2 DEF TokenRequestByRefreshToken, TypeOK, tables, ids, history, Call,
                  TokenCall, TokenSteps, RefreshToken, Null
    <2>3. ASSUME NEW p \in Procs, ExchangeCode(p) PROVE TypeOK'
      <3>1. call[p] \in TokenCall
        BY <2>3, CallKind DEF ExchangeCode, TypeOK, TokenSteps
      <3>2. [call[p] EXCEPT !.at = "claims", !.grant = nextGrant] \in Call
        BY <3>1 DEF TypeOK, Call, TokenCall, TokenSteps
      <3>3. call[p].ds \in Nat /\ nextGrant \in Nat
        BY <3>1 DEF TokenCall, TypeOK
      <3>4. call' = [call EXCEPT ![p] =
                       [call[p] EXCEPT !.at = "claims", !.grant = nextGrant]]
        BY <2>3 DEF ExchangeCode
      <3> QED
        BY <2>3, <3>1, <3>2, <3>3, <3>4, NewRowsType DEF ExchangeCode, TypeOK
    <2>4. ASSUME NEW p \in Procs, ExchangeCodeAccessOnly(p) PROVE TypeOK'
      <3>1. call[p] \in TokenCall
        BY <2>4, CallKind DEF ExchangeCodeAccessOnly, TypeOK, TokenSteps
      <3>2. [call[p] EXCEPT !.at = "claims"] \in Call
        BY <3>1 DEF TypeOK, Call, TokenCall, TokenSteps
      <3>3. NewAccess(call[p], Null, nextGrant) \in Token
        BY <3>1, NewRowsType DEF TypeOK, Null
      <3> QED
        BY <2>4, <3>1, <3>2, <3>3 DEF ExchangeCodeAccessOnly, TypeOK, history
    <2>5. ASSUME NEW p \in Procs, Rotate(p) PROVE TypeOK'
      <3>1. call[p] \in TokenCall
        BY <2>5, CallKind DEF Rotate, TypeOK, TokenSteps
      <3>2. CASE call' = [call EXCEPT ![p] = Idle]
                 /\ UNCHANGED <<tokens, refreshTokens, nextGrant, grants, late>>
        BY <2>5, <3>2 DEF Rotate, TypeOK, Call
      <3>3. ASSUME NEW r \in refreshTokens, Replace(p, r, r.access, r.ds)
            PROVE TypeOK'
        <4>1. r.ds \in Nat /\ r.family \in Nat /\ nextGrant \in Nat
          BY DEF TypeOK, RefreshToken
        <4>2. [call[p] EXCEPT !.at = "claims", !.grant = nextGrant, !.ds = r.ds]
                \in Call
          BY <3>1, <4>1 DEF Call, TokenCall, TokenSteps
        <4>3. call' = [call EXCEPT ![p] = [call[p] EXCEPT
                         !.at = "claims", !.grant = nextGrant, !.ds = r.ds]]
          BY <3>3 DEF Replace
        <4> QED
          <5>1. call' \in [Procs -> Call]
            BY <4>2, <4>3 DEF TypeOK
          <5>2. UNCHANGED <<now, cookie, deviceSessions, authRequests, nextDevice,
                            nextLogin, ended>>
            BY <2>5 DEF Rotate
          <5>3. /\ tokens' \subseteq Token /\ refreshTokens' \subseteq RefreshToken
                /\ grants' \subseteq Grant /\ nextGrant' \in Nat \ {0}
                /\ late' \subseteq Nat
            BY <3>1, <3>3, <4>1, NewRowsType DEF Replace, TypeOK
          <5> QED
            BY <5>1, <5>2, <5>3 DEF TypeOK
      <3> QED
        BY <2>5, <3>2, <3>3 DEF Rotate
    <2>6. ASSUME NEW p \in Procs, GetPrivateClaims(p) PROVE TypeOK'
      <3>1. call[p] \in TokenCall
        BY <2>6, CallKind DEF GetPrivateClaims, TypeOK, TokenSteps
      <3>2. PICK i \in LatestDeviceSessionID(call[p].user, call[p].client) :
              call' = [call EXCEPT ![p].at = "respond", ![p].dsid = i]
        BY <2>6 DEF GetPrivateClaims
      <3>3. i \in Nat
        BY <3>2 DEF LatestDeviceSessionID, TypeOK, RefreshToken, Null
      <3>4. [call[p] EXCEPT !.at = "respond", !.dsid = i] \in Call
        BY <3>1, <3>3 DEF Call, TokenCall, TokenSteps
      <3>5. call' = [call EXCEPT ![p] = [call[p] EXCEPT !.at = "respond", !.dsid = i]]
        BY <3>1, <3>2 DEF TypeOK, TokenCall
      <3> QED
        BY <2>6, <3>4, <3>5 DEF GetPrivateClaims, TypeOK, tables, ids, history
    <2>7. ASSUME NEW p \in Procs, Respond(p) PROVE TypeOK'
      BY <2>7 DEF Respond, TypeOK, ids, history, Call
    <2>8. ASSUME NEW c \in Clients, ClientCredentials(c) PROVE TypeOK'
      <3>1. NewAccess([user |-> Null, client |-> c], Null, nextGrant) \in Token
        BY TokenStoreAssumption DEF TypeOK, NewAccess, Token, Null
      <3> QED
        BY <2>8, <3>1 DEF ClientCredentials, TypeOK, history
    <2> QED
      BY <1>2, <2>1, <2>2, <2>3, <2>4, <2>5, <2>6, <2>7, <2>8 DEF TokenNext
  <1>3. CASE RevokeNextState
    <2>1. ASSUME NEW d \in deviceSessions, RevokeSession(d) PROVE TypeOK'
      BY <2>1 DEF RevokeSession, RevokeByID, Families, TypeOK, ids,
                  DeviceSession, RefreshToken
    <2>2. ASSUME NEW p \in Procs, NEW u \in Users,
                 NEW current \in {Null} \cup {d.id : d \in deviceSessions},
                 RevokeAllOthers(p, u, current)
          PROVE TypeOK'
      <3>1. PICK ds \in SUBSET Nat :
              call' = [call EXCEPT ![p] = [at |-> "revokeAll", user |-> u, todo |-> ds]]
        BY <2>2 DEF RevokeAllOthers, TypeOK, DeviceSession
      <3>2. [at |-> "revokeAll", user |-> u, todo |-> ds] \in Call
        BY DEF Call, RevokeCall
      <3> QED
        BY <2>2, <3>1, <3>2 DEF RevokeAllOthers, TypeOK, tables, ids, history
    <2>3. ASSUME NEW p \in Procs, RevokeNext(p) PROVE TypeOK'
      <3>1. call[p] \in RevokeCall
        BY <2>3, CallKind DEF RevokeNext, TypeOK
      <3>2. PICK id \in call[p].todo :
              /\ \/ RevokeByID(id, call[p].user)
                 \/ UNCHANGED <<deviceSessions, refreshTokens, ended>>
              /\ call' = [call EXCEPT ![p] =
                    IF call[p].todo = {id} THEN Idle
                    ELSE [call[p] EXCEPT !.todo = @ \ {id}]]
        BY <2>3 DEF RevokeNext
      <3>3. [call[p] EXCEPT !.todo = @ \ {id}] \in Call /\ Idle \in Call
        BY <3>1 DEF Call, RevokeCall
      <3>4. call' \in [Procs -> Call]
        BY <3>2, <3>3 DEF TypeOK
      <3>5. deviceSessions' \subseteq DeviceSession
             /\ refreshTokens' \subseteq RefreshToken /\ ended' \subseteq Nat
        BY <3>2 DEF RevokeByID, Families, TypeOK, DeviceSession, RefreshToken
      <3> QED
        BY <2>3, <3>4, <3>5 DEF RevokeNext, TypeOK, ids
    <2>4. ASSUME NEW u \in Users, NEW c \in Clients, TerminateSession(u, c)
          PROVE TypeOK'
      BY <2>4 DEF TerminateSession, Families, TypeOK, ids, RefreshToken
    <2>5. ASSUME NEW r \in refreshTokens, RevokeRefreshToken(r) PROVE TypeOK'
      BY <2>5 DEF RevokeRefreshToken, TypeOK, ids, RefreshToken
    <2>6. ASSUME NEW t \in tokens, RevokeAccessToken(t) PROVE TypeOK'
      BY <2>6 DEF RevokeAccessToken, TypeOK, ids, history
    <2> QED
      BY <1>3, <2>1, <2>2, <2>3, <2>4, <2>5, <2>6 DEF RevokeNextState
  <1>4. CASE SystemNext
    <2>1. ASSUME NEW p \in Procs, SweepTokens(p) PROVE TypeOK'
      BY <2>1 DEF SweepTokens, TypeOK, ids, history, Call, SweepCall
    <2>2. ASSUME NEW p \in Procs, SweepRefreshTokens(p) PROVE TypeOK'
      BY <2>2 DEF SweepRefreshTokens, TypeOK, ids, history, Call
    <2>3. ASSUME NEW p \in Procs, Fail(p) PROVE TypeOK'
      BY <2>3 DEF Fail, TypeOK, tables, ids, history, Call
    <2>4. ASSUME NEW p \in Procs, FindRevokedBefore(p) PROVE TypeOK'
      <3> DEFINE unused == {d.id : d \in {e \in deviceSessions : RevokedLongAgo(e) /\ ~InUse(e)}}
      <3>1. PICK found \in SUBSET unused :
              call' = [call EXCEPT ![p] = [at |-> "dropSessions", found |-> found]]
        BY <2>4 DEF FindRevokedBefore
      <3>2. [at |-> "dropSessions", found |-> found] \in Call
        BY DEF Call, DropCall, TypeOK, DeviceSession
      <3> QED
        BY <2>4, <3>1, <3>2 DEF FindRevokedBefore, TypeOK, tables, ids, history
    <2>5. ASSUME NEW p \in Procs, DeleteRevokedBefore(p) PROVE TypeOK'
      <3>1. ASSUME NEW s \in Procs PROVE call'[s] \in Call
        <4>1. CASE s = p \/ call[s].at # "dropSessions"
          BY <2>5, <4>1 DEF DeleteRevokedBefore, TypeOK, Call
        <4>2. CASE s # p /\ call[s].at = "dropSessions"
          <5>1. call[s] \in DropCall
            BY <4>2, CallKind DEF TypeOK
          <5> QED
            BY <2>5, <4>2, <5>1 DEF DeleteRevokedBefore, Call, DropCall
        <4> QED
          BY <4>1, <4>2
      <3>2. call' \in [Procs -> Call]
        BY <2>5, <3>1 DEF DeleteRevokedBefore
      <3>3. /\ refreshTokens' \subseteq RefreshToken
            /\ deviceSessions' \subseteq DeviceSession
        BY <2>5 DEF DeleteRevokedBefore, TypeOK, RefreshToken, Null
      <3> QED
        BY <2>5, <3>2, <3>3 DEF DeleteRevokedBefore, TypeOK, ids, history
    <2>6. CASE Tick
      BY <2>6 DEF Tick, TypeOK, tables, ids, history
    <2> QED
      BY <1>4, <2>1, <2>2, <2>3, <2>4, <2>5, <2>6 DEF SystemNext
  <1> QED
    BY <1>0, <1>1, <1>2, <1>3, <1>4 DEF Next

\* Type correctness: every reachable state holds rows and requests of the
\* declared shapes; in particular an in-flight request always carries the
\* fields its next statement reads.
THEOREM TypeCorrect == Spec => []TypeOK
  BY TypeOKInit, TypeOKNext, PTL DEF Spec

-----------------------------------------------------------------------------
(***************************************************************************)
(* The inductive invariant.  Its parts about grants (GrantInv) and about   *)
(* device sessions (SessionInv) are preserved separately; most actions     *)
(* only remove rows, which one lemma covers for each part.                 *)
(***************************************************************************)
\* No grant is issued, rows may go away, and the families whose refresh token
\* went away may be ended.
Shrinks ==
    /\ tokens' \subseteq tokens
    /\ refreshTokens' \subseteq refreshTokens
    /\ ended' \subseteq ended \cup Families(refreshTokens \ refreshTokens')
    /\ UNCHANGED <<grants, nextGrant, late>>
    /\ now' \in Nat /\ now <= now'

LEMMA GrantInvShrinks ==
    ASSUME TypeOK, GrantInv, Shrinks, \A p \in Procs : GrantCall(call[p])'
    PROVE  GrantInv'
  <1> USE DEF Shrinks
  <1>1. GrantIdsMinted'
    BY DEF GrantInv, GrantIdsMinted, Families
  <1>2. GrantKeys' /\ RefreshSingleUse' /\ RotationKeepsIdentity' /\ OneSessionPerFamily'
    BY DEF GrantInv, GrantKeys, RefreshSingleUse, RotationKeepsIdentity,
           OneSessionPerFamily
  <1>3. RowsMatchGrants'
    <2>1. ASSUME NEW r \in refreshTokens' PROVE Unexpired(r)' => Unexpired(r)
      BY DEF Unexpired, TypeOK, RefreshToken
    <2> QED
      BY <2>1 DEF GrantInv, RowsMatchGrants
  <1>4. OneTokenPairPerFamily'
    BY DEF GrantInv, OneTokenPairPerFamily
  <1>5. RevocationIsFinal'
    BY DEF GrantInv, RevocationIsFinal, OneTokenPairPerFamily, Families
  <1> QED
    BY <1>1, <1>2, <1>3, <1>4, <1>5 DEF GrantInv

\* A request that does not start to exchange or rotate claims no grant.
LEMMA GrantCallKept ==
    ASSUME GrantInv, UNCHANGED grants, NEW p \in Procs, TypeOK,
           NEW q, call' = [call EXCEPT ![p] = q], q.at \notin {"exchange", "rotate"}
    PROVE  \A s \in Procs : GrantCall(call[s])'
  BY DEF GrantInv, GrantCall, TypeOK

LEMMA GrantInvInit == Init => GrantInv
  BY DEF Init, GrantInv, GrantIdsMinted, GrantKeys, RowsMatchGrants, GrantCall,
         RefreshSingleUse, OneTokenPairPerFamily, RevocationIsFinal,
         RotationKeepsIdentity, OneSessionPerFamily, Idle, Null

\* The code exchange starts a family of its own.
LEMMA GrantInvExchange ==
    ASSUME TypeOK, GrantInv, NEW p \in Procs, ExchangeCode(p)
    PROVE  GrantInv'
  <1> DEFINE q == call[p]
             n == nextGrant
             t == NewAccess(q, n, n)
             r == NewRefresh(q, q.ds, n)
             g == NewGrant(q, q.ds, n)
  <1>1. /\ q.at = "exchange" /\ q \in TokenCall /\ q.token = Null
        /\ n = nextGrant /\ n \in Nat \ {0} /\ nextGrant' = n + 1
        /\ tokens' = tokens \cup {t} /\ refreshTokens' = refreshTokens \cup {r}
        /\ grants' = grants \cup {g} /\ UNCHANGED <<ended, now, late>>
    BY CallKind DEF ExchangeCode, TypeOK, TokenSteps, GrantInv, GrantCall
  <1>2. /\ t.id = n /\ t.refresh = n /\ t.family = n
        /\ r.id = n /\ r.access = n /\ r.family = n
        /\ r.user = q.user /\ r.client = q.client /\ r.ds = q.ds
        /\ g.id = n /\ g.parent = Null /\ g.family = n
        /\ g.user = q.user /\ g.client = q.client /\ g.ds = q.ds
    BY <1>1 DEF NewAccess, NewRefresh, NewGrant
  <1>3. /\ t \in Token /\ r \in RefreshToken /\ g \in Grant
        /\ tokens \subseteq Token /\ refreshTokens \subseteq RefreshToken
        /\ grants \subseteq Grant /\ ended \subseteq Nat
    BY <1>1, NewRowsType DEF TypeOK, TokenCall
  <1> HIDE DEF t, r, g, n, q
  <1>4. GrantIdsMinted'
    BY <1>1, <1>2, <1>3 DEF GrantInv, GrantIdsMinted, Token, RefreshToken, Grant,
                            Null
  <1>5. /\ \A h \in grants : h.id < n /\ h.id # Null /\ h.parent < n
        /\ \A h \in grants : h.family < n
        /\ \A row \in tokens \cup refreshTokens : row.family < n
        /\ \A f \in ended : f < n
    BY <1>1, <1>3 DEF GrantInv, GrantIdsMinted, Grant, Null
  <1>6. GrantKeys'
    BY <1>1, <1>2, <1>3, <1>5 DEF GrantInv, GrantKeys, Grant
  <1>7. RowsMatchGrants'
    <2>1. \A row \in refreshTokens : row.id < n /\ row.id # Null
      BY <1>5 DEF GrantInv, RowsMatchGrants
    <2> QED
      BY <1>1, <1>2, <1>3, <1>5, <2>1
         DEF GrantInv, RowsMatchGrants, Unexpired, Grant, RefreshToken, Null
  <1>8. \A s \in Procs : GrantCall(call[s])'
    <2>1. ASSUME NEW s \in Procs, s # p PROVE GrantCall(call[s])'
      BY <1>1, <2>1 DEF GrantInv, GrantCall, ExchangeCode, TypeOK
    <2>2. GrantCall(call[p])'
      BY <1>1 DEF GrantCall, ExchangeCode, TypeOK, TokenCall, q
    <2> QED
      BY <2>1, <2>2
  <1>9. RefreshSingleUse' /\ RotationKeepsIdentity'
    BY <1>1, <1>2, <1>3, <1>5 DEF GrantInv, RefreshSingleUse,
       RotationKeepsIdentity, Null, Grant
  <1>10. OneTokenPairPerFamily'
    BY <1>1, <1>2, <1>3, <1>5 DEF GrantInv, OneTokenPairPerFamily, Token,
       RefreshToken
  <1>11. RevocationIsFinal'
    BY <1>1, <1>2, <1>3, <1>5 DEF GrantInv, RevocationIsFinal
  <1>12. OneSessionPerFamily'
    BY <1>1, <1>2, <1>3, <1>5 DEF GrantInv, OneSessionPerFamily, Grant
  <1> QED
    BY <1>4, <1>6, <1>7, <1>8, <1>9, <1>10, <1>11, <1>12 DEF GrantInv

\* A grant without a refresh token adds an access token of a new family.
LEMMA GrantInvNewAccess ==
    ASSUME TypeOK, GrantInv, NEW t, t.family = nextGrant, nextGrant' = nextGrant + 1,
           tokens' = tokens \cup {t},
           UNCHANGED <<refreshTokens, grants, ended, now, late>>,
           \A p \in Procs : GrantCall(call[p])'
    PROVE  GrantInv'
  <1> DEFINE n == nextGrant
  <1>1. /\ n \in Nat \ {0} /\ nextGrant' = n + 1 /\ t.family = n
        /\ tokens \subseteq Token /\ refreshTokens \subseteq RefreshToken
        /\ grants \subseteq Grant /\ ended \subseteq Nat
    BY DEF TypeOK
  <1>2. /\ \A row \in tokens \cup refreshTokens : row.family < n
        /\ \A f \in ended : f < n
    BY <1>1 DEF GrantInv, GrantIdsMinted
  <1>3. GrantIdsMinted'
    BY <1>1 DEF GrantInv, GrantIdsMinted, Token, RefreshToken, Grant
  <1>4. RowsMatchGrants'
    BY DEF GrantInv, RowsMatchGrants, Unexpired
  <1>5. OneTokenPairPerFamily'
    BY <1>1, <1>2 DEF GrantInv, OneTokenPairPerFamily, Token, RefreshToken
  <1>6. /\ GrantKeys' /\ RefreshSingleUse' /\ RotationKeepsIdentity'
        /\ RevocationIsFinal' /\ OneSessionPerFamily'
    BY DEF GrantInv, GrantKeys, RefreshSingleUse, RotationKeepsIdentity,
           RevocationIsFinal, OneSessionPerFamily
  <1> QED
    BY <1>3, <1>4, <1>5, <1>6 DEF GrantInv

LEMMA GrantInvAccessOnly ==
    ASSUME TypeOK, GrantInv, NEW p \in Procs, ExchangeCodeAccessOnly(p)
    PROVE  GrantInv'
  <1>1. call[p] \in TokenCall
    BY CallKind DEF ExchangeCodeAccessOnly, TypeOK, TokenSteps
  <1>2. /\ call' = [call EXCEPT ![p] = [call[p] EXCEPT !.at = "claims"]]
        /\ [call[p] EXCEPT !.at = "claims"].at = "claims"
    BY <1>1 DEF ExchangeCodeAccessOnly, TokenCall
  <1>3. \A s \in Procs : GrantCall(call[s])'
    BY <1>2, GrantCallKept DEF ExchangeCodeAccessOnly, history
  <1>4. NewAccess(call[p], Null, nextGrant).family = nextGrant
    BY DEF NewAccess
  <1> QED
    BY <1>3, <1>4, GrantInvNewAccess DEF ExchangeCodeAccessOnly, history

LEMMA GrantInvClientCredentials ==
    ASSUME TypeOK, GrantInv, NEW c \in Clients, ClientCredentials(c)
    PROVE  GrantInv'
  <1>1. \A s \in Procs : GrantCall(call[s])'
    BY DEF ClientCredentials, GrantInv, GrantCall, history
  <1>2. NewAccess([user |-> Null, client |-> c], Null, nextGrant).family = nextGrant
    BY DEF NewAccess
  <1> QED
    BY <1>1, <1>2, GrantInvNewAccess DEF ClientCredentials, history

\* A rotation replaces the pair of rows of its family.
LEMMA GrantInvReplace ==
    ASSUME TypeOK, GrantInv, NEW p \in Procs, call[p].at = "rotate",
           NEW o \in refreshTokens, o.id = call[p].token,
           Replace(p, o, o.access, o.ds), UNCHANGED <<ended, now>>
    PROVE  GrantInv'
  <1> DEFINE q == call[p]
             n == nextGrant
             t == NewAccess(q, n, o.family)
             r == NewRefresh(q, o.ds, o.family)
             g == NewGrant(q, o.ds, o.family)
  <1>1. /\ q \in TokenCall
        /\ n = nextGrant /\ n \in Nat \ {0} /\ nextGrant' = n + 1
        /\ tokens' = {x \in tokens : x.id # o.access} \cup {t}
        /\ refreshTokens' = (refreshTokens \ {o}) \cup {r}
        /\ grants' = grants \cup {g}
        /\ late' = IF Unexpired(o) THEN late ELSE late \cup {o.family}
        /\ o.ds \in Nat /\ o.family \in Nat /\ o.id \in Nat
    BY CallKind DEF Replace, TypeOK, TokenSteps, RefreshToken
  <1>2. /\ t.id = n /\ t.refresh = n /\ t.family = o.family
        /\ r.id = n /\ r.access = n /\ r.family = o.family
        /\ r.user = q.user /\ r.client = q.client /\ r.ds = o.ds
        /\ g.id = n /\ g.parent = o.id /\ g.family = o.family
        /\ g.user = q.user /\ g.client = q.client /\ g.ds = o.ds
    BY <1>1 DEF NewAccess, NewRefresh, NewGrant
  <1>3. /\ t \in Token /\ r \in RefreshToken /\ g \in Grant
        /\ tokens \subseteq Token /\ refreshTokens \subseteq RefreshToken
        /\ grants \subseteq Grant /\ ended \subseteq Nat
    BY <1>1, NewRowsType DEF TypeOK
  <1>4. PICK h \in grants :
            /\ h.id = o.id /\ h.user = q.user /\ h.client = q.client
            /\ h.family = o.family
            /\ o.ds = h.ds \/ (o.ds = Null /\ o.family \in late')
    <2>1. PICK h \in grants : h.id = o.id /\ h.user = q.user /\ h.client = q.client
      BY DEF GrantInv, GrantCall
    <2>2. \E k \in grants : /\ k.id = o.id /\ k.family = o.family
                            /\ \/ o.ds = k.ds
                               \/ o.ds = Null /\ (Unexpired(o) => o.family \in late)
      BY DEF GrantInv, RowsMatchGrants
    <2> QED
      BY <1>1, <2>1, <2>2 DEF GrantInv, GrantKeys
  <1>5. /\ \A k \in grants : k.id < n /\ k.id # Null /\ k.parent < n
        /\ \A row \in tokens \cup refreshTokens : row.family < n
        /\ \A f \in ended : f < n
        /\ \A row \in refreshTokens : row.id < n /\ row.id # Null
    BY <1>1, <1>3 DEF GrantInv, GrantIdsMinted, RowsMatchGrants, Grant, Null
  <1>6. \A s \in Procs : GrantCall(call[s])'
    <2>1. call' = [call EXCEPT ![p] = [q EXCEPT !.at = "claims", !.grant = n,
                                                !.ds = o.ds]]
      BY DEF Replace
    <2>2. [q EXCEPT !.at = "claims", !.grant = n, !.ds = o.ds].at = "claims"
      BY <1>1 DEF TokenCall
    <2>3. ASSUME NEW s \in Procs, s # p PROVE GrantCall(call[s])'
      BY <1>1, <2>1, <2>3 DEF GrantInv, GrantCall, TypeOK
    <2>4. GrantCall(call[p])'
      BY <2>1, <2>2 DEF GrantCall, TypeOK
    <2> QED
      BY <2>3, <2>4
  <1> HIDE DEF t, r, g, n, q
  <1>7. GrantIdsMinted'
    BY <1>1, <1>2, <1>3, <1>5 DEF GrantInv, GrantIdsMinted, Token, RefreshToken,
                                  Grant, Null
  <1>8. GrantKeys'
    BY <1>1, <1>2, <1>3, <1>5 DEF GrantInv, GrantKeys, Grant
  <1>9. RowsMatchGrants'
    <2>1. \A row \in refreshTokens \ {o} : row.id # o.id
      BY DEF GrantInv, RowsMatchGrants, GrantKeys, OneTokenPairPerFamily
    <2>2. late \subseteq late'
      BY <1>1
    <2> QED
      BY <1>1, <1>2, <1>3, <1>5, <2>1, <2>2
         DEF GrantInv, RowsMatchGrants, Unexpired, Grant, RefreshToken, Null
  <1>10. RefreshSingleUse'
    \* o was still in the table, so no earlier rotation has consumed it
    BY <1>1, <1>2, <1>3, <1>5 DEF GrantInv, RefreshSingleUse, RowsMatchGrants, Null
  <1>11. RotationKeepsIdentity'
    <2>1. late \subseteq late'
      BY <1>1
    <2> QED
      BY <1>1, <1>2, <1>3, <1>4, <1>5, <2>1
         DEF GrantInv, GrantKeys, RotationKeepsIdentity, Null, Grant
  <1>12. OneTokenPairPerFamily'
    BY <1>1, <1>2, <1>3, <1>5 DEF GrantInv, OneTokenPairPerFamily, Token,
       RefreshToken
  <1>13. RevocationIsFinal'
    BY <1>1, <1>2, <1>3 DEF GrantInv, RevocationIsFinal
  <1>14. OneSessionPerFamily'
    BY <1>1, <1>2, <1>4 DEF GrantInv, OneSessionPerFamily
  <1> QED
    BY <1>6, <1>7, <1>8, <1>9, <1>10, <1>11, <1>12, <1>13, <1>14 DEF GrantInv

\* Deleting old sessions detaches expired refresh tokens, and unexpired ones of
\* logins that were refreshed late.
LEMMA GrantInvDrop ==
    ASSUME TypeOK, GrantInv, SweepInv, NEW p \in Procs, DeleteRevokedBefore(p)
    PROVE  GrantInv'
  <1> DEFINE gone == call[p].found
             Detached(r) == [r EXCEPT !.ds = IF @ \in gone THEN Null ELSE @]
  <1>1. /\ refreshTokens' = {Detached(r) : r \in refreshTokens}
        /\ UNCHANGED <<now, tokens, grants, ended, late, nextGrant>>
    BY DEF DeleteRevokedBefore, ids, history
  <1>2. ASSUME NEW r \in refreshTokens
        PROVE  LET s == Detached(r) IN
               /\ s.id = r.id /\ s.user = r.user /\ s.client = r.client
               /\ s.access = r.access /\ s.family = r.family
               /\ s.expiration = r.expiration
               /\ s.ds = r.ds \/ (s.ds = Null /\ (Unexpired(r) => r.family \in late))
    <2>1. r.ds \in gone /\ Unexpired(r) => r.family \in late
      BY DEF DeleteRevokedBefore, SweepInv, Forgotten
    <2> QED
      BY <2>1 DEF TypeOK, RefreshToken
  <1>3. \A r, s \in refreshTokens : r.family = s.family => r = s
    BY DEF GrantInv, OneTokenPairPerFamily
  <1>4. \A s \in Procs : GrantCall(call[s])'
    <2>1. ASSUME NEW s \in Procs
          PROVE  call'[s] = call[s] \/ call'[s].at \notin {"exchange", "rotate"}
      <3>1. call[s].at = "dropSessions" => call[s] \in DropCall
        BY CallKind DEF TypeOK
      <3> QED
        BY <3>1 DEF DeleteRevokedBefore, Idle, DropCall
    <2> QED
      BY <1>1, <2>1 DEF GrantInv, GrantCall
  <1> HIDE DEF Detached, gone
  <1>5. GrantIdsMinted'
    BY <1>1, <1>2 DEF GrantInv, GrantIdsMinted
  <1>6. RowsMatchGrants'
    <2>1. ASSUME NEW s \in refreshTokens'
          PROVE  \E g \in grants' :
                    /\ g.id = s.id /\ g.user = s.user /\ g.client = s.client
                    /\ g.family = s.family
                    /\ s.ds = g.ds \/ (s.ds = Null /\ (Unexpired(s)' => s.family \in late'))
      <3>1. PICK r \in refreshTokens : s = Detached(r)
        BY <1>1
      <3>2. /\ s.id = r.id /\ s.user = r.user /\ s.client = r.client
            /\ s.family = r.family /\ (Unexpired(s)' <=> Unexpired(r))
            /\ s.ds = r.ds \/ (s.ds = Null /\ (Unexpired(r) => r.family \in late))
        BY <1>1, <1>2, <3>1 DEF Unexpired
      <3>3. PICK g \in grants :
              /\ g.id = r.id /\ g.user = r.user /\ g.client = r.client
              /\ g.family = r.family
              /\ r.ds = g.ds \/ (r.ds = Null /\ (Unexpired(r) => r.family \in late))
        BY DEF GrantInv, RowsMatchGrants
      <3> QED
        BY <1>1, <3>2, <3>3
    <2> QED
      BY <1>1, <1>2, <2>1 DEF GrantInv, RowsMatchGrants
  <1>7. OneTokenPairPerFamily'
    BY <1>1, <1>2, <1>3 DEF GrantInv, OneTokenPairPerFamily
  <1>8. RevocationIsFinal'
    BY <1>1, <1>2 DEF GrantInv, RevocationIsFinal
  <1>9. GrantKeys' /\ RefreshSingleUse' /\ RotationKeepsIdentity' /\ OneSessionPerFamily'
    BY <1>1 DEF GrantInv, GrantKeys, RefreshSingleUse, RotationKeepsIdentity,
                OneSessionPerFamily
  <1> QED
    BY <1>4, <1>5, <1>6, <1>7, <1>8, <1>9 DEF GrantInv

\* Requests in flight keep their claims when nothing they rely on changes.
LEMMA GrantCallUnchanged ==
    ASSUME GrantInv, UNCHANGED <<grants, call>>
    PROVE  \A s \in Procs : GrantCall(call[s])'
  BY DEF GrantInv, GrantCall

LEMMA GrantInvNext == TypeOK /\ GrantInv /\ SweepInv /\ [Next]_vars => GrantInv'
  <1> SUFFICES ASSUME TypeOK, GrantInv, SweepInv, [Next]_vars PROVE GrantInv'
    OBVIOUS
  <1> DEFINE GrantTables ==
               <<now, tokens, refreshTokens, grants, ended, late, nextGrant>>
  <1>a. UNCHANGED GrantTables => Shrinks
    BY DEF Shrinks, TypeOK
  <1>b. Idle.at \notin {"exchange", "rotate"}
    BY DEF Idle
  <1>0. CASE UNCHANGED vars
    BY <1>0, <1>a, GrantInvShrinks, GrantCallUnchanged DEF vars, tables, ids, history
  <1>1. CASE LoginNext
    <2>1. UNCHANGED GrantTables
      BY <1>1 DEF LoginNext, SelectProvider, FindOrCreate, TouchDevice, CreateDevice,
                  CompleteLogin, ExpireAuthRequest, tables, ids, history
    <2>2. \A s \in Procs : GrantCall(call[s])'
      <3>1. CASE UNCHANGED call
        BY <2>1, <3>1, GrantCallUnchanged
      <3>2. ASSUME NEW p \in Procs, NEW b \in Browsers, NEW u \in Users,
                   NEW c \in Clients, FindOrCreate(p, b, u, c)
            PROVE  \A s \in Procs : GrantCall(call[s])'
        <4>1. \E s \in {"touch", "create"} : \E i, j :
                call' = [call EXCEPT ![p] =
                  [at |-> s, browser |-> b, user |-> u, client |-> c,
                   dsID |-> i, ds |-> j]]
          BY <3>2 DEF FindOrCreate
        <4>2. PICK s \in {"touch", "create"} : \E i, j :
                call' = [call EXCEPT ![p] =
                  [at |-> s, browser |-> b, user |-> u, client |-> c,
                   dsID |-> i, ds |-> j]]
          BY <4>1
        <4>3. PICK i, j :
                call' = [call EXCEPT ![p] =
                  [at |-> s, browser |-> b, user |-> u, client |-> c,
                   dsID |-> i, ds |-> j]]
          BY <4>2
        <4> QED
          BY <2>1, <4>3, GrantCallKept
      <3>3. ASSUME NEW p \in Procs, TouchDevice(p)
            PROVE  \A s \in Procs : GrantCall(call[s])'
        <4>1. call[p] \in LoginCall
          BY <3>3, CallKind DEF TouchDevice, TypeOK, LoginSteps
        <4>2. [call[p] EXCEPT !.at = "complete"].at = "complete"
          BY <4>1 DEF LoginCall
        <4> QED
          BY <2>1, <3>3, <4>2, GrantCallKept DEF TouchDevice
      <3>4. ASSUME NEW p \in Procs, CreateDevice(p)
            PROVE  \A s \in Procs : GrantCall(call[s])'
        <4>1. call[p] \in LoginCall
          BY <3>4, CallKind DEF CreateDevice, TypeOK, LoginSteps
        <4>2. [call[p] EXCEPT !.at = "complete"].at = "complete"
          BY <4>1 DEF LoginCall
        <4> QED
          BY <1>b, <2>1, <3>4, <4>2, GrantCallKept DEF CreateDevice
      <3>5. ASSUME NEW p \in Procs, CompleteLogin(p)
            PROVE  \A s \in Procs : GrantCall(call[s])'
        BY <1>b, <2>1, <3>5, GrantCallKept DEF CompleteLogin
      <3> QED
        BY <1>1, <3>1, <3>2, <3>3, <3>4, <3>5
           DEF LoginNext, SelectProvider, ExpireAuthRequest
    <2> QED
      BY <1>a, <2>1, <2>2, GrantInvShrinks
  <1>2. CASE TokenNext
    <2>1. ASSUME NEW p \in Procs, NEW a \in authRequests, AuthRequestByCode(p, a)
          PROVE GrantInv'
      <3>1. UNCHANGED GrantTables
        BY <2>1 DEF AuthRequestByCode, tables, ids, history
      <3>2. \A s \in Procs : GrantCall(call[s])'
        BY <2>1, <3>1 DEF AuthRequestByCode, GrantInv, GrantCall, TypeOK
      <3> QED
        BY <1>a, <3>1, <3>2, GrantInvShrinks
    <2>2. ASSUME NEW p \in Procs, NEW r \in refreshTokens,
                 TokenRequestByRefreshToken(p, r)
          PROVE GrantInv'
      <3>1. UNCHANGED GrantTables
        BY <2>2 DEF TokenRequestByRefreshToken, tables, ids, history
      <3>2. \E g \in grants : g.id = r.id /\ g.user = r.user /\ g.client = r.client
        BY DEF GrantInv, RowsMatchGrants
      <3>3. \A s \in Procs : GrantCall(call[s])'
        BY <2>2, <3>1, <3>2 DEF TokenRequestByRefreshToken, GrantInv, GrantCall, TypeOK
      <3> QED
        BY <1>a, <3>1, <3>3, GrantInvShrinks
    <2>3. ASSUME NEW p \in Procs, ExchangeCode(p) PROVE GrantInv'
      BY <2>3, GrantInvExchange
    <2>4. ASSUME NEW p \in Procs, ExchangeCodeAccessOnly(p) PROVE GrantInv'
      BY <2>4, GrantInvAccessOnly
    <2>5. ASSUME NEW p \in Procs, Rotate(p) PROVE GrantInv'
      <3>1. CASE call' = [call EXCEPT ![p] = Idle]
                 /\ UNCHANGED <<tokens, refreshTokens, nextGrant, grants, late>>
        BY <1>a, <1>b, <2>5, <3>1, GrantInvShrinks, GrantCallKept DEF Rotate
      <3>2. CASE \E r \in {r \in refreshTokens : r.id = call[p].token} :
                    Replace(p, r, r.access, r.ds)
        <4>1. call[p].at = "rotate" /\ UNCHANGED <<ended, now>>
          BY <2>5 DEF Rotate
        <4> QED
          BY <3>2, <4>1, GrantInvReplace
      <3> QED
        BY <2>5, <3>1, <3>2 DEF Rotate
    <2>6. ASSUME NEW p \in Procs, GetPrivateClaims(p) PROVE GrantInv'
      <3>1. call[p] \in TokenCall /\ UNCHANGED GrantTables
        BY <2>6, CallKind DEF GetPrivateClaims, TypeOK, TokenSteps, tables, ids, history
      <3>2. PICK i : call' = [call EXCEPT ![p] =
                        [call[p] EXCEPT !.at = "respond", !.dsid = i]]
        BY <2>6 DEF GetPrivateClaims
      <3>3. [call[p] EXCEPT !.at = "respond", !.dsid = i].at = "respond"
        BY <3>1 DEF TokenCall
      <3> QED
        BY <1>a, <3>1, <3>2, <3>3, GrantInvShrinks, GrantCallKept
    <2>7. ASSUME NEW p \in Procs, Respond(p) PROVE GrantInv'
      <3>1. UNCHANGED GrantTables
        BY <2>7 DEF Respond, ids, history
      <3> QED
        BY <1>a, <1>b, <2>7, <3>1, GrantInvShrinks, GrantCallKept DEF Respond
    <2>8. ASSUME NEW c \in Clients, ClientCredentials(c) PROVE GrantInv'
      BY <2>8, GrantInvClientCredentials
    <2> QED
      BY <1>2, <2>1, <2>2, <2>3, <2>4, <2>5, <2>6, <2>7, <2>8 DEF TokenNext
  <1>3. CASE RevokeNextState
    <2>1. ASSUME NEW d \in deviceSessions, RevokeSession(d) PROVE GrantInv'
      <3>1. Shrinks /\ UNCHANGED <<grants, call>>
        BY <2>1 DEF RevokeSession, RevokeByID, Shrinks, Families, ids, TypeOK
      <3> QED
        BY <3>1, GrantInvShrinks, GrantCallUnchanged
    <2>2. ASSUME NEW p \in Procs, NEW u \in Users,
                 NEW current \in {Null} \cup {d.id : d \in deviceSessions},
                 RevokeAllOthers(p, u, current)
          PROVE GrantInv'
      <3>1. UNCHANGED GrantTables
        BY <2>2 DEF RevokeAllOthers, tables, ids, history
      <3>2. PICK ds : call' = [call EXCEPT ![p] =
                                 [at |-> "revokeAll", user |-> u, todo |-> ds]]
        BY <2>2 DEF RevokeAllOthers
      <3> QED
        BY <1>a, <3>1, <3>2, GrantInvShrinks, GrantCallKept
    <2>3. ASSUME NEW p \in Procs, RevokeNext(p) PROVE GrantInv'
      <3>1. call[p] \in RevokeCall
        BY <2>3, CallKind DEF RevokeNext, TypeOK
      <3>2. PICK id \in call[p].todo :
              /\ \/ RevokeByID(id, call[p].user)
                 \/ UNCHANGED <<deviceSessions, refreshTokens, ended>>
              /\ call' = [call EXCEPT ![p] =
                    IF call[p].todo = {id} THEN Idle
                    ELSE [call[p] EXCEPT !.todo = @ \ {id}]]
        BY <2>3 DEF RevokeNext
      <3>3. [call[p] EXCEPT !.todo = @ \ {id}].at = "revokeAll"
        BY <3>1 DEF RevokeCall
      <3>4. UNCHANGED <<now, tokens, grants, nextGrant, late>>
        BY <2>3 DEF RevokeNext, ids
      <3>5. Shrinks
        BY <3>2, <3>4 DEF RevokeByID, Shrinks, Families, TypeOK
      <3>6. \A s \in Procs : GrantCall(call[s])'
        BY <1>b, <3>2, <3>3, <3>4, GrantCallKept
      <3> QED
        BY <3>5, <3>6, GrantInvShrinks
    <2>4. ASSUME NEW u \in Users, NEW c \in Clients, TerminateSession(u, c)
          PROVE GrantInv'
      <3>1. Shrinks /\ UNCHANGED <<grants, call>>
        BY <2>4 DEF TerminateSession, Shrinks, Families, ids, TypeOK
      <3> QED
        BY <3>1, GrantInvShrinks, GrantCallUnchanged
    <2>5. ASSUME NEW r \in refreshTokens, RevokeRefreshToken(r) PROVE GrantInv'
      <3>1. Shrinks /\ UNCHANGED <<grants, call>>
        BY <2>5 DEF RevokeRefreshToken, Shrinks, Families, ids, TypeOK
      <3> QED
        BY <3>1, GrantInvShrinks, GrantCallUnchanged
    <2>6. ASSUME NEW t \in tokens, RevokeAccessToken(t) PROVE GrantInv'
      <3>1. Shrinks /\ UNCHANGED <<grants, call>>
        BY <2>6 DEF RevokeAccessToken, Shrinks, ids, history, TypeOK
      <3> QED
        BY <3>1, GrantInvShrinks, GrantCallUnchanged
    <2> QED
      BY <1>3, <2>1, <2>2, <2>3, <2>4, <2>5, <2>6 DEF RevokeNextState
  <1>4. CASE SystemNext
    <2>1. ASSUME NEW p \in Procs, SweepTokens(p) PROVE GrantInv'
      <3>1. Shrinks /\ UNCHANGED grants
        BY <2>1 DEF SweepTokens, Shrinks, ids, history, TypeOK
      <3> QED
        BY <2>1, <3>1, GrantInvShrinks, GrantCallKept DEF SweepTokens
    <2>2. ASSUME NEW p \in Procs, SweepRefreshTokens(p) PROVE GrantInv'
      <3>1. Shrinks /\ UNCHANGED grants
        BY <2>2 DEF SweepRefreshTokens, Shrinks, ids, history, TypeOK
      <3> QED
        BY <1>b, <2>2, <3>1, GrantInvShrinks, GrantCallKept DEF SweepRefreshTokens
    <2>3. ASSUME NEW p \in Procs, Fail(p) PROVE GrantInv'
      <3>1. Shrinks /\ UNCHANGED grants
        BY <2>3 DEF Fail, Shrinks, tables, ids, history, TypeOK
      <3> QED
        BY <1>b, <2>3, <3>1, GrantInvShrinks, GrantCallKept DEF Fail
    <2>4. ASSUME NEW p \in Procs, FindRevokedBefore(p) PROVE GrantInv'
      <3>1. Shrinks /\ UNCHANGED grants
        BY <2>4 DEF FindRevokedBefore, Shrinks, tables, ids, history, TypeOK
      <3>2. PICK found :
              call' = [call EXCEPT ![p] = [at |-> "dropSessions", found |-> found]]
        BY <2>4 DEF FindRevokedBefore
      <3> QED
        BY <3>1, <3>2, GrantInvShrinks, GrantCallKept
    <2>5. ASSUME NEW p \in Procs, DeleteRevokedBefore(p) PROVE GrantInv'
      BY <2>5, GrantInvDrop
    <2>6. CASE Tick
      <3>1. Shrinks /\ UNCHANGED <<grants, call>>
        BY <2>6 DEF Tick, Shrinks, tables, ids, history, TypeOK
      <3> QED
        BY <3>1, GrantInvShrinks, GrantCallUnchanged
    <2> QED
      BY <1>4, <2>1, <2>2, <2>3, <2>4, <2>5, <2>6 DEF SystemNext
  <1> QED
    BY <1>0, <1>1, <1>2, <1>3, <1>4 DEF Next

-----------------------------------------------------------------------------
(***************************************************************************)
(* Device sessions: who owns what a row or a request names.                *)
(***************************************************************************)
\* No session row goes away and none is added; rows may be revoked, requests
\* may end or move to a step that claims nothing.
SessionsStay ==
    /\ \A d \in deviceSessions : OwnedBy(d.id, d.user)'
    /\ \A d \in deviceSessions' : \E e \in deviceSessions : d.id = e.id
    /\ DeviceKeys'
    /\ refreshTokens' \subseteq refreshTokens
    /\ authRequests' \subseteq authRequests
    /\ UNCHANGED <<nextDevice, cookie>>

ClaimsNoSession(q) == q.at \notin {"create", "touch", "complete", "exchange"}

LEMMA SessionInvStays ==
    ASSUME TypeOK, SessionInv, SessionsStay,
           \/ UNCHANGED call
           \/ \E p \in Procs, q \in Call :
                 call' = [call EXCEPT ![p] = q] /\ ClaimsNoSession(q)
    PROVE  SessionInv'
  <1>1. ASSUME NEW id, NEW u, OwnedBy(id, u) PROVE OwnedBy(id, u)'
    BY <1>1 DEF SessionsStay, OwnedBy
  <1>2. DevicesMinted' /\ DeviceKeys'
    BY DEF SessionInv, SessionsStay, DevicesMinted
  <1>3. SessionOwner'
    BY <1>1 DEF SessionInv, SessionsStay, SessionOwner
  <1>4. \A s \in Procs : SessionCall(call[s])'
    <2>1. ASSUME NEW s \in Procs, call'[s] = call[s] PROVE SessionCall(call[s])'
      BY <1>1, <2>1 DEF SessionInv, SessionsStay, SessionCall
    <2>2. ASSUME NEW s \in Procs, ClaimsNoSession(call'[s]) PROVE SessionCall(call[s])'
      BY <2>2 DEF ClaimsNoSession, SessionCall
    <2> QED
      BY <2>1, <2>2 DEF TypeOK
  <1> QED
    BY <1>2, <1>3, <1>4 DEF SessionInv

LEMMA IdleClaims == Idle \in Call /\ ClaimsNoSession(Idle)
  BY DEF Idle, Call, ClaimsNoSession

LEMMA SessionInvInit == Init => SessionInv
  BY DEF Init, SessionInv, DevicesMinted, DeviceKeys, SessionOwner, SessionCall,
         Idle, Null

\* The login callback.
LEMMA SessionInvLogin ==
    ASSUME TypeOK, SessionInv, LoginNext
    PROVE  SessionInv'
  <1>1. ASSUME NEW b \in Browsers, SelectProvider(b) PROVE SessionInv'
    <2>1. nextDevice' = nextDevice + 1 /\ nextDevice \in Nat
          /\ cookie' = [cookie EXCEPT ![b] = nextDevice]
          /\ UNCHANGED <<deviceSessions, authRequests, refreshTokens, call>>
      BY <1>1 DEF SelectProvider, tables, TypeOK
    <2>2. DevicesMinted'
      BY <2>1 DEF SessionInv, DevicesMinted, TypeOK, DeviceSession
    <2>3. \A s \in Procs : SessionCall(call[s])'
      BY <2>1 DEF SessionInv, SessionCall, OwnedBy
    <2> QED
      BY <2>1, <2>2, <2>3 DEF SessionInv, DeviceKeys, SessionOwner, OwnedBy
  <1>2. ASSUME NEW p \in Procs, NEW b \in Browsers, NEW u \in Users,
               NEW c \in Clients, FindOrCreate(p, b, u, c)
        PROVE  SessionInv'
    <2>1. /\ nextDevice \in Nat \ {0} /\ nextDevice' \in {nextDevice, nextDevice + 1}
          /\ UNCHANGED <<deviceSessions, authRequests, refreshTokens, cookie>>
      BY <1>2 DEF FindOrCreate, tables, TypeOK
    <2>2. PICK q : /\ call' = [call EXCEPT ![p] = q]
                   /\ q.user = u
                   /\ \/ q.at = "touch" /\ Reusable(q.ds, u)
                      \/ q.at = "create" /\ q.ds \in 1..(nextDevice' - 1)
      <3> DEFINE dsID == IF cookie[b] = Null THEN nextDevice ELSE cookie[b]
                 ds   == IF DeviceExists(dsID) /\ ~Reusable(dsID, u)
                         THEN nextDevice ELSE dsID
                 q    == [at |-> IF Reusable(dsID, u) THEN "touch" ELSE "create",
                          browser |-> b, user |-> u, client |-> c,
                          dsID |-> dsID, ds |-> ds]
      <3>1. call' = [call EXCEPT ![p] = q]
            /\ nextDevice' = IF ds = nextDevice THEN nextDevice + 1 ELSE nextDevice
        BY <1>2 DEF FindOrCreate
      <3>2. cookie[b] \in Nat /\ cookie[b] < nextDevice
        BY DEF SessionInv, DevicesMinted, TypeOK
      <3>3. ds \in 1..(nextDevice' - 1)
        BY <2>1, <3>1, <3>2 DEF Null
      <3>4. Reusable(dsID, u) => ds = dsID
        OBVIOUS
      <3>5. q.user = u /\ q.ds = ds
            /\ q.at = IF Reusable(dsID, u) THEN "touch" ELSE "create"
        OBVIOUS
      <3> HIDE DEF q, ds, dsID
      <3> QED
        BY <3>1, <3>3, <3>4, <3>5
    <2>3. DevicesMinted'
      BY <2>1 DEF SessionInv, DevicesMinted, TypeOK, DeviceSession
    <2>4. \A s \in Procs : SessionCall(call[s])'
      <3>1. ASSUME NEW s \in Procs, s # p PROVE SessionCall(call[s])'
        BY <2>1, <2>2, <3>1 DEF SessionInv, SessionCall, OwnedBy, TypeOK
      <3>2. SessionCall(call[p])'
        BY <2>1, <2>2 DEF SessionCall, OwnedBy, Reusable, TypeOK
      <3> QED
        BY <3>1, <3>2
    <2> QED
      BY <2>1, <2>3, <2>4 DEF SessionInv, DeviceKeys, SessionOwner, OwnedBy
  <1>3. ASSUME NEW p \in Procs, TouchDevice(p) PROVE SessionInv'
    <2>1. call[p] \in LoginCall
      BY <1>3, CallKind DEF TouchDevice, TypeOK, LoginSteps
    <2>2. UNCHANGED <<deviceSessions, authRequests, refreshTokens, cookie, nextDevice>>
      BY <1>3 DEF TouchDevice, tables, ids
    <2>3. \A s \in Procs : SessionCall(call[s])'
      BY <1>3, <2>1, <2>2 DEF TouchDevice, SessionInv, SessionCall, OwnedBy, TypeOK,
         LoginCall
    <2> QED
      BY <2>2, <2>3 DEF SessionInv, DevicesMinted, DeviceKeys, SessionOwner, OwnedBy
  <1>4. ASSUME NEW p \in Procs, CreateDevice(p) PROVE SessionInv'
    <2>1. call[p] \in LoginCall /\ call[p].at = "create"
          /\ UNCHANGED <<authRequests, refreshTokens, cookie, nextDevice>>
      BY <1>4, CallKind DEF CreateDevice, TypeOK, LoginSteps, ids
    <2>2. CASE DeviceExists(call[p].ds)
      <3>1. call' = [call EXCEPT ![p] = Idle] /\ UNCHANGED deviceSessions
        BY <1>4, <2>2 DEF CreateDevice
      <3>2. SessionsStay
        BY <2>1, <3>1 DEF SessionsStay, OwnedBy, SessionInv, DeviceKeys
      <3> QED
        BY <3>1, <3>2, IdleClaims, SessionInvStays
    <2>3. CASE ~DeviceExists(call[p].ds)
      <3> DEFINE d == [id |-> call[p].ds, user |-> call[p].user, revoked |-> FALSE]
      <3>1. /\ call' = [call EXCEPT ![p] = [call[p] EXCEPT !.at = "complete"]]
            /\ deviceSessions' = deviceSessions \cup {d}
            /\ d.id = call[p].ds /\ d.user = call[p].user
        BY <1>4, <2>3 DEF CreateDevice
      <3> HIDE DEF d
      <3>2. call[p].ds \in 1..(nextDevice - 1)
        BY <2>1 DEF SessionInv, SessionCall
      <3>3. DevicesMinted' /\ DeviceKeys'
        BY <2>1, <2>3, <3>1, <3>2 DEF SessionInv, DevicesMinted, DeviceKeys, DeviceExists
      <3>4. ASSUME NEW id, NEW u, OwnedBy(id, u) PROVE OwnedBy(id, u)'
        BY <3>1, <3>4 DEF OwnedBy
      <3>5. SessionOwner'
        BY <2>1, <3>4 DEF SessionInv, SessionOwner
      <3>6. OwnedBy(call[p].ds, call[p].user)'
        <4>1. call'[p] = [call[p] EXCEPT !.at = "complete"]
          BY <3>1 DEF TypeOK
        <4>2. call'[p].ds = d.id /\ call'[p].user = d.user
          BY <2>1, <3>1, <4>1 DEF LoginCall
        <4> QED
          BY <3>1, <4>2 DEF OwnedBy
      <3>7. \A s \in Procs : SessionCall(call[s])'
        <4>1. ASSUME NEW s \in Procs, s # p PROVE SessionCall(call[s])'
          BY <2>1, <3>1, <3>4, <4>1 DEF SessionInv, SessionCall, TypeOK
        <4>2. SessionCall(call[p])'
          BY <2>1, <3>1, <3>6 DEF SessionCall, TypeOK, LoginCall
        <4> QED
          BY <4>1, <4>2
      <3> QED
        BY <3>3, <3>5, <3>7 DEF SessionInv
    <2> QED
      BY <2>2, <2>3
  <1>5. ASSUME NEW p \in Procs, CompleteLogin(p) PROVE SessionInv'
    <2> DEFINE q == call[p]
               a == [id |-> nextLogin, user |-> q.user, client |-> q.client, ds |-> q.ds]
    <2>1. /\ q.at = "complete" /\ q \in LoginCall
          /\ authRequests' = authRequests \cup {a}
          /\ call' = [call EXCEPT ![p] = Idle]
          /\ UNCHANGED <<deviceSessions, refreshTokens, nextDevice>>
          /\ cookie' \in {cookie, [cookie EXCEPT ![q.browser] = q.ds]}
      BY <1>5, CallKind DEF CompleteLogin, TypeOK, LoginSteps
    <2>2. OwnedBy(q.ds, q.user)
      BY <2>1 DEF SessionInv, SessionCall
    <2>3. q.ds < nextDevice
      BY <2>2 DEF SessionInv, DevicesMinted, OwnedBy, TypeOK
    <2>4. DevicesMinted'
      BY <2>1, <2>3 DEF SessionInv, DevicesMinted, TypeOK
    <2>5. a.user = q.user /\ a.ds = q.ds
      OBVIOUS
    <2>6. SessionOwner'
      BY <2>1, <2>2, <2>5 DEF SessionInv, SessionOwner, OwnedBy
    <2>7. \A s \in Procs : SessionCall(call[s])'
      BY <2>1 DEF SessionInv, SessionCall, OwnedBy, TypeOK, Idle
    <2> QED
      BY <2>1, <2>4, <2>6, <2>7 DEF SessionInv, DeviceKeys
  <1>6. ASSUME NEW a \in authRequests, ExpireAuthRequest(a) PROVE SessionInv'
    BY <1>6, SessionInvStays DEF ExpireAuthRequest, SessionsStay, OwnedBy, SessionInv,
       DeviceKeys, ids
  <1> QED
    BY <1>1, <1>2, <1>3, <1>4, <1>5, <1>6 DEF LoginNext

\* The user of a rotation is the user of the row it replaces.
LEMMA RotationUser ==
    ASSUME GrantInv, NEW p \in Procs, call[p].at = "rotate",
           NEW o \in refreshTokens, o.id = call[p].token
    PROVE  o.user = call[p].user
  BY DEF GrantInv, GrantCall, GrantKeys, RowsMatchGrants

\* The token endpoint.
LEMMA SessionInvToken ==
    ASSUME TypeOK, GrantInv, SessionInv, TokenNext
    PROVE  SessionInv'
  <1>1. ASSUME NEW p \in Procs, NEW a \in authRequests, AuthRequestByCode(p, a)
        PROVE  SessionInv'
    <2>1. UNCHANGED <<deviceSessions, authRequests, refreshTokens, cookie, nextDevice>>
      BY <1>1 DEF AuthRequestByCode, tables, ids
    <2>2. a.ds # Null => OwnedBy(a.ds, a.user)
      BY DEF SessionInv, SessionOwner
    <2>3. \A s \in Procs : SessionCall(call[s])'
      BY <1>1, <2>1, <2>2 DEF AuthRequestByCode, SessionInv, SessionCall, OwnedBy, TypeOK
    <2> QED
      BY <2>1, <2>3 DEF SessionInv, DevicesMinted, DeviceKeys, SessionOwner, OwnedBy
  <1>2. ASSUME NEW p \in Procs, NEW r \in refreshTokens, TokenRequestByRefreshToken(p, r)
        PROVE  SessionInv'
    <2>1. UNCHANGED <<deviceSessions, authRequests, refreshTokens, cookie, nextDevice>>
      BY <1>2 DEF TokenRequestByRefreshToken, tables, ids
    <2>2. \A s \in Procs : SessionCall(call[s])'
      BY <1>2, <2>1 DEF TokenRequestByRefreshToken, SessionInv, SessionCall, OwnedBy,
         TypeOK
    <2> QED
      BY <2>1, <2>2 DEF SessionInv, DevicesMinted, DeviceKeys, SessionOwner, OwnedBy
  <1>3. ASSUME NEW p \in Procs, NEW r, NEW q,
               refreshTokens' \subseteq refreshTokens \cup {r},
               r.ds # Null => OwnedBy(r.ds, r.user),
               call' = [call EXCEPT ![p] = q], ClaimsNoSession(q),
               UNCHANGED <<deviceSessions, authRequests, cookie, nextDevice>>
        PROVE  SessionInv'
    <2>1. SessionOwner'
      BY <1>3 DEF SessionInv, SessionOwner, OwnedBy
    <2>2. \A s \in Procs : SessionCall(call[s])'
      BY <1>3 DEF SessionInv, SessionCall, OwnedBy, TypeOK, ClaimsNoSession
    <2> QED
      BY <1>3, <2>1, <2>2 DEF SessionInv, DevicesMinted, DeviceKeys
  <1>4. ASSUME NEW p \in Procs, ExchangeCode(p) PROVE SessionInv'
    <2> DEFINE q == [call[p] EXCEPT !.at = "claims", !.grant = nextGrant]
               r == NewRefresh(call[p], call[p].ds, nextGrant)
    <2>1. call[p].at = "exchange" /\ call[p] \in TokenCall
          /\ UNCHANGED <<deviceSessions, authRequests, cookie, nextDevice>>
          /\ call' = [call EXCEPT ![p] = q]
          /\ refreshTokens' = refreshTokens \cup {r}
      BY <1>4, CallKind DEF ExchangeCode, TypeOK, TokenSteps
    <2>2. r.ds = call[p].ds /\ r.user = call[p].user
      BY DEF NewRefresh
    <2>3. r.ds # Null => OwnedBy(r.ds, r.user)
      BY <2>1, <2>2 DEF SessionInv, SessionCall
    <2>4. ClaimsNoSession(q)
      BY <2>1 DEF ClaimsNoSession, TokenCall
    <2> HIDE DEF q, r
    <2> QED
      BY <1>3, <2>1, <2>3, <2>4
  <1>5. ASSUME NEW p \in Procs, ExchangeCodeAccessOnly(p) PROVE SessionInv'
    <2> DEFINE q == [call[p] EXCEPT !.at = "claims"]
    <2>1. call[p] \in TokenCall
      BY <1>5, CallKind DEF ExchangeCodeAccessOnly, TypeOK, TokenSteps
    <2>2. q \in Call /\ ClaimsNoSession(q)
      BY <2>1 DEF Call, TokenCall, TokenSteps, ClaimsNoSession
    <2>3. SessionsStay /\ call' = [call EXCEPT ![p] = q]
      BY <1>5 DEF ExchangeCodeAccessOnly, SessionsStay, OwnedBy, SessionInv, DeviceKeys
    <2> HIDE DEF q
    <2> QED
      BY <2>2, <2>3, SessionInvStays
  <1>6. ASSUME NEW p \in Procs, Rotate(p) PROVE SessionInv'
    <2>1. call[p].at = "rotate" /\ call[p] \in TokenCall
          /\ UNCHANGED <<deviceSessions, authRequests, cookie, nextDevice>>
      BY <1>6, CallKind DEF Rotate, TypeOK, TokenSteps
    <2>2. CASE call' = [call EXCEPT ![p] = Idle]
               /\ UNCHANGED <<tokens, refreshTokens, nextGrant, grants, late>>
      <3>1. SessionsStay
        BY <2>1, <2>2 DEF SessionsStay, OwnedBy, SessionInv, DeviceKeys
      <3> QED
        BY <2>2, <3>1, IdleClaims, SessionInvStays
    <2>3. ASSUME NEW o \in refreshTokens, o.id = call[p].token,
                 Replace(p, o, o.access, o.ds)
          PROVE  SessionInv'
      <3> DEFINE q == [call[p] EXCEPT !.at = "claims", !.grant = nextGrant, !.ds = o.ds]
                 r == NewRefresh(call[p], o.ds, o.family)
      <3>1. call' = [call EXCEPT ![p] = q]
            /\ refreshTokens' = (refreshTokens \ {o}) \cup {r}
        BY <2>3 DEF Replace
      <3>2. r.ds = o.ds /\ r.user = call[p].user
        BY DEF NewRefresh
      <3>3. o.ds # Null => OwnedBy(o.ds, o.user)
        BY DEF SessionInv, SessionOwner
      <3>4. r.ds # Null => OwnedBy(r.ds, r.user)
        BY <2>1, <2>3, <3>2, <3>3, RotationUser
      <3>5. ClaimsNoSession(q)
        BY <2>1 DEF ClaimsNoSession, TokenCall
      <3> HIDE DEF q, r
      <3> QED
        BY <1>3, <2>1, <3>1, <3>4, <3>5
    <2> QED
      BY <1>6, <2>2, <2>3 DEF Rotate
  <1>7. ASSUME NEW p \in Procs, GetPrivateClaims(p) PROVE SessionInv'
    <2>1. call[p] \in TokenCall
      BY <1>7, CallKind DEF GetPrivateClaims, TypeOK, TokenSteps
    <2>2. PICK i \in LatestDeviceSessionID(call[p].user, call[p].client) :
            call' = [call EXCEPT ![p] = [call[p] EXCEPT !.at = "respond", !.dsid = i]]
      BY <1>7 DEF GetPrivateClaims
    <2>3. i \in Nat
      BY <2>2 DEF LatestDeviceSessionID, TypeOK, RefreshToken, Null
    <2> DEFINE q == [call[p] EXCEPT !.at = "respond", !.dsid = i]
    <2>4. q \in Call /\ ClaimsNoSession(q)
      BY <2>1, <2>3 DEF Call, TokenCall, TokenSteps, ClaimsNoSession
    <2>5. SessionsStay
      BY <1>7 DEF GetPrivateClaims, SessionsStay, OwnedBy, SessionInv, DeviceKeys,
         tables, ids
    <2>6. call' = [call EXCEPT ![p] = q]
      BY <2>2
    <2> HIDE DEF q
    <2> QED
      BY <2>4, <2>5, <2>6, SessionInvStays
  <1>8. ASSUME NEW p \in Procs, Respond(p) PROVE SessionInv'
    <2>1. SessionsStay /\ call' = [call EXCEPT ![p] = Idle]
      BY <1>8 DEF Respond, SessionsStay, OwnedBy, SessionInv, DeviceKeys, ids
    <2> QED
      BY <2>1, IdleClaims, SessionInvStays
  <1>9. ASSUME NEW c \in Clients, ClientCredentials(c) PROVE SessionInv'
    <2>1. SessionsStay /\ UNCHANGED call
      BY <1>9 DEF ClientCredentials, SessionsStay, OwnedBy, SessionInv, DeviceKeys
    <2> QED
      BY <2>1, SessionInvStays
  <1> QED
    BY <1>1, <1>2, <1>4, <1>5, <1>6, <1>7, <1>8, <1>9 DEF TokenNext

\* A revocation marks a session and keeps its owner.
LEMMA RevocationStays ==
    ASSUME TypeOK, SessionInv, NEW id, NEW u,
           \/ RevokeByID(id, u)
           \/ UNCHANGED <<deviceSessions, refreshTokens, ended>>,
           UNCHANGED <<authRequests, cookie, nextDevice>>
    PROVE  SessionsStay
  <1>1. CASE UNCHANGED <<deviceSessions, refreshTokens, ended>>
    BY <1>1 DEF SessionsStay, OwnedBy, SessionInv, DeviceKeys
  <1>2. CASE RevokeByID(id, u)
    <2> DEFINE Mark(d) == [d EXCEPT !.revoked = d.revoked \/ d.id = id]
    <2>1. deviceSessions' = {Mark(d) : d \in deviceSessions}
          /\ refreshTokens' \subseteq refreshTokens
      BY <1>2 DEF RevokeByID
    <2>2. \A d \in deviceSessions : Mark(d).id = d.id /\ Mark(d).user = d.user
      BY DEF TypeOK, DeviceSession
    <2> HIDE DEF Mark
    <2>3. \A d \in deviceSessions : OwnedBy(d.id, d.user)'
      BY <2>1, <2>2 DEF OwnedBy
    <2>4. \A d \in deviceSessions' : \E e \in deviceSessions : d.id = e.id
      BY <2>1, <2>2
    <2>5. DeviceKeys'
      BY <2>1, <2>2 DEF SessionInv, DeviceKeys
    <2> QED
      BY <2>1, <2>3, <2>4, <2>5 DEF SessionsStay
  <1> QED
    BY <1>1, <1>2

LEMMA SessionInvRevoke ==
    ASSUME TypeOK, SessionInv, RevokeNextState
    PROVE  SessionInv'
  <1>1. ASSUME NEW d \in deviceSessions, RevokeSession(d) PROVE SessionInv'
    <2>1. RevokeByID(d.id, d.user) /\ UNCHANGED <<authRequests, cookie, nextDevice, call>>
      BY <1>1 DEF RevokeSession, ids
    <2> QED
      BY <2>1, RevocationStays, SessionInvStays
  <1>2. ASSUME NEW p \in Procs, NEW u \in Users,
               NEW current \in {Null} \cup {d.id : d \in deviceSessions},
               RevokeAllOthers(p, u, current)
        PROVE SessionInv'
    <2>1. SessionsStay
      BY <1>2 DEF RevokeAllOthers, SessionsStay, OwnedBy, SessionInv, DeviceKeys, tables, ids
    <2>2. PICK ds \in SUBSET Nat :
            call' = [call EXCEPT ![p] = [at |-> "revokeAll", user |-> u, todo |-> ds]]
      BY <1>2 DEF RevokeAllOthers, TypeOK, DeviceSession
    <2> DEFINE q == [at |-> "revokeAll", user |-> u, todo |-> ds]
    <2>3. q \in Call /\ ClaimsNoSession(q)
      BY DEF Call, RevokeCall, ClaimsNoSession
    <2>4. call' = [call EXCEPT ![p] = q]
      BY <2>2
    <2> HIDE DEF q
    <2> QED
      BY <2>1, <2>3, <2>4, SessionInvStays
  <1>3. ASSUME NEW p \in Procs, RevokeNext(p) PROVE SessionInv'
    <2>1. call[p] \in RevokeCall /\ UNCHANGED <<authRequests, cookie, nextDevice>>
      BY <1>3, CallKind DEF RevokeNext, TypeOK, ids
    <2>2. PICK id \in call[p].todo :
            /\ \/ RevokeByID(id, call[p].user)
               \/ UNCHANGED <<deviceSessions, refreshTokens, ended>>
            /\ call' = [call EXCEPT ![p] =
                  IF call[p].todo = {id} THEN Idle
                  ELSE [call[p] EXCEPT !.todo = @ \ {id}]]
      BY <1>3 DEF RevokeNext
    <2>3. SessionsStay
      BY <2>1, <2>2, RevocationStays
    <2> DEFINE q == [call[p] EXCEPT !.todo = @ \ {id}]
    <2>4. q \in Call /\ ClaimsNoSession(q)
      BY <2>1 DEF Call, RevokeCall, ClaimsNoSession
    <2>5. call' = [call EXCEPT ![p] = Idle] \/ call' = [call EXCEPT ![p] = q]
      BY <2>2
    <2> HIDE DEF q
    <2> QED
      BY <2>3, <2>4, <2>5, IdleClaims, SessionInvStays
  <1>4. ASSUME NEW u \in Users, NEW c \in Clients, TerminateSession(u, c)
        PROVE SessionInv'
    BY <1>4, SessionInvStays DEF TerminateSession, SessionsStay, OwnedBy, SessionInv,
       DeviceKeys, ids
  <1>5. ASSUME NEW r \in refreshTokens, RevokeRefreshToken(r) PROVE SessionInv'
    BY <1>5, SessionInvStays DEF RevokeRefreshToken, SessionsStay, OwnedBy, SessionInv,
       DeviceKeys, ids
  <1>6. ASSUME NEW t \in tokens, RevokeAccessToken(t) PROVE SessionInv'
    BY <1>6, SessionInvStays DEF RevokeAccessToken, SessionsStay, OwnedBy, SessionInv,
       DeviceKeys, ids
  <1> QED
    BY <1>1, <1>2, <1>3, <1>4, <1>5, <1>6 DEF RevokeNextState

\* The cleanup loops, failures and time.
LEMMA SessionInvSystem ==
    ASSUME TypeOK, SessionInv, SweepInv, SystemNext
    PROVE  SessionInv'
  <1>1. ASSUME NEW p \in Procs, SweepTokens(p) PROVE SessionInv'
    <2> DEFINE q == [at |-> "sweepRefresh", before |-> now]
    <2>1. SessionsStay /\ call' = [call EXCEPT ![p] = q]
      BY <1>1 DEF SweepTokens, SessionsStay, OwnedBy, SessionInv, DeviceKeys, ids
    <2>2. q \in Call /\ ClaimsNoSession(q)
      BY DEF TypeOK, Call, SweepCall, ClaimsNoSession
    <2> HIDE DEF q
    <2> QED
      BY <2>1, <2>2, SessionInvStays
  <1>2. ASSUME NEW p \in Procs, SweepRefreshTokens(p) \/ Fail(p) PROVE SessionInv'
    <2>1. SessionsStay /\ call' = [call EXCEPT ![p] = Idle]
      BY <1>2 DEF SweepRefreshTokens, Fail, SessionsStay, OwnedBy, SessionInv,
         DeviceKeys, tables, ids
    <2> QED
      BY <2>1, IdleClaims, SessionInvStays
  <1>3. ASSUME NEW p \in Procs, FindRevokedBefore(p) PROVE SessionInv'
    <2> DEFINE unused == {d.id : d \in {e \in deviceSessions : RevokedLongAgo(e) /\ ~InUse(e)}}
    <2>1. PICK found \in SUBSET unused :
            call' = [call EXCEPT ![p] = [at |-> "dropSessions", found |-> found]]
      BY <1>3 DEF FindRevokedBefore
    <2> DEFINE q == [at |-> "dropSessions", found |-> found]
    <2>2. q \in Call /\ ClaimsNoSession(q) /\ call' = [call EXCEPT ![p] = q]
      BY <2>1 DEF Call, DropCall, ClaimsNoSession, TypeOK, DeviceSession
    <2>3. SessionsStay
      BY <1>3 DEF FindRevokedBefore, SessionsStay, OwnedBy, SessionInv, DeviceKeys,
         tables, ids
    <2> HIDE DEF q
    <2> QED
      BY <2>2, <2>3, SessionInvStays
  <1>4. ASSUME NEW p \in Procs, DeleteRevokedBefore(p) PROVE SessionInv'
    <2> DEFINE gone == call[p].found
               Detached(r) == [r EXCEPT !.ds = IF @ \in gone THEN Null ELSE @]
    <2>1. /\ refreshTokens' = {Detached(r) : r \in refreshTokens}
          /\ deviceSessions' = {d \in deviceSessions : d.id \notin gone}
          /\ UNCHANGED <<authRequests, cookie, nextDevice>>
          /\ \A id \in gone : Forgotten(id)
      BY <1>4 DEF DeleteRevokedBefore, ids, SweepInv
    <2>2. ASSUME NEW r \in refreshTokens
          PROVE  /\ Detached(r).user = r.user
                 /\ Detached(r).ds = IF r.ds \in gone THEN Null ELSE r.ds
      BY DEF TypeOK, RefreshToken
    <2>3. \A s \in Procs : SessionCall(call[s])'
      <3>1. ASSUME NEW s \in Procs, call[s].at = "dropSessions" \/ s = p
            PROVE  SessionCall(call[s])'
        <4>1. call'[s].at \in {"idle", "dropSessions"}
          <5>1. call[s].at = "dropSessions" => call[s] \in DropCall
            BY CallKind DEF TypeOK
          <5> QED
            BY <1>4, <3>1, <5>1 DEF DeleteRevokedBefore, Idle, DropCall
        <4> QED
          BY <4>1 DEF SessionCall
      <3>2. ASSUME NEW s \in Procs, call[s].at # "dropSessions", s # p
            PROVE  SessionCall(call[s])'
        <4>1. call'[s] = call[s]
          BY <1>4, <3>2 DEF DeleteRevokedBefore
        <4>2. Names(call[s]) \cap gone = {}
          BY <2>1 DEF Forgotten
        <4>3. ASSUME NEW id, NEW u, OwnedBy(id, u), id \notin gone PROVE OwnedBy(id, u)'
          BY <2>1, <4>3 DEF OwnedBy
        <4> HIDE DEF gone
        <4> QED
          BY <2>1, <4>1, <4>2, <4>3 DEF SessionInv, SessionCall, Names, LoginSteps
      <3> QED
        BY <3>1, <3>2
    <2> HIDE DEF Detached, gone
    <2>4. ASSUME NEW id, NEW u, OwnedBy(id, u), id \notin gone PROVE OwnedBy(id, u)'
      BY <2>1, <2>4 DEF OwnedBy
    <2>5. SessionOwner'
      BY <2>1, <2>2, <2>4 DEF SessionInv, SessionOwner, Forgotten
    <2> QED
      BY <2>1, <2>3, <2>5 DEF SessionInv, DevicesMinted, DeviceKeys
  <1>5. CASE Tick
    BY <1>5, SessionInvStays DEF Tick, SessionsStay, OwnedBy, SessionInv, DeviceKeys,
       tables, ids
  <1> QED
    BY <1>1, <1>2, <1>3, <1>4, <1>5 DEF SystemNext

LEMMA SessionInvNext ==
    TypeOK /\ GrantInv /\ SessionInv /\ SweepInv /\ [Next]_vars => SessionInv'
  <1> SUFFICES ASSUME TypeOK, GrantInv, SessionInv, SweepInv, [Next]_vars
               PROVE  SessionInv'
    OBVIOUS
  <1>1. CASE UNCHANGED vars
    BY <1>1, SessionInvStays DEF vars, tables, ids, SessionsStay, OwnedBy, SessionInv,
       DeviceKeys
  <1> QED
    BY <1>1, SessionInvLogin, SessionInvToken, SessionInvRevoke, SessionInvSystem
       DEF Next

-----------------------------------------------------------------------------
(***************************************************************************)
(* The cleanup of device sessions: what its DELETE has found stays         *)
(* forgotten until the rows go.                                            *)
(***************************************************************************)
\* In this step only request p moves, to one of the given steps.
OnlyMoves(p, ats) ==
    (\A s \in Procs \ {p} : call'[s] = call[s]) /\ call'[p].at \in ats

LEMMA SweepInvInit == Init => SweepInv
  BY DEF Init, SweepInv, Idle

\* Sweeps in flight keep what they have found.
SweepsStay ==
    \A p \in Procs : call'[p].at = "dropSessions" => call'[p] = call[p]

\* Nothing names a session it did not name before, revoked sessions stay, and
\* refresh tokens at most go away.
Forgetful ==
    /\ \A d \in deviceSessions :
          d.revoked => \E e \in deviceSessions' : e.id = d.id /\ e.revoked
    /\ \A p \in Procs : call'[p].at \in LoginSteps \cup {"exchange"} =>
          call[p].at \in LoginSteps \cup {"exchange"} /\ call'[p].ds = call[p].ds
    /\ authRequests' \subseteq authRequests
    /\ refreshTokens' \subseteq refreshTokens
    /\ late \subseteq late'
    /\ now' \in Nat /\ now <= now'

LEMMA SweepInvForgetful ==
    ASSUME TypeOK, SweepInv, SweepsStay, Forgetful
    PROVE  SweepInv'
  <1>1. ASSUME NEW id, Forgotten(id) PROVE Forgotten(id)'
    <2>1. ASSUME NEW r \in refreshTokens, Unexpired(r)' PROVE Unexpired(r)
      BY <2>1 DEF Forgetful, Unexpired, TypeOK, RefreshToken
    <2> QED
      BY <1>1, <2>1 DEF Forgotten, Forgetful, Names
  <1> QED
    BY <1>1 DEF SweepInv, SweepsStay

\* A login never picks up a forgotten session: it creates a new one or touches
\* one that is not revoked.
LEMMA SweepInvLogin ==
    ASSUME TypeOK, SessionInv, SweepInv, LoginNext
    PROVE  SweepInv'
  <1>1. ASSUME NEW b \in Browsers, SelectProvider(b) PROVE SweepInv'
    BY <1>1, SweepInvForgetful DEF SelectProvider, SweepsStay, Forgetful, tables, history,
       TypeOK
  <1>2. ASSUME NEW p \in Procs, NEW b \in Browsers, NEW u \in Users,
               NEW c \in Clients, FindOrCreate(p, b, u, c)
        PROVE  SweepInv'
    <2>1. UNCHANGED <<now, deviceSessions, authRequests, refreshTokens, late>>
      BY <1>2 DEF FindOrCreate, tables, history
    <2>2. PICK q : /\ call' = [call EXCEPT ![p] = q]
                   /\ q.at \in {"touch", "create"}
                   /\ \A d \in deviceSessions : d.id = q.ds => ~d.revoked
      <3> DEFINE dsID == IF cookie[b] = Null THEN nextDevice ELSE cookie[b]
                 ds   == IF DeviceExists(dsID) /\ ~Reusable(dsID, u)
                         THEN nextDevice ELSE dsID
                 q    == [at |-> IF Reusable(dsID, u) THEN "touch" ELSE "create",
                          browser |-> b, user |-> u, client |-> c,
                          dsID |-> dsID, ds |-> ds]
      <3>1. call' = [call EXCEPT ![p] = q]
        BY <1>2 DEF FindOrCreate
      <3>2. \A d \in deviceSessions : d.id # nextDevice
        BY DEF SessionInv, DevicesMinted, TypeOK
      <3>3. \A d \in deviceSessions : d.id = ds => ~d.revoked
        BY <3>2 DEF DeviceExists, Reusable, SessionInv, DeviceKeys
      <3>4. q.ds = ds /\ q.at \in {"touch", "create"}
        OBVIOUS
      <3> HIDE DEF q, ds, dsID
      <3> QED
        BY <3>1, <3>3, <3>4
    <2>3. ASSUME NEW id, Forgotten(id) PROVE Forgotten(id)'
      BY <2>1, <2>2, <2>3 DEF Forgotten, Names, TypeOK, Unexpired
    <2>4. SweepsStay
      BY <2>2 DEF SweepsStay, TypeOK
    <2> QED
      BY <2>3, <2>4 DEF SweepInv, SweepsStay
  <1>3. ASSUME NEW p \in Procs, TouchDevice(p) PROVE SweepInv'
    <2>1. call[p] \in LoginCall
      BY <1>3, CallKind DEF TouchDevice, TypeOK, LoginSteps
    <2> QED
      BY <1>3, <2>1, SweepInvForgetful DEF TouchDevice, SweepsStay, Forgetful, TypeOK,
         tables, history, LoginCall, LoginSteps
  <1>4. ASSUME NEW p \in Procs, CreateDevice(p) PROVE SweepInv'
    <2>1. call[p] \in LoginCall
      BY <1>4, CallKind DEF CreateDevice, TypeOK, LoginSteps
    <2>2. \/ call' = [call EXCEPT ![p] = Idle]
          \/ call' = [call EXCEPT ![p] = [call[p] EXCEPT !.at = "complete"]]
      BY <1>4 DEF CreateDevice
    <2>3. call[p].at = "create" /\ deviceSessions \subseteq deviceSessions'
          /\ UNCHANGED <<now, authRequests, refreshTokens, late>>
      BY <1>4 DEF CreateDevice, history
    <2> QED
      BY <2>1, <2>2, <2>3, SweepInvForgetful DEF SweepsStay, Forgetful, TypeOK, Idle,
         LoginCall, LoginSteps
  <1>5. ASSUME NEW p \in Procs, CompleteLogin(p) PROVE SweepInv'
    <2> DEFINE a == [id |-> nextLogin, user |-> call[p].user, client |-> call[p].client,
                     ds |-> call[p].ds]
    <2>1. authRequests' = authRequests \cup {a} /\ a.ds = call[p].ds
      BY <1>5 DEF CompleteLogin
    <2> HIDE DEF a
    <2>2. /\ call[p].at = "complete" /\ call' = [call EXCEPT ![p] = Idle]
          /\ UNCHANGED <<now, deviceSessions, refreshTokens, late>>
      BY <1>5 DEF CompleteLogin, history
    <2>3. ASSUME NEW id, Forgotten(id) PROVE Forgotten(id)'
      <3>1. id # a.ds
        BY <2>1, <2>2, <2>3 DEF Forgotten, Names, LoginSteps
      <3> QED
        BY <2>1, <2>2, <2>3, <3>1 DEF Forgotten, Names, TypeOK, Unexpired, Idle, LoginSteps
    <2>4. SweepsStay
      BY <2>2 DEF SweepsStay, TypeOK, Idle
    <2> QED
      BY <2>3, <2>4 DEF SweepInv, SweepsStay
  <1>6. ASSUME NEW a \in authRequests, ExpireAuthRequest(a) PROVE SweepInv'
    BY <1>6, SweepInvForgetful DEF ExpireAuthRequest, SweepsStay, Forgetful, history,
       TypeOK
  <1> QED
    BY <1>1, <1>2, <1>3, <1>4, <1>5, <1>6 DEF LoginNext

\* A code or a token of a forgotten session can at most be refreshed late.
LEMMA SweepInvToken ==
    ASSUME TypeOK, SweepInv, TokenNext
    PROVE  SweepInv'
  <1>0. LoginSteps \cap TokenSteps = {}
    BY DEF LoginSteps, TokenSteps
  <1>1. ASSUME NEW p \in Procs, NEW a \in authRequests, AuthRequestByCode(p, a)
        PROVE  SweepInv'
    <2>1. OnlyMoves(p, {"exchange"}) /\ call'[p].ds = a.ds
      BY <1>1 DEF AuthRequestByCode, OnlyMoves, TypeOK
    <2>2. UNCHANGED <<now, deviceSessions, authRequests, refreshTokens, late>>
      BY <1>1 DEF AuthRequestByCode, tables, history
    <2>3. ASSUME NEW id, Forgotten(id) PROVE Forgotten(id)'
      BY <2>1, <2>2, <2>3 DEF Forgotten, Names, TypeOK, Unexpired, OnlyMoves
    <2>4. SweepsStay
      BY <2>1 DEF SweepsStay, TypeOK, OnlyMoves
    <2> QED
      BY <2>3, <2>4 DEF SweepInv, SweepsStay
  <1>2. ASSUME NEW p \in Procs, NEW r \in refreshTokens, TokenRequestByRefreshToken(p, r)
        PROVE  SweepInv'
    BY <1>2, SweepInvForgetful DEF TokenRequestByRefreshToken, SweepsStay, Forgetful,
       TypeOK, tables, history, LoginSteps
  <1>3. ASSUME NEW p \in Procs, NEW r, NEW q, call' = [call EXCEPT ![p] = q],
               q.at \notin {"dropSessions", "exchange"} \cup LoginSteps,
               refreshTokens' \subseteq refreshTokens \cup {r},
               \A id : Forgotten(id) /\ r.ds = id => r.family \in late',
               late \subseteq late', UNCHANGED <<now, deviceSessions, authRequests>>
        PROVE  SweepInv'
    <2>1. ASSUME NEW id, Forgotten(id) PROVE Forgotten(id)'
      BY <1>3, <2>1 DEF Forgotten, Names, TypeOK, Unexpired
    <2>2. SweepsStay
      BY <1>3 DEF SweepsStay, TypeOK
    <2> QED
      BY <2>1, <2>2 DEF SweepInv, SweepsStay
  <1>4. ASSUME NEW p \in Procs, ExchangeCode(p) PROVE SweepInv'
    <2> DEFINE q == [call[p] EXCEPT !.at = "claims", !.grant = nextGrant]
               r == NewRefresh(call[p], call[p].ds, nextGrant)
    <2>1. /\ call[p].at = "exchange" /\ call[p] \in TokenCall
          /\ UNCHANGED <<now, deviceSessions, authRequests, late>>
          /\ call' = [call EXCEPT ![p] = q]
          /\ refreshTokens' = refreshTokens \cup {r}
      BY <1>4, CallKind DEF ExchangeCode, TypeOK, TokenSteps
    <2>2. \A id : Forgotten(id) => r.ds # id
      BY <2>1 DEF NewRefresh, Forgotten, Names
    <2>3. q.at = "claims"
      BY <2>1 DEF TokenCall
    <2> HIDE DEF q, r
    <2> QED
      BY <1>3, <2>1, <2>2, <2>3 DEF LoginSteps
  <1>5. ASSUME NEW p \in Procs, Rotate(p) PROVE SweepInv'
    <2>1. /\ call[p].at = "rotate" /\ call[p] \in TokenCall
          /\ UNCHANGED <<now, deviceSessions, authRequests>>
      BY <1>5, CallKind DEF Rotate, TypeOK, TokenSteps
    <2>2. CASE call' = [call EXCEPT ![p] = Idle]
               /\ UNCHANGED <<tokens, refreshTokens, nextGrant, grants, late>>
      BY <2>1, <2>2, SweepInvForgetful DEF SweepsStay, Forgetful, TypeOK, Idle, LoginSteps
    <2>3. ASSUME NEW o \in refreshTokens, Replace(p, o, o.access, o.ds) PROVE SweepInv'
      <3> DEFINE q == [call[p] EXCEPT !.at = "claims", !.grant = nextGrant, !.ds = o.ds]
                 r == NewRefresh(call[p], o.ds, o.family)
      <3>1. /\ call' = [call EXCEPT ![p] = q]
            /\ refreshTokens' = (refreshTokens \ {o}) \cup {r}
            /\ late' = IF Unexpired(o) THEN late ELSE late \cup {o.family}
        BY <2>3 DEF Replace
      <3>2. \A id : Forgotten(id) /\ r.ds = id => r.family \in late'
        BY <3>1 DEF NewRefresh, Forgotten
      <3>3. q.at = "claims"
        BY <2>1 DEF TokenCall
      <3> HIDE DEF q, r
      <3> QED
        BY <1>3, <2>1, <3>1, <3>2, <3>3 DEF LoginSteps
    <2> QED
      BY <1>5, <2>2, <2>3 DEF Rotate
  <1>6. ASSUME NEW p \in Procs,
               ExchangeCodeAccessOnly(p) \/ GetPrivateClaims(p) \/ Respond(p)
        PROVE  SweepInv'
    <2>1. /\ UNCHANGED <<now, deviceSessions, refreshTokens, late>>
          /\ authRequests' \subseteq authRequests
      BY <1>6 DEF ExchangeCodeAccessOnly, GetPrivateClaims, Respond, tables, history
    <2>2. call[p].at \in TokenSteps
      BY <1>6 DEF ExchangeCodeAccessOnly, GetPrivateClaims, Respond, TokenSteps
    <2>3. call[p] \in TokenCall
      BY <2>2, CallKind DEF TypeOK
    <2>4. OnlyMoves(p, {"claims", "respond", "idle"})
      <3>1. CASE ExchangeCodeAccessOnly(p)
        BY <2>3, <3>1 DEF ExchangeCodeAccessOnly, TokenCall, OnlyMoves, TypeOK
      <3>2. CASE GetPrivateClaims(p)
        <4>1. PICK i : call' = [call EXCEPT ![p] = [call[p] EXCEPT !.at = "respond", !.dsid = i]]
          BY <3>2 DEF GetPrivateClaims
        <4> QED
          BY <2>3, <4>1 DEF TokenCall, OnlyMoves, TypeOK
      <3>3. CASE Respond(p)
        BY <3>3 DEF Respond, Idle, OnlyMoves, TypeOK
      <3> QED
        BY <1>6, <3>1, <3>2, <3>3
    <2> QED
      BY <2>1, <2>4, SweepInvForgetful DEF SweepsStay, Forgetful, TypeOK, LoginSteps, OnlyMoves
  <1>7. ASSUME NEW c \in Clients, ClientCredentials(c) PROVE SweepInv'
    BY <1>7, SweepInvForgetful DEF ClientCredentials, SweepsStay, Forgetful, TypeOK, history
  <1> QED
    BY <1>1, <1>2, <1>4, <1>5, <1>6, <1>7 DEF TokenNext

\* A revocation binds nothing, and keeps the sessions it marks.
LEMMA SweepInvRevoke ==
    ASSUME TypeOK, SweepInv, RevokeNextState
    PROVE  SweepInv'
  <1>1. ASSUME NEW id, NEW u, RevokeByID(id, u)
        PROVE  /\ refreshTokens' \subseteq refreshTokens
               /\ \A d \in deviceSessions :
                     d.revoked => \E e \in deviceSessions' : e.id = d.id /\ e.revoked
    <2> DEFINE Mark(d) == [d EXCEPT !.revoked = d.revoked \/ d.id = id]
    <2>1. /\ deviceSessions' = {Mark(d) : d \in deviceSessions}
          /\ refreshTokens' \subseteq refreshTokens
      BY <1>1 DEF RevokeByID
    <2>2. \A d \in deviceSessions : Mark(d).id = d.id /\ (d.revoked => Mark(d).revoked)
      BY DEF TypeOK, DeviceSession
    <2> HIDE DEF Mark
    <2> QED
      BY <2>1, <2>2
  <1>2. ASSUME NEW d \in deviceSessions, RevokeSession(d) PROVE SweepInv'
    <2>1. /\ RevokeByID(d.id, d.user)
          /\ UNCHANGED <<now, authRequests, call, late>>
      BY <1>2 DEF RevokeSession
    <2> QED
      BY <1>1, <2>1, SweepInvForgetful DEF SweepsStay, Forgetful, TypeOK
  <1>3. ASSUME NEW p \in Procs, NEW u \in Users,
               NEW current \in {Null} \cup {d.id : d \in deviceSessions},
               RevokeAllOthers(p, u, current)
        PROVE SweepInv'
    <2>1. UNCHANGED <<now, deviceSessions, authRequests, refreshTokens, late>>
      BY <1>3 DEF RevokeAllOthers, tables, history
    <2>2. PICK ds : call' = [call EXCEPT ![p] = [at |-> "revokeAll", user |-> u, todo |-> ds]]
      BY <1>3 DEF RevokeAllOthers
    <2> QED
      BY <2>1, <2>2, SweepInvForgetful DEF SweepsStay, Forgetful, TypeOK, LoginSteps
  <1>4. ASSUME NEW p \in Procs, RevokeNext(p) PROVE SweepInv'
    <2>1. /\ call[p] \in RevokeCall /\ call[p].at = "revokeAll"
          /\ UNCHANGED <<now, authRequests, late>>
      BY <1>4, CallKind DEF RevokeNext, TypeOK
    <2>2. PICK id \in call[p].todo :
            /\ \/ RevokeByID(id, call[p].user)
               \/ UNCHANGED <<deviceSessions, refreshTokens, ended>>
            /\ call' = [call EXCEPT ![p] =
                  IF call[p].todo = {id} THEN Idle
                  ELSE [call[p] EXCEPT !.todo = @ \ {id}]]
      BY <1>4 DEF RevokeNext
    <2>3. /\ refreshTokens' \subseteq refreshTokens
          /\ \A d \in deviceSessions :
                d.revoked => \E e \in deviceSessions' : e.id = d.id /\ e.revoked
      BY <1>1, <2>2
    <2>4. OnlyMoves(p, {"idle", "revokeAll"})
      BY <2>1, <2>2 DEF Idle, RevokeCall, OnlyMoves, TypeOK
    <2> QED
      BY <2>1, <2>3, <2>4, SweepInvForgetful DEF SweepsStay, Forgetful, TypeOK, LoginSteps, OnlyMoves
  <1>5. ASSUME NEW u \in Users, NEW c \in Clients, TerminateSession(u, c)
        PROVE SweepInv'
    BY <1>5, SweepInvForgetful DEF TerminateSession, SweepsStay, Forgetful, TypeOK
  <1>6. ASSUME NEW r \in refreshTokens, RevokeRefreshToken(r) PROVE SweepInv'
    BY <1>6, SweepInvForgetful DEF RevokeRefreshToken, SweepsStay, Forgetful, TypeOK
  <1>7. ASSUME NEW t \in tokens, RevokeAccessToken(t) PROVE SweepInv'
    BY <1>7, SweepInvForgetful DEF RevokeAccessToken, SweepsStay, Forgetful, TypeOK, history
  <1> QED
    BY <1>2, <1>3, <1>4, <1>5, <1>6, <1>7 DEF RevokeNextState

\* The snapshot finds sessions nothing points to; a sweep that deletes takes its
\* rows out of what the others have found.
LEMMA SweepInvSystem ==
    ASSUME TypeOK, SessionInv, SweepInv, SystemNext
    PROVE  SweepInv'
  <1>1. ASSUME NEW p \in Procs, SweepTokens(p) \/ SweepRefreshTokens(p) \/ Fail(p)
        PROVE  SweepInv'
    <2>1. OnlyMoves(p, {"idle", "sweepRefresh"})
      BY <1>1 DEF SweepTokens, SweepRefreshTokens, Fail, Idle, OnlyMoves, TypeOK
    <2>2. /\ UNCHANGED <<now, deviceSessions, authRequests, late>>
          /\ refreshTokens' \subseteq refreshTokens
      BY <1>1 DEF SweepTokens, SweepRefreshTokens, Fail, tables, history
    <2> QED
      BY <2>1, <2>2, SweepInvForgetful DEF SweepsStay, Forgetful, TypeOK, LoginSteps, OnlyMoves
  <1>2. ASSUME NEW p \in Procs, FindRevokedBefore(p) PROVE SweepInv'
    <2> DEFINE unused == {d.id : d \in {e \in deviceSessions : RevokedLongAgo(e) /\ ~InUse(e)}}
    <2>1. PICK found \in SUBSET unused :
            call' = [call EXCEPT ![p] = [at |-> "dropSessions", found |-> found]]
      BY <1>2 DEF FindRevokedBefore
    <2>2. UNCHANGED <<now, deviceSessions, authRequests, refreshTokens, late>>
      BY <1>2 DEF FindRevokedBefore, tables, history
    <2>3. ASSUME NEW id, Forgotten(id) PROVE Forgotten(id)'
      BY <2>1, <2>2, <2>3 DEF Forgotten, Names, TypeOK, Unexpired, LoginSteps
    <2>4. \A id \in unused : Forgotten(id)
      BY DEF Forgotten, RevokedLongAgo, InUse
    <2> HIDE DEF unused
    <2> QED
      BY <2>1, <2>3, <2>4 DEF SweepInv, TypeOK
  <1>3. ASSUME NEW p \in Procs, DeleteRevokedBefore(p) PROVE SweepInv'
    <2> DEFINE gone == call[p].found
               Detached(r) == [r EXCEPT !.ds = IF @ \in gone THEN Null ELSE @]
    <2>1. /\ refreshTokens' = {Detached(r) : r \in refreshTokens}
          /\ deviceSessions' = {d \in deviceSessions : d.id \notin gone}
          /\ UNCHANGED <<now, authRequests, late>>
      BY <1>3 DEF DeleteRevokedBefore, history
    <2>2. ASSUME NEW s \in Procs
          PROVE  /\ call'[s].at = "dropSessions" =>
                       /\ call[s].at = "dropSessions"
                       /\ call'[s].found = call[s].found \ gone
                 /\ Names(call'[s]) \subseteq Names(call[s])
      <3>1. CASE s = p
        <4>1. call'[s] = Idle
          BY <1>3, <3>1 DEF DeleteRevokedBefore
        <4> QED
          BY <4>1 DEF Idle, Names, LoginSteps
      <3>2. CASE s # p /\ call[s].at = "dropSessions"
        <4>1. call[s] \in DropCall
          BY <3>2, CallKind DEF TypeOK
        <4>2. call'[s] = [call[s] EXCEPT !.found = @ \ gone]
          BY <1>3, <3>2 DEF DeleteRevokedBefore
        <4>3. call'[s].at = "dropSessions" /\ call'[s].found = call[s].found \ gone
          BY <4>1, <4>2 DEF DropCall
        <4> QED
          BY <3>2, <4>3 DEF Names, LoginSteps
      <3>3. CASE s # p /\ call[s].at # "dropSessions"
        <4>1. call'[s] = call[s]
          BY <1>3, <3>3 DEF DeleteRevokedBefore
        <4> QED
          BY <3>3, <4>1 DEF Names
      <3> QED
        BY <3>1, <3>2, <3>3
    <2>3. \A r \in refreshTokens :
             /\ Detached(r).ds \in {Null, r.ds}
             /\ Detached(r).family = r.family /\ Detached(r).expiration = r.expiration
      BY DEF TypeOK, RefreshToken
    <2> HIDE DEF gone, Detached
    <2>4. ASSUME NEW id, Forgotten(id), id \notin gone PROVE Forgotten(id)'
      <3>1. id # Null
        BY <2>4 DEF Forgotten, SessionInv, DevicesMinted, Null, TypeOK
      <3>2. \A s \in Procs : id \notin Names(call'[s])
        BY <2>2, <2>4 DEF Forgotten
      <3>3. \E d \in deviceSessions' : d.id = id /\ d.revoked
        BY <2>1, <2>4 DEF Forgotten
      <3>4. \A r \in refreshTokens' : r.ds = id /\ Unexpired(r)' => r.family \in late'
        BY <2>1, <2>3, <2>4, <3>1 DEF Forgotten, Unexpired
      <3> QED
        BY <2>1, <2>4, <3>2, <3>3, <3>4 DEF Forgotten, Names
    <2> QED
      BY <2>2, <2>4 DEF SweepInv
  <1>4. CASE Tick
    BY <1>4, SweepInvForgetful DEF Tick, SweepsStay, Forgetful, TypeOK, tables, history
  <1> QED
    BY <1>1, <1>2, <1>3, <1>4 DEF SystemNext

LEMMA SweepInvNext == TypeOK /\ SessionInv /\ SweepInv /\ [Next]_vars => SweepInv'
  <1> SUFFICES ASSUME TypeOK, SessionInv, SweepInv, [Next]_vars PROVE SweepInv'
    OBVIOUS
  <1>1. CASE UNCHANGED vars
    BY <1>1, SweepInvForgetful DEF vars, tables, history, SweepsStay, Forgetful, TypeOK
  <1> QED
    BY <1>1, SweepInvLogin, SweepInvToken, SweepInvRevoke, SweepInvSystem DEF Next

-----------------------------------------------------------------------------
(***************************************************************************)
(* The theorems.                                                           *)
(***************************************************************************)

\* The inductive invariant: types, grants, sessions and sweeps.
THEOREM Invariance == Spec => []IInv
  <1>1. Init => IInv
    BY TypeOKInit, GrantInvInit, SessionInvInit, SweepInvInit DEF IInv
  <1>2. IInv /\ [Next]_vars => IInv'
    BY TypeOKNext, GrantInvNext, SessionInvNext, SweepInvNext DEF IInv
  <1> QED
    BY <1>1, <1>2, PTL DEF Spec

\* However many refresh requests have read a refresh token, at most one
\* rotation consumes it.
THEOREM RefreshTokensAreSingleUse == Spec => []RefreshSingleUse
  <1>1. IInv => RefreshSingleUse
    BY DEF IInv, GrantInv
  <1> QED
    BY <1>1, Invariance, PTL

\* A login holds one pair of tokens over any number of rotations.
THEOREM OnePairPerFamily == Spec => []OneTokenPairPerFamily
  <1>1. IInv => OneTokenPairPerFamily
    BY DEF IInv, GrantInv
  <1> QED
    BY <1>1, Invariance, PTL

\* A family whose refresh token was revoked never has one again.
THEOREM RevocationFinality == Spec => []RevocationIsFinal
  <1>1. IInv => RevocationIsFinal
    BY DEF IInv, GrantInv
  <1> QED
    BY <1>1, Invariance, PTL

\* A rotation hands on user and client, and the device session unless its login was
\* once refreshed late.
THEOREM RotationIdentity == Spec => []RotationKeepsIdentity
  <1>1. IInv => RotationKeepsIdentity
    BY DEF IInv, GrantInv
  <1> QED
    BY <1>1, Invariance, PTL

\* Tokens and auth requests only name device sessions of their own user.
THEOREM SessionOwnership == Spec => []SessionOwner
  <1>1. IInv => SessionOwner
    BY DEF IInv, SessionInv
  <1> QED
    BY <1>1, Invariance, PTL

\* A step issues tokens only as an exchange, which starts a family, as a rotation
\* of a row still in the table, or for a client of its own.
LEMMA Issuance ==
    ASSUME TypeOK, [Next]_vars
    PROVE  \/ /\ tokens' \subseteq tokens /\ refreshTokens' \subseteq refreshTokens
              /\ UNCHANGED grants /\ now' >= now
           \/ \E p \in Procs : ExchangeCode(p) \/ ExchangeCodeAccessOnly(p)
           \/ \E c \in Clients : ClientCredentials(c)
           \/ \E p \in Procs, r \in refreshTokens :
                 /\ call[p].at = "rotate" /\ call[p].token = r.id
                 /\ Replace(p, r, r.access, r.ds) /\ UNCHANGED now
           \/ \E p \in Procs : DeleteRevokedBefore(p)
  <1>1. CASE LoginNext
    BY <1>1 DEF LoginNext, SelectProvider, FindOrCreate, TouchDevice, CreateDevice,
                CompleteLogin, ExpireAuthRequest, tables, history, TypeOK
  <1>2. CASE TokenNext
    <2>0. now \in Nat
      BY DEF TypeOK
    <2>1. ASSUME NEW p \in Procs, Rotate(p)
          PROVE  \/ UNCHANGED <<tokens, refreshTokens, grants, now>>
                 \/ \E r \in refreshTokens :
                       /\ call[p].at = "rotate" /\ call[p].token = r.id
                       /\ Replace(p, r, r.access, r.ds) /\ UNCHANGED now
      BY <2>1 DEF Rotate
    <2>2. ASSUME ~\E p \in Procs : Rotate(p) \/ ExchangeCode(p) \/ ExchangeCodeAccessOnly(p),
                 ~\E c \in Clients : ClientCredentials(c)
          PROVE  UNCHANGED <<tokens, refreshTokens, grants, now>>
      BY <1>2, <2>2 DEF TokenNext, AuthRequestByCode, TokenRequestByRefreshToken,
                        GetPrivateClaims, Respond, tables, history
    <2> QED
      BY <1>2, <2>0, <2>1, <2>2 DEF TokenNext
  <1>3. CASE RevokeNextState
    BY <1>3 DEF RevokeNextState, RevokeSession, RevokeAllOthers, RevokeNext, RevokeByID,
                TerminateSession, RevokeRefreshToken, RevokeAccessToken, tables,
                history, TypeOK
  <1>4. CASE SystemNext
    BY <1>4 DEF SystemNext, SweepTokens, SweepRefreshTokens, FindRevokedBefore, Fail, Tick,
                tables, history, TypeOK
  <1>5. CASE UNCHANGED vars
    BY <1>5 DEF vars, tables, history, TypeOK
  <1> QED
    BY <1>1, <1>2, <1>3, <1>4, <1>5 DEF Next

\* The access tokens a revoked login still holds are its last ones.
THEOREM AccessEndsWithRevocation == Spec => NoAccessAfterRevocation
  <1>1. ASSUME IInv, [Next]_vars
        PROVE  \A t \in tokens' \ tokens : t.family \notin ended
    <2>1. /\ ended \subseteq Nat /\ nextGrant \in Nat
          /\ \A f \in ended : f < nextGrant
          /\ \A r \in refreshTokens : r.family \notin ended
      BY <1>1 DEF IInv, GrantInv, GrantIdsMinted, RevocationIsFinal, TypeOK
    <2>2. \A p \in Procs : ExchangeCode(p) \/ ExchangeCodeAccessOnly(p) =>
             \A t \in tokens' \ tokens : t.family = nextGrant
      BY DEF ExchangeCode, ExchangeCodeAccessOnly, NewAccess
    <2>3. \A c \in Clients : ClientCredentials(c) =>
             \A t \in tokens' \ tokens : t.family = nextGrant
      BY DEF ClientCredentials, NewAccess
    <2>4. \A p \in Procs, r \in refreshTokens : Replace(p, r, r.access, r.ds) =>
             \A t \in tokens' \ tokens : t.family = r.family
      BY DEF Replace, NewAccess
    <2>5. \A p \in Procs : DeleteRevokedBefore(p) => tokens' \subseteq tokens
      BY DEF DeleteRevokedBefore
    <2> QED
      BY <1>1, <2>1, <2>2, <2>3, <2>4, <2>5, Issuance DEF IInv
  <1> QED
    BY <1>1, Invariance, PTL DEF NoAccessAfterRevocation, Spec

\* However rotations, revocations and the two steps of the cleanup's DELETE
\* interleave, the unexpired token of a login names the device session of its code,
\* unless the login was once refreshed late.
THEOREM CleanupKeepsSessions == Spec => []LiveTokenKeepsSession
  <1>1. IInv => LiveTokenKeepsSession
    <2> SUFFICES ASSUME IInv, NEW r \in refreshTokens, NEW g \in grants,
                        r.family = g.family, Unexpired(r), r.family \notin late
                 PROVE  r.ds = g.ds
      BY DEF LiveTokenKeepsSession
    <2>1. PICK h \in grants :
            /\ h.family = r.family
            /\ r.ds = h.ds \/ (r.ds = Null /\ (Unexpired(r) => r.family \in late))
      BY DEF IInv, GrantInv, RowsMatchGrants
    <2>2. h.ds = g.ds
      BY <2>1 DEF IInv, GrantInv, OneSessionPerFamily
    <2> QED
      BY <2>1, <2>2
  <1> QED
    BY <1>1, Invariance, PTL

-----------------------------------------------------------------------------
(***************************************************************************)
(* The grant store implements Logins: each step begins a login, replaces   *)
(* the accepted token of one, ends some, or is none of Logins' business.   *)
(***************************************************************************)
Issued   == {<<g.family, g.id>> : g \in grants}
Accepted == {<<r.family, r.id>> :
                r \in {row \in refreshTokens : Unexpired(row) \/ Refreshing(row)}}

\* A refresh only begins with a token that is unexpired.
LEMMA RefreshBegins ==
    ASSUME TypeOK, [Next]_vars, NEW p \in Procs, call'[p].at = "rotate"
    PROVE  \/ call'[p] = call[p]
           \/ \E r \in refreshTokens : Unexpired(r) /\ call'[p].token = r.id
  <1> SUFFICES ASSUME ~\E r \in refreshTokens : TokenRequestByRefreshToken(p, r)
               PROVE  call'[p] = call[p]
    BY DEF TokenRequestByRefreshToken, TypeOK
  <1>0. ASSUME NEW s \in Procs, NEW ats, OnlyMoves(s, ats), "rotate" \notin ats
        PROVE  call'[p] = call[p]
    BY <1>0 DEF OnlyMoves
  <1>1. CASE LoginNext
    <2>1. ASSUME NEW s \in Procs, NEW b \in Browsers, NEW u \in Users,
                 NEW c \in Clients, FindOrCreate(s, b, u, c)
          PROVE  call'[p] = call[p]
      <3>1. OnlyMoves(s, {"touch", "create"})
        BY <2>1 DEF FindOrCreate, OnlyMoves, TypeOK
      <3> QED
        BY <1>0, <3>1
    <2>2. ASSUME NEW s \in Procs, TouchDevice(s) \/ CreateDevice(s) \/ CompleteLogin(s)
          PROVE  call'[p] = call[p]
      <3>1. call[s] \in LoginCall
        BY <2>2, CallKind DEF TouchDevice, CreateDevice, CompleteLogin, TypeOK, LoginSteps
      <3>2. OnlyMoves(s, {"idle", "complete"})
        <4>1. \/ call' = [call EXCEPT ![s] = Idle]
              \/ call' = [call EXCEPT ![s] = [call[s] EXCEPT !.at = "complete"]]
          BY <2>2 DEF TouchDevice, CreateDevice, CompleteLogin
        <4> QED
          BY <3>1, <4>1 DEF LoginCall, Idle, OnlyMoves, TypeOK
      <3> QED
        BY <1>0, <3>2
    <2>3. ASSUME UNCHANGED call PROVE call'[p] = call[p]
      BY <2>3
    <2> QED
      BY <1>1, <2>1, <2>2, <2>3 DEF LoginNext, SelectProvider, ExpireAuthRequest
  <1>2. CASE TokenNext
    <2>1. ASSUME NEW s \in Procs, NEW a \in authRequests, AuthRequestByCode(s, a)
          PROVE  call'[p] = call[p]
      <3>1. OnlyMoves(s, {"exchange"})
        BY <2>1 DEF AuthRequestByCode, OnlyMoves, TypeOK
      <3> QED
        BY <1>0, <3>1
    <2>2. ASSUME NEW s \in Procs, NEW r \in refreshTokens, TokenRequestByRefreshToken(s, r)
          PROVE  call'[p] = call[p]
      BY <2>2 DEF TokenRequestByRefreshToken, TypeOK
    <2>3. ASSUME NEW s \in Procs, \/ ExchangeCode(s) \/ ExchangeCodeAccessOnly(s)
                                  \/ Rotate(s) \/ GetPrivateClaims(s) \/ Respond(s)
          PROVE  call'[p] = call[p]
      <3>1. call[s] \in TokenCall
        BY <2>3, CallKind DEF ExchangeCode, ExchangeCodeAccessOnly, Rotate,
           GetPrivateClaims, Respond, TypeOK, TokenSteps
      <3>2. OnlyMoves(s, {"idle", "claims", "respond"})
        <4>1. CASE ExchangeCode(s)
          BY <3>1, <4>1 DEF ExchangeCode, TokenCall, OnlyMoves, TypeOK
        <4>2. CASE ExchangeCodeAccessOnly(s)
          BY <3>1, <4>2 DEF ExchangeCodeAccessOnly, TokenCall, OnlyMoves, TypeOK
        <4>3. CASE Rotate(s)
          <5>1. ASSUME NEW r \in refreshTokens, Replace(s, r, r.access, r.ds)
                PROVE  OnlyMoves(s, {"idle", "claims", "respond"})
            <6>1. call' = [call EXCEPT ![s] = [call[s] EXCEPT
                              !.at = "claims", !.grant = nextGrant, !.ds = r.ds]]
              BY <5>1 DEF Replace
            <6> QED
              BY <3>1, <6>1 DEF TokenCall, OnlyMoves, TypeOK
          <5>2. ASSUME call' = [call EXCEPT ![s] = Idle]
                PROVE  OnlyMoves(s, {"idle", "claims", "respond"})
            BY <5>2 DEF Idle, OnlyMoves, TypeOK
          <5> QED
            BY <4>3, <5>1, <5>2 DEF Rotate
        <4>4. CASE GetPrivateClaims(s)
          <5>1. PICK i : call' = [call EXCEPT ![s] = [call[s] EXCEPT !.at = "respond", !.dsid = i]]
            BY <4>4 DEF GetPrivateClaims
          <5> QED
            BY <3>1, <5>1 DEF TokenCall, OnlyMoves, TypeOK
        <4>5. CASE Respond(s)
          BY <4>5 DEF Respond, Idle, OnlyMoves, TypeOK
        <4> QED
          BY <2>3, <4>1, <4>2, <4>3, <4>4, <4>5
      <3> QED
        BY <1>0, <3>2
    <2>4. ASSUME NEW c \in Clients, ClientCredentials(c) PROVE call'[p] = call[p]
      BY <2>4 DEF ClientCredentials
    <2> QED
      BY <1>2, <2>1, <2>2, <2>3, <2>4 DEF TokenNext
  <1>3. CASE RevokeNextState
    <2>1. ASSUME NEW s \in Procs, RevokeNext(s) PROVE call'[p] = call[p]
      <3>1. call[s] \in RevokeCall
        BY <2>1, CallKind DEF RevokeNext, TypeOK
      <3>2. OnlyMoves(s, {"idle", "revokeAll"})
        BY <2>1, <3>1 DEF RevokeNext, RevokeCall, Idle, OnlyMoves, TypeOK
      <3> QED
        BY <1>0, <3>2
    <2>2. ASSUME NEW s \in Procs, NEW u \in Users,
                 NEW current \in {Null} \cup {d.id : d \in deviceSessions},
                 RevokeAllOthers(s, u, current)
          PROVE  call'[p] = call[p]
      <3>1. OnlyMoves(s, {"revokeAll"})
        BY <2>2 DEF RevokeAllOthers, OnlyMoves, TypeOK
      <3> QED
        BY <1>0, <3>1
    <2>3. ASSUME UNCHANGED call PROVE call'[p] = call[p]
      BY <2>3
    <2> QED
      BY <1>3, <2>1, <2>2, <2>3 DEF RevokeNextState, RevokeSession, TerminateSession,
         RevokeRefreshToken, RevokeAccessToken
  <1>4. CASE SystemNext
    <2>1. ASSUME NEW s \in Procs, \/ SweepTokens(s) \/ SweepRefreshTokens(s)
                                  \/ FindRevokedBefore(s) \/ Fail(s)
          PROVE  call'[p] = call[p]
      <3>1. OnlyMoves(s, {"idle", "sweepRefresh", "dropSessions"})
        BY <2>1 DEF SweepTokens, SweepRefreshTokens, FindRevokedBefore, Fail, Idle, OnlyMoves, TypeOK
      <3> QED
        BY <1>0, <3>1
    <2>2. ASSUME NEW s \in Procs, DeleteRevokedBefore(s) PROVE call'[p] = call[p]
      <3>1. call[p].at = "dropSessions" => call[p] \in DropCall
        BY CallKind DEF TypeOK
      <3> QED
        BY <2>2, <3>1 DEF DeleteRevokedBefore, Idle, DropCall
    <2>3. CASE Tick
      BY <2>3 DEF Tick
    <2> QED
      BY <1>4, <2>1, <2>2, <2>3 DEF SystemNext
  <1>5. CASE UNCHANGED vars
    BY <1>5 DEF vars
  <1> QED
    BY <1>1, <1>2, <1>3, <1>4, <1>5 DEF Next

\* Rows that go away, refreshes that begin or fail, and time that passes, only end
\* logins.
LEMMA RemovalEnds ==
    ASSUME TypeOK, GrantInv, [Next]_vars,
           refreshTokens' \subseteq refreshTokens, UNCHANGED grants, now' >= now,
           now' \in Nat
    PROVE  Accepted' \subseteq Accepted /\ Issued' = Issued
  <1>1. ASSUME NEW r \in refreshTokens, Unexpired(r)' PROVE Unexpired(r)
    BY <1>1 DEF Unexpired, TypeOK, RefreshToken
  <1>2. ASSUME NEW r \in refreshTokens, Refreshing(r)' PROVE Unexpired(r) \/ Refreshing(r)
    <2>1. PICK p \in Procs : call'[p].at = "rotate" /\ call'[p].token = r.id
      BY <1>2 DEF Refreshing
    <2>2. CASE call'[p] = call[p]
      BY <2>1, <2>2 DEF Refreshing
    <2>3. ASSUME NEW s \in refreshTokens, Unexpired(s), call'[p].token = s.id
          PROVE  Unexpired(r)
      <3>1. s.id = r.id
        BY <2>1, <2>3
      <3>2. s = r
        BY <3>1 DEF GrantInv, GrantKeys, RowsMatchGrants, OneTokenPairPerFamily
      <3> QED
        BY <2>3, <3>2
    <2> QED
      BY <2>1, <2>2, <2>3, RefreshBegins
  <1>3. ASSUME NEW r \in refreshTokens', Unexpired(r)' \/ Refreshing(r)'
        PROVE  r \in refreshTokens /\ (Unexpired(r) \/ Refreshing(r))
    BY <1>1, <1>2, <1>3
  <1> QED
    BY <1>3 DEF Accepted, Issued

\* The exchange of a code begins the login that bears the number of its grant.
LEMMA ExchangeBegins ==
    ASSUME TypeOK, GrantInv, NEW p \in Procs, ExchangeCode(p)
    PROVE  \E l, t \in 1..MaxGrants :
              /\ \A x \in Issued : x[1] # l
              /\ Issued' = Issued \cup {<<l, t>>}
              /\ Accepted' = Accepted \cup {<<l, t>>}
  <1> DEFINE q == call[p]
             n == nextGrant
             r == NewRefresh(q, q.ds, n)
             g == NewGrant(q, q.ds, n)
  <1>1. /\ n \in 1..MaxGrants /\ now \in Nat /\ UNCHANGED now
        /\ refreshTokens' = refreshTokens \cup {r} /\ grants' = grants \cup {g}
    BY TokenStoreAssumption DEF ExchangeCode, TypeOK
  <1>2. /\ r.id = n /\ r.family = n /\ r.expiration > now
        /\ g.id = n /\ g.family = n
    BY <1>1, TokenStoreAssumption DEF NewRefresh, NewGrant
  <1>a. \A row : Refreshing(row)' <=> Refreshing(row)
    <2>1. call[p].at = "exchange" /\ call[p] \in TokenCall
      BY CallKind DEF ExchangeCode, TypeOK, TokenSteps
    <2>2. OnlyMoves(p, {"claims"})
      BY <2>1 DEF ExchangeCode, TokenCall, OnlyMoves, TypeOK
    <2> QED
      BY <2>1, <2>2 DEF Refreshing, TypeOK, OnlyMoves
  <1>3. \A h \in grants : h.family < n /\ h.family \in Nat
    BY DEF GrantInv, GrantIdsMinted, TypeOK, Grant
  <1> HIDE DEF r, g, n, q
  <1>4. \A x \in Issued : x[1] # n
    BY <1>1, <1>3 DEF Issued
  <1>5. Issued' = Issued \cup {<<n, n>>}
    BY <1>1, <1>2 DEF Issued
  <1>6. Accepted' = Accepted \cup {<<n, n>>}
    BY <1>1, <1>2, <1>a DEF Accepted, Unexpired
  <1> QED
    BY <1>1, <1>4, <1>5, <1>6

\* A rotation replaces the one accepted token of its login by the new grant's.
LEMMA ReplaceRefreshes ==
    ASSUME TypeOK, GrantInv, NEW p \in Procs, NEW o \in refreshTokens,
           call[p].at = "rotate", call[p].token = o.id,
           Replace(p, o, o.access, o.ds), UNCHANGED now
    PROVE  \E x \in Accepted, t \in 1..MaxGrants :
              /\ <<x[1], t>> \notin Issued
              /\ Issued' = Issued \cup {<<x[1], t>>}
              /\ Accepted' = (Accepted \ {x}) \cup {<<x[1], t>>}
  <1> DEFINE q == call[p]
             n == nextGrant
             r == NewRefresh(q, o.ds, o.family)
             g == NewGrant(q, o.ds, o.family)
             x == <<o.family, o.id>>
  <1>1. /\ n \in 1..MaxGrants /\ now \in Nat
        /\ refreshTokens' = (refreshTokens \ {o}) \cup {r} /\ grants' = grants \cup {g}
    BY TokenStoreAssumption DEF Replace, TypeOK
  <1>2. /\ r.id = n /\ r.family = o.family /\ r.expiration > now
        /\ g.id = n /\ g.family = o.family
    BY <1>1, TokenStoreAssumption DEF NewRefresh, NewGrant
  <1>3. \A h \in grants : h.id < n /\ h.id \in Nat
    BY DEF GrantInv, GrantIdsMinted, TypeOK, Grant
  <1>4. \A row \in refreshTokens :
           row.family = o.family \/ row.id = o.id => row = o
    BY DEF GrantInv, GrantKeys, RowsMatchGrants, OneTokenPairPerFamily
  <1>a. \A row \in refreshTokens \ {o} : Refreshing(row)' <=> Refreshing(row)
    <2>1. call[p] \in TokenCall
      BY CallKind DEF TypeOK, TokenSteps
    <2>2. OnlyMoves(p, {"claims"})
      BY <2>1 DEF Replace, TokenCall, OnlyMoves, TypeOK
    <2> QED
      BY <1>4, <2>2 DEF Refreshing, TypeOK, OnlyMoves
  <1> HIDE DEF r, g, n, q
  <1>5. x \in Accepted /\ x[1] = o.family
    BY DEF Accepted, Refreshing
  <1>6. <<x[1], n>> \notin Issued
    BY <1>1, <1>3, <1>5 DEF Issued
  <1>7. Issued' = Issued \cup {<<x[1], n>>}
    BY <1>1, <1>2, <1>5 DEF Issued
  <1>8. Accepted' = (Accepted \ {x}) \cup {<<x[1], n>>}
    <2>1. \A row \in refreshTokens : <<row.family, row.id>> = x => row = o
      BY <1>4
    <2> QED
      BY <1>1, <1>2, <1>5, <1>a, <2>1 DEF Accepted, Unexpired
  <1> QED
    BY <1>1, <1>5, <1>6, <1>7, <1>8

\* Detaching rows from a session changes nothing a client sees.
LEMMA SweepIsUnseen ==
    ASSUME TypeOK, NEW p \in Procs, DeleteRevokedBefore(p)
    PROVE  Accepted' = Accepted /\ Issued' = Issued
  <1> DEFINE Detached(r) == [r EXCEPT !.ds = IF @ \in call[p].found THEN Null ELSE @]
  <1>1. /\ refreshTokens' = {Detached(r) : r \in refreshTokens}
        /\ UNCHANGED <<now, grants>>
    BY DEF DeleteRevokedBefore, history
  <1>2. ASSUME NEW r \in refreshTokens
        PROVE  LET s == Detached(r) IN
               s.id = r.id /\ s.family = r.family /\ s.expiration = r.expiration
    BY DEF TypeOK, RefreshToken
  <1>3. ASSUME NEW s \in Procs
        PROVE  call'[s] = call[s] \/ (call'[s].at # "rotate" /\ call[s].at # "rotate")
    <2>1. call[s].at = "dropSessions" => call[s] \in DropCall
      BY CallKind DEF TypeOK
    <2> QED
      BY <2>1 DEF DeleteRevokedBefore, Idle, DropCall
  <1>4. ASSUME NEW id
        PROVE  (\E s \in Procs : call'[s].at = "rotate" /\ call'[s].token = id)
                 <=> (\E s \in Procs : call[s].at = "rotate" /\ call[s].token = id)
    BY <1>3
  <1>5. ASSUME NEW r \in refreshTokens, NEW s, s = Detached(r)
        PROVE  /\ s.id = r.id /\ s.family = r.family
               /\ (Unexpired(s) \/ Refreshing(s))' <=> (Unexpired(r) \/ Refreshing(r))
    BY <1>1, <1>2, <1>4, <1>5 DEF Unexpired, Refreshing
  <1> HIDE DEF Detached
  <1> QED
    BY <1>1, <1>5 DEF Accepted, Issued

\* The grant store implements Logins: begin, refresh and end are all a client
\* ever sees of it.
THEOREM GrantsImplementLogins == Spec => ImplementsLogins
  <1>1. Init => Served!Init
    BY DEF Init, Served!Init
  <1>2. ASSUME IInv, [Next]_vars
        PROVE  [Served!Next]_(Served!vars)
    <2>1. TypeOK /\ GrantInv /\ now' \in Nat
      BY <1>2, TypeOKNext DEF IInv, TypeOK
    <2>2. CASE Accepted' \subseteq Accepted /\ Issued' = Issued
      BY <2>2 DEF Accepted, Issued, Served!Next, Served!End
    <2>3. CASE \E p \in Procs : ExchangeCode(p)
      <3>1. PICK l \in 1..MaxGrants, t \in 1..MaxGrants :
              /\ \A x \in Issued : x[1] # l
              /\ Issued' = Issued \cup {<<l, t>>}
              /\ Accepted' = Accepted \cup {<<l, t>>}
        BY <2>1, <2>3, ExchangeBegins
      <3>2. Served!Begin(l, t)
        BY <3>1 DEF Accepted, Issued, Served!Begin
      <3> QED
        BY <3>2 DEF Served!Next
    <2>4. CASE \/ \E p \in Procs : ExchangeCodeAccessOnly(p)
               \/ \E c \in Clients : ClientCredentials(c)
      <3>1. UNCHANGED <<refreshTokens, grants, now>>
        BY <2>4 DEF ExchangeCodeAccessOnly, ClientCredentials, history
      <3> QED
        BY <1>2, <2>1, <2>2, <3>1, RemovalEnds DEF TypeOK
    <2>5. CASE \E p \in Procs, o \in refreshTokens :
                  /\ call[p].at = "rotate" /\ call[p].token = o.id
                  /\ Replace(p, o, o.access, o.ds) /\ UNCHANGED now
      <3>1. PICK x \in Accepted, t \in 1..MaxGrants :
              /\ <<x[1], t>> \notin Issued
              /\ Issued' = Issued \cup {<<x[1], t>>}
              /\ Accepted' = (Accepted \ {x}) \cup {<<x[1], t>>}
        BY <2>1, <2>5, ReplaceRefreshes
      <3>2. Served!Refresh(x, t)
        BY <3>1 DEF Accepted, Issued, Served!Refresh
      <3> QED
        BY <3>1, <3>2 DEF Served!Next, Accepted
    <2>6. CASE \E p \in Procs : DeleteRevokedBefore(p)
      BY <2>1, <2>2, <2>6, SweepIsUnseen
    <2> QED
      BY <1>2, <2>1, <2>2, <2>3, <2>4, <2>5, <2>6, Issuance, RemovalEnds
  <1> QED
    BY <1>1, <1>2, Invariance, PTL DEF Spec, ImplementsLogins, Served!Spec
\* Every step that Logins allows keeps what it promises.
LEMMA PromisesKept ==
    ASSUME Served!OneToken, [Served!Next]_(Served!vars)
    PROVE  /\ Served!OneToken'
           /\ \A x \in Issued :
                 (\A y \in Accepted : y[1] # x[1]) => (\A y \in Accepted' : y[1] # x[1])
           /\ \A x \in Issued \ Accepted : x \notin Accepted'
  <1> DEFINE Goal ==
        /\ Accepted' \subseteq Issued' /\ \A y, z \in Accepted' : y[1] = z[1] => y = z
        /\ \A z \in Issued :
              (\A y \in Accepted : y[1] # z[1]) => (\A y \in Accepted' : y[1] # z[1])
        /\ \A z \in Issued \ Accepted : z \notin Accepted'
  <1>1. Accepted \subseteq Issued /\ \A y, z \in Accepted : y[1] = z[1] => y = z
    BY DEF Served!OneToken, Accepted, Issued
  <1>2. ASSUME NEW l \in 1..MaxGrants, NEW t \in 1..MaxGrants, Served!Begin(l, t) PROVE Goal
    <2>1. /\ \A x \in Issued : x[1] # l
          /\ Issued' = Issued \cup {<<l, t>>} /\ Accepted' = Accepted \cup {<<l, t>>}
      BY <1>2 DEF Served!Begin, Accepted, Issued
    <2>2. <<l, t>>[1] = l
      OBVIOUS
    <2> QED
      BY <1>1, <2>1, <2>2
  <1>3. ASSUME NEW x \in Accepted, NEW t \in 1..MaxGrants, Served!Refresh(x, t) PROVE Goal
    <2>1. /\ <<x[1], t>> \notin Issued
          /\ Issued' = Issued \cup {<<x[1], t>>}
          /\ Accepted' = (Accepted \ {x}) \cup {<<x[1], t>>}
      BY <1>3 DEF Served!Refresh, Accepted, Issued
    <2>2. <<x[1], t>>[1] = x[1]
      OBVIOUS
    <2> QED
      BY <1>1, <2>1, <2>2
  <1>4. ASSUME Served!End \/ UNCHANGED Served!vars PROVE Goal
    <2>1. Issued' = Issued /\ Accepted' \subseteq Accepted
      BY <1>4 DEF Served!End, Served!vars, Accepted, Issued
    <2> QED
      BY <1>1, <2>1
  <1> HIDE DEF Goal
  <1>5. Goal
    <2>1. \/ \E l, t \in 1..MaxGrants : Served!Begin(l, t)
          \/ \E x \in Accepted, t \in 1..MaxGrants : Served!Refresh(x, t)
          \/ Served!End \/ UNCHANGED Served!vars
      BY DEF Served!Next, Accepted
    <2> QED
      BY <1>2, <1>3, <1>4, <2>1
  <1>6. Served!OneToken'
    BY <1>5 DEF Goal, Served!OneToken, Accepted, Issued
  <1> QED
    BY <1>5, <1>6 DEF Goal

\* What a client may rely on: at most one accepted token per login, no login that
\* has ended comes back, no token that was spent or revoked is accepted again.
THEOREM GrantsKeepPromises ==
    Spec => []Served!OneToken /\ Served!EndedForEver /\ Served!SpentForEver
  <1>1. Served!Init => Served!OneToken
    BY DEF Served!Init, Served!OneToken
  <1>2. Served!OneToken /\ [Served!Next]_(Served!vars)
        => /\ Served!OneToken'
           /\ [\A x \in Issued :
                  (\A y \in Accepted : y[1] # x[1]) => (\A y \in Accepted' : y[1] # x[1])]_(Served!vars)
           /\ [\A x \in Issued \ Accepted : x \notin Accepted']_(Served!vars)
    BY PromisesKept
  <1> QED
    BY <1>1, <1>2, GrantsImplementLogins, PTL
       DEF ImplementsLogins, Served!Spec, Served!EndedForEver, Served!SpentForEver, Accepted, Issued
=============================================================================
