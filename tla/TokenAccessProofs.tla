------------------------- MODULE TokenAccessProofs -------------------------
(***************************************************************************)
(* Proofs about TokenAccess, for every set of processes, relying parties   *)
(* and keys, every lifetime and every value of the bounds.                 *)
(***************************************************************************)
EXTENDS TokenAccess, TLAPS

LEMMA InitInv == Init => IInv
  <1> SUFFICES ASSUME Init PROVE IInv
    OBVIOUS
  <1>1. Running = {}
    BY DEF Init, Running
  <1>2. TypeOK
    BY TokenAccessAssumption
       DEF Init, TypeOK, Release, Never, Ids
  <1>3. KeyInv
    BY <1>1, <1>2 DEF Init, KeyInv, InForce, TypeOK, Release
  <1>4. LoginInv
    BY DEF Init, LoginInv
  <1> QED
    BY <1>2, <1>3, <1>4 DEF IInv

-----------------------------------------------------------------------------
(***************************************************************************)
(* Types.                                                                  *)
(***************************************************************************)

\* What Issue adds to the three sets is typed, if the scopes are.
LEMMA IssueType ==
    ASSUME TypeOK, NEW s \in Servers, NEW scopes \in SUBSET Scopes,
           NEW kept \in SUBSET Scopes, NEW old \in Nat, NEW family \in Ids,
           Issue(s, scopes, kept, old, family)
    PROVE  TypeOK'
  <1>1. server[s] \in Release
    BY DEF Issue, Running, TypeOK
  <1>2. nextId \in Ids /\ now \in Nat /\ now + Lifetime \in Nat
    BY TokenAccessAssumption DEF Issue, TypeOK, Ids
  <1>3. Signed(s, scopes, family) \in Token
    BY <1>1, <1>2 DEF Signed, Token, Release
  <1>4. issued' \subseteq Token
    BY <1>3 DEF Issue, TypeOK
  <1>5. rows' \subseteq Row
    BY <1>2 DEF Issue, TypeOK, Row
  <1>6. refresh' \subseteq RefreshRow
    BY <1>2 DEF Issue, TypeOK, RefreshRow
  <1>7. \A x \in rows' : \E t \in issued' :
          t.id = x.id /\ t.expiry = x.expiration /\ t.scopes = x.scopes
    <2> TAKE x \in rows'
    <2>1. CASE x \in rows
      BY <2>1 DEF Issue, TypeOK
    <2>2. CASE x \notin rows
      <3>1. x = [id |-> nextId, expiration |-> now + Lifetime, scopes |-> scopes]
        BY <2>2 DEF Issue
      <3>2. Signed(s, scopes, family) \in issued'
        BY DEF Issue
      <3> QED
        BY <3>1, <3>2 DEF Signed
    <2> QED
      BY <2>1, <2>2
  <1>8. nextId' \in 1..MaxTokens + 1
    BY TokenAccessAssumption, <1>2 DEF Issue, TypeOK, Ids
  <1> QED
    BY <1>4, <1>5, <1>6, <1>7, <1>8 DEF Issue, TypeOK

\* A release with keys of Keys is well typed.
LEMMA DeployType ==
    ASSUME TypeOK, NEW k \in Keys, NEW previous \in SUBSET Keys, Deploy(k, previous)
    PROVE  TypeOK'
  <1>1. release' \in Release
    BY TokenAccessAssumption DEF Deploy, TypeOK, Release
  <1> QED
    BY <1>1 DEF Deploy, TypeOK, tables

LEMMA TypeOKNext == TypeOK /\ [Next]_vars => TypeOK'
  <1> SUFFICES ASSUME TypeOK, [Next]_vars PROVE TypeOK'
    OBVIOUS
  <1>1. ASSUME NEW s \in Servers, Start(s) \/ Stop(s) PROVE TypeOK'
    BY <1>1 DEF Start, Stop, TypeOK, tables
  <1>2. ASSUME NEW k \in Keys, RotateKey(k) \/ RetireKey(k) PROVE TypeOK'
    BY <1>2, DeployType DEF RotateKey, RetireKey, TypeOK, Release
  <1>3. ASSUME NEW s \in Servers, NEW scopes \in SUBSET Scopes, Exchange(s, scopes)
        PROVE TypeOK'
    <2>1. nextId \in Ids
      BY <1>3 DEF Exchange, Issue, TypeOK, Ids
    <2> QED
      BY <1>3, <2>1, IssueType DEF Exchange, Null
  <1>4. ASSUME NEW s \in Servers, NEW r \in refresh, NEW asked \in SUBSET Scopes,
               Refresh(s, r, asked)
        PROVE TypeOK'
    <2>1. r.id \in Nat /\ r.family \in Ids
      BY DEF TypeOK, RefreshRow, Ids
    <2> QED
      BY <1>4, <2>1, IssueType DEF Refresh
  <1>5. ASSUME NEW f \in Ids, RevokeLogin(f) PROVE TypeOK'
    BY <1>5, TokenAccessAssumption DEF RevokeLogin, TypeOK, Never
  <1>6. ASSUME NEW x \in rows, RevokeAccessToken(x) PROVE TypeOK'
    BY <1>6 DEF RevokeAccessToken, TypeOK
  <1>7. CASE SweepTokens
    BY <1>7 DEF SweepTokens, TypeOK
  <1>8. ASSUME NEW r \in RelyingParties, NEW s \in Servers, NEW t \in issued,
               Verify(r, s, t)
        PROVE TypeOK'
    <2>1. KeysAfterVerify(r, s, t) \in SUBSET Keys
      BY <1>8 DEF Verify, Running, TypeOK, Release, KeysAfterVerify, PublicKeySet
    <2> QED
      BY <1>8, <2>1 DEF Verify, TypeOK, tables
  <1>9. CASE Tick
    BY <1>9, TokenAccessAssumption DEF Tick, TypeOK, tables
  <1>10. CASE UNCHANGED vars
    BY <1>10 DEF vars, TypeOK, tables
  <1> QED
    BY <1>1, <1>2, <1>3, <1>4, <1>5, <1>6, <1>7, <1>8, <1>9, <1>10
       DEF Next, Operator, Grants, Use

-----------------------------------------------------------------------------
(***************************************************************************)
(* Keys.                                                                   *)
(***************************************************************************)

\* Types of what the invariant compares.
LEMMA InForceType ==
    ASSUME TypeOK
    PROVE  /\ \A e \in InForce : e \in Release /\ e.version \in Nat
           /\ \A s \in Running : server[s] \in InForce
           /\ release \in InForce
  BY DEF TypeOK, InForce, Running, Release

\* A token is signed with the key of a running process.
LEMMA KeyInvIssue ==
    ASSUME TypeOK, KeyInv, NEW s, NEW scopes, NEW kept, NEW old, NEW family,
           Issue(s, scopes, kept, old, family)
    PROVE  KeyInv'
  <1>1. s \in Running /\ UNCHANGED <<now, release, server>>
    BY DEF Issue
  <1>2. InForce' = InForce /\ Running' = Running
    BY <1>1 DEF InForce, Running
  <1>3. \A t \in issued' : t \in issued \/ t = Signed(s, scopes, family)
    BY DEF Issue
  <1>4. \A t \in issued' :
          /\ t.version <= release.version
          /\ \A e \in InForce :
                e.version >= t.version /\ now <= t.expiry => t.kid \in PublicKeySet(e)
    BY <1>1, <1>3, InForceType DEF KeyInv, Signed
  <1> QED
    BY <1>1, <1>2, <1>4 DEF KeyInv, PublicKeySet

\* Starting a process puts the environment in force once more, stopping one
\* takes something out of force.
LEMMA KeyInvStart ==
    ASSUME TypeOK, KeyInv, NEW s \in Servers, Start(s) \/ Stop(s)
    PROVE  KeyInv'
  <1>1. UNCHANGED <<now, release, issued>>
    BY DEF Start, Stop
  <1>2. \A x \in Running' : server'[x] = release \/ (x \in Running /\ server'[x] = server[x])
    BY DEF Start, Stop, Running, TypeOK
  <1>3. InForce' \subseteq InForce
    BY <1>1, <1>2 DEF InForce
  <1>4. ASSUME NEW x \in Running', NEW e \in InForce', e.version >= server'[x].version
        PROVE  server'[x].current \in PublicKeySet(e)
    <2>1. CASE server'[x] = release
      <3>1. e.version = release.version
        BY <2>1, <1>3, <1>4, InForceType DEF KeyInv
      <3>2. e = release
        BY <3>1, <1>3 DEF KeyInv
      <3> QED
        BY <2>1, <3>2 DEF PublicKeySet
    <2>2. CASE x \in Running /\ server'[x] = server[x]
      BY <2>2, <1>3, <1>4 DEF KeyInv
    <2> QED
      BY <1>2, <2>1, <2>2
  <1> QED
    BY <1>1, <1>3, <1>4 DEF KeyInv, PublicKeySet

\* A release is newer than what is in force and has all keys that are still needed.
LEMMA KeyInvDeploy ==
    ASSUME TypeOK, KeyInv, NEW k \in Keys, RotateKey(k) \/ RetireKey(k)
    PROVE  KeyInv'
  <1>1. UNCHANGED <<now, server, issued>> /\ Running' = Running
    BY DEF RotateKey, RetireKey, Deploy, Running
  <1>2. release'.version = release.version + 1
    BY DEF RotateKey, RetireKey, Deploy
  <1>3. \A e \in InForce' : e = release' \/ e \in InForce
    BY <1>1 DEF InForce
  <1>4. \A e \in InForce : e.version < release'.version /\ e.version \in Nat
    BY <1>2, InForceType DEF KeyInv
  <1>5. release'.version \in Nat
    BY <1>2, InForceType
  <1>6. \A e \in InForce' :
          e.version <= release'.version /\ (e.version = release'.version => e = release')
    BY <1>3, <1>4, <1>5
  <1>7. ASSUME NEW x \in PublicKeySet(release), x \notin PublicKeySet(release')
        PROVE  /\ \A s \in Running : server[s].current # x
               /\ \A t \in issued : t.kid = x => now > t.expiry
    <2>1. CASE RotateKey(k)
      BY <2>1, <1>7 DEF RotateKey, Deploy, PublicKeySet
    <2>2. CASE RetireKey(k)
      <3>1. x = k
        BY <2>2, <1>7 DEF RetireKey, Deploy, PublicKeySet
      <3> QED
        BY <2>2, <3>1 DEF RetireKey
    <2> QED
      BY <2>1, <2>2
  <1>8. \A s \in Running : server[s].current \in PublicKeySet(release')
    <2>1. \A s \in Running : server[s].current \in PublicKeySet(release)
      BY InForceType DEF KeyInv
    <2> QED
      BY <2>1, <1>7
  <1>9. ASSUME NEW t \in issued, now <= t.expiry PROVE t.kid \in PublicKeySet(release')
    <2>1. t.kid \in PublicKeySet(release)
      BY <1>9, InForceType DEF KeyInv, TypeOK, Token
    <2>2. ~(now > t.expiry)
      BY <1>9 DEF TypeOK, Token
    <2> QED
      BY <2>1, <2>2, <1>7
  <1>10. \A s \in Running, e \in InForce' :
           e.version >= server[s].version => server[s].current \in PublicKeySet(e)
    BY <1>3, <1>8 DEF KeyInv
  <1>11. \A t \in issued :
           /\ t.version <= release'.version
           /\ \A e \in InForce' :
                 e.version >= t.version /\ now <= t.expiry => t.kid \in PublicKeySet(e)
    <2> TAKE t \in issued
    <2>1. t.version <= release'.version
      BY <1>2, InForceType DEF KeyInv, TypeOK, Token
    <2> QED
      BY <2>1, <1>3, <1>9 DEF KeyInv
  <1>12. /\ \A e \in InForce' :
               e.version <= release'.version /\ (e.version = release'.version => e = release')
         /\ \A s \in Running', e \in InForce' :
               e.version >= server'[s].version => server'[s].current \in PublicKeySet(e)
         /\ \A t \in issued' :
               /\ t.version <= release'.version
               /\ \A e \in InForce' :
                     e.version >= t.version /\ now' <= t.expiry => t.kid \in PublicKeySet(e)
    BY <1>1, <1>6, <1>10, <1>11
  <1> QED
    BY <1>12 DEF KeyInv, PublicKeySet

\* What leaves processes, environment and tokens alone, time passing included.
LEMMA KeyInvStays ==
    ASSUME TypeOK, KeyInv, UNCHANGED <<release, server, issued>>,
           now' \in Nat, now <= now'
    PROVE  KeyInv'
  <1>1. InForce' = InForce /\ Running' = Running
    BY DEF InForce, Running
  <1>2. \A t \in issued : now' <= t.expiry => now <= t.expiry
    BY DEF TypeOK, Token
  <1> QED
    BY <1>1, <1>2 DEF KeyInv, PublicKeySet

LEMMA KeyInvNext == TypeOK /\ KeyInv /\ [Next]_vars => KeyInv'
  <1> SUFFICES ASSUME TypeOK, KeyInv, [Next]_vars PROVE KeyInv'
    OBVIOUS
  <1>0. now \in Nat
    BY DEF TypeOK
  <1>1. CASE Operator
    BY <1>1, KeyInvStart, KeyInvDeploy DEF Operator
  <1>2. ASSUME NEW s \in Servers, NEW scopes \in SUBSET Scopes, Exchange(s, scopes)
        PROVE KeyInv'
    BY <1>2, KeyInvIssue DEF Exchange
  <1>3. ASSUME NEW s \in Servers, NEW r \in refresh, NEW asked \in SUBSET Scopes,
               Refresh(s, r, asked)
        PROVE KeyInv'
    BY <1>3, KeyInvIssue DEF Refresh
  <1>4. ASSUME \/ \E f \in Ids : RevokeLogin(f)
               \/ \E x \in rows : RevokeAccessToken(x)
               \/ SweepTokens
               \/ Use
               \/ UNCHANGED vars
        PROVE KeyInv'
    <2>1. UNCHANGED <<now, release, server, issued>>
      BY <1>4 DEF RevokeLogin, RevokeAccessToken, SweepTokens, Use, Verify, vars
    <2> QED
      BY <2>1, <1>0, KeyInvStays
  <1>5. CASE Tick
    BY <1>5, <1>0, KeyInvStays DEF Tick
  <1> QED
    BY <1>1, <1>2, <1>3, <1>4, <1>5 DEF Next, Grants

-----------------------------------------------------------------------------
(***************************************************************************)
(* Logins.                                                                 *)
(***************************************************************************)

LEMMA NeverIsLater ==
    ASSUME TypeOK
    PROVE  /\ now \in Nat /\ Never \in Nat /\ now < Never /\ Lifetime \in Nat
           /\ \A f \in Ids : revoked[f] \in Nat
           /\ nextId \in Nat
  BY TokenAccessAssumption DEF TypeOK, Never

\* A new token continues a login that is not revoked, with no more scopes than it
\* has left, or begins a login of its own.
LEMMA LoginInvIssue ==
    ASSUME TypeOK, LoginInv, NEW s \in Servers, NEW scopes, NEW old, NEW family \in Ids,
           Issue(s, scopes, scopes, old, family),
           family <= nextId, revoked[family] = Never,
           \A t \in issued : t.family = family => scopes \subseteq t.scopes,
           \A r \in refresh : r.family = family => r.id = old
    PROVE  LoginInv'
  <1> DEFINE new == Signed(s, scopes, family)
  <1>1. /\ issued' = issued \cup {new}
        /\ nextId' = nextId + 1
        /\ UNCHANGED <<now, revoked>>
    BY DEF Issue
  <1>2. /\ new.id = nextId /\ new.family = family /\ new.scopes = scopes
        /\ new.expiry = now + Lifetime
    BY DEF Signed
  <1>3. \A t \in issued : /\ t.id \in Nat /\ t.family \in Ids /\ t.expiry \in Nat
                          /\ t.id < nextId
    BY DEF TypeOK, Token, LoginInv, Ids
  <1>4. new.expiry <= now + Lifetime /\ new.expiry <= revoked[family] + Lifetime
    BY <1>2, NeverIsLater
  <1>5. \A t \in issued' :
          /\ t.id < nextId' /\ t.family <= t.id
          /\ t.expiry <= now + Lifetime
          /\ t.expiry <= revoked[t.family] + Lifetime
    BY <1>1, <1>2, <1>3, <1>4, NeverIsLater DEF LoginInv
  <1>6. \A t, u \in issued' : t.id = u.id => t = u
    BY <1>1, <1>2, <1>3 DEF LoginInv, TypeOK
  <1>7. \A t, u \in issued' :
          t.family = u.family /\ t.id <= u.id => u.scopes \subseteq t.scopes
    <2> SUFFICES ASSUME NEW t \in issued', NEW u \in issued',
                        t.family = u.family, t.id <= u.id
                 PROVE  u.scopes \subseteq t.scopes
      OBVIOUS
    <2>1. CASE u = new
      BY <2>1, <1>1, <1>2
    <2>2. CASE u \in issued /\ t = new
      BY <2>2, <1>2, <1>3, NeverIsLater
    <2>3. CASE u \in issued /\ t \in issued
      BY <2>3 DEF LoginInv
    <2> QED
      BY <1>1, <2>1, <2>2, <2>3
  <1>8. \A r \in refresh' :
          \/ r \in refresh /\ r.id # old
          \/ r.id = nextId /\ r.family = family /\ r.scopes = scopes
    BY DEF Issue
  <1>9. \A r \in refresh' :
          /\ r.id < nextId' /\ r.family <= r.id
          /\ revoked[r.family] = Never
    BY <1>1, <1>8, NeverIsLater DEF LoginInv, TypeOK, RefreshRow, Ids
  <1>10. ASSUME NEW r \in refresh', NEW t \in issued', t.family = r.family
         PROVE  r.scopes \subseteq t.scopes
    <2>1. CASE r \in refresh /\ t \in issued
      BY <2>1, <1>10 DEF LoginInv
    <2>2. CASE r \in refresh /\ t = new /\ r.id # old
      BY <2>2, <1>2, <1>10
    <2>3. CASE r.id = nextId /\ r.family = family /\ r.scopes = scopes
      BY <2>3, <1>1, <1>2, <1>10
    <2> QED
      BY <1>1, <1>8, <2>1, <2>2, <2>3
  <1>11. \A f \in Ids : revoked[f] # Never => f < nextId + 1
    BY NeverIsLater DEF LoginInv, Ids
  <1>12. ASSUME NEW r \in refresh', NEW q \in refresh',
                q.family = r.family \/ q.id = r.id
         PROVE  q = r
    <2> DEFINE row == [id |-> nextId, scopes |-> scopes, family |-> family]
    <2>1. \A x \in refresh' : (x \in refresh /\ x.id # old) \/ x = row
      BY DEF Issue
    <2>2. \A x \in refresh : x.id # nextId
      BY DEF LoginInv, TypeOK, RefreshRow, Ids
    <2> QED
      BY <2>1, <2>2, <1>12 DEF LoginInv
  <1> QED
    BY <1>1, <1>5, <1>6, <1>7, <1>9, <1>10, <1>11, <1>12 DEF LoginInv, Never

LEMMA LoginInvNext == TypeOK /\ LoginInv /\ [Next]_vars => LoginInv'
  <1> SUFFICES ASSUME TypeOK, LoginInv, [Next]_vars PROVE LoginInv'
    OBVIOUS
  <1>1. ASSUME UNCHANGED <<issued, nextId, revoked>>, refresh' = refresh,
               now' \in Nat, now <= now'
        PROVE  LoginInv'
    <2>1. \A t \in issued : t.expiry <= now' + Lifetime
      BY <1>1, NeverIsLater DEF LoginInv, TypeOK, Token
    <2> QED
      BY <1>1, <2>1 DEF LoginInv, Never
  <1>2. CASE Operator \/ Use \/ UNCHANGED vars
    BY <1>1, <1>2, NeverIsLater
       DEF Operator, Use, Start, Stop, RotateKey, RetireKey, Deploy, Verify, vars, tables
  <1>3. CASE Tick
    BY <1>1, <1>3, NeverIsLater DEF Tick, tables
  <1>4. ASSUME \/ \E x \in rows : RevokeAccessToken(x)
               \/ SweepTokens
        PROVE  LoginInv'
    BY <1>1, <1>4, NeverIsLater DEF RevokeAccessToken, SweepTokens
  <1>5. ASSUME NEW s \in Servers, NEW scopes \in SUBSET Scopes, Exchange(s, scopes)
        PROVE  LoginInv'
    <2>1. nextId \in Ids
      BY <1>5 DEF Exchange, Issue, TypeOK, Ids
    <2>2. revoked[nextId] = Never
      BY <2>1, NeverIsLater DEF LoginInv
    <2>3. \A t \in issued : t.family # nextId
      BY NeverIsLater DEF LoginInv, TypeOK, Token, Ids
    <2>4. \A r \in refresh : r.family # nextId
      BY NeverIsLater DEF LoginInv, TypeOK, RefreshRow, Ids
    <2> QED
      BY <1>5, <2>1, <2>2, <2>3, <2>4, NeverIsLater, LoginInvIssue DEF Exchange
  <1>6. ASSUME NEW s \in Servers, NEW r \in refresh, NEW asked \in SUBSET Scopes,
               Refresh(s, r, asked)
        PROVE  LoginInv'
    <2>1. r.family \in Ids /\ r.family <= nextId /\ revoked[r.family] = Never
      BY NeverIsLater DEF LoginInv, TypeOK, RefreshRow, Ids
    <2>2. \A t \in issued : t.family = r.family => asked \subseteq t.scopes
      BY <1>6 DEF Refresh, LoginInv
    <2>3. \A q \in refresh : q.family = r.family => q.id = r.id
      BY DEF LoginInv
    <2> QED
      BY <1>6, <2>1, <2>2, <2>3, LoginInvIssue DEF Refresh
  <1>7. ASSUME NEW f \in Ids, RevokeLogin(f) PROVE LoginInv'
    <2>1. PICK r \in refresh : r.family = f
      BY <1>7 DEF RevokeLogin
    <2>2. f < nextId
      BY <2>1, NeverIsLater DEF LoginInv, TypeOK, RefreshRow, Ids
    <2>3. \A g \in Ids : revoked'[g] = IF g = f THEN now ELSE revoked[g]
      BY <1>7 DEF RevokeLogin, TypeOK
    <2>4. \A t \in issued : t.expiry <= revoked'[t.family] + Lifetime
      BY <2>3, NeverIsLater DEF LoginInv, TypeOK, Token
    <2>5. \A x \in refresh' : x \in refresh /\ revoked'[x.family] = Never
      BY <1>7, <2>3 DEF RevokeLogin, LoginInv, TypeOK, RefreshRow
    <2>6. \A g \in Ids : revoked'[g] # Never => g < nextId
      BY <2>2, <2>3 DEF LoginInv
    <2>7. UNCHANGED <<now, issued, nextId>>
      BY <1>7 DEF RevokeLogin
    <2> QED
      BY <2>4, <2>5, <2>6, <2>7 DEF LoginInv, Never
  <1> QED
    BY <1>2, <1>3, <1>4, <1>5, <1>6, <1>7 DEF Next, Grants

-----------------------------------------------------------------------------
(***************************************************************************)
(* Theorems.                                                               *)
(***************************************************************************)

\* The invariant: types, keys in force, logins.
THEOREM Invariance == Spec => []IInv
  <1>1. IInv /\ [Next]_vars => IInv'
    BY TypeOKNext, KeyInvNext, LoginInvNext DEF IInv
  <1> QED
    BY InitInv, <1>1, PTL DEF Spec

\* Through any sequence of releases a process accepts the unexpired tokens of every
\* process that runs no newer release (NewJWTAuthInterceptor over PublicKeySet.All).
THEOREM GracefulRotation == Spec => []RotationIsGraceful
  <1>1. IInv => RotationIsGraceful
    <2> SUFFICES ASSUME IInv, NEW s \in Running, NEW t \in issued,
                        server[s].version >= t.version, now <= t.expiry
                 PROVE  AccountsAccept(s, t)
      BY DEF RotationIsGraceful
    <2>1. t.kid \in PublicKeySet(server[s])
      BY InForceType DEF IInv, KeyInv
    <2>2. ~(now > t.expiry)
      BY DEF IInv, TypeOK, Token
    <2> QED
      BY <2>1, <2>2 DEF AccountsAccept, VerifyJWT
  <1> QED
    BY Invariance, <1>1, PTL

\* A relying party verifies the unexpired tokens of every process that is not newer
\* than the one it can fetch keys from (AuthInterceptor, oidcrp.Client.Exchange).
THEOREM RelyingPartiesVerify == Spec => []RelyingPartiesFollow
  <1>1. IInv => RelyingPartiesFollow
    BY InForceType DEF IInv, KeyInv, RelyingPartiesFollow, KeysAfterVerify
  <1> QED
    BY Invariance, <1>1, PTL

\* One access token lifetime after the revocation of a login, no token of it is
\* accepted anywhere.
THEOREM RevocationWindow == Spec => []RevocationTakesEffect
  <1>1. IInv => RevocationTakesEffect
    <2> SUFFICES ASSUME IInv, NEW s \in Running, NEW t \in issued,
                        now > revoked[t.family] + Lifetime
                 PROVE  ~AccountsAccept(s, t) /\ ~Active(s, t)
      BY DEF RevocationTakesEffect
    <2>1. /\ t.expiry \in Nat /\ now \in Nat /\ revoked[t.family] + Lifetime \in Nat
          /\ t.expiry <= revoked[t.family] + Lifetime
      BY NeverIsLater DEF IInv, LoginInv, TypeOK, Token
    <2>2. now > t.expiry /\ ~(now < t.expiry)
      BY <2>1
    <2> QED
      BY <2>2 DEF AccountsAccept, Active
  <1> QED
    BY Invariance, <1>1, PTL

\* Claims and scopes of a login only ever shrink (SetCurrentScopes, setUserinfo).
THEOREM ClaimsShrink == Spec => []ClaimsWithinGrant
  <1>1. IInv => ClaimsWithinGrant
    <2> SUFFICES ASSUME IInv, NEW t \in issued
                 PROVE  /\ \A s \in Running, u \in issued :
                              u.family = t.family /\ t.id <= u.id
                                 => Userinfo(s, u) \subseteq ClaimsOf(t.scopes)
                        /\ \A r \in refresh :
                              r.family = t.family => ClaimsOf(r.scopes) \subseteq ClaimsOf(t.scopes)
      BY DEF ClaimsWithinGrant
    <2>1. \A a, b \in SUBSET Scopes : a \subseteq b => ClaimsOf(a) \subseteq ClaimsOf(b)
      BY DEF ClaimsOf
    <2>2. t.scopes \in SUBSET Scopes
      BY DEF IInv, TypeOK, Token
    <2>3. ASSUME NEW s \in Running, NEW u \in issued, u.family = t.family, t.id <= u.id
          PROVE  Userinfo(s, u) \subseteq ClaimsOf(t.scopes)
      <3>1. ASSUME NEW x \in LiveRow(u) PROVE x.scopes = u.scopes
        BY <3>1 DEF LiveRow, IInv, TypeOK, LoginInv
      <3>2. u.scopes \in SUBSET Scopes /\ u.scopes \subseteq t.scopes
        BY <2>3 DEF IInv, TypeOK, Token, LoginInv
      <3> QED
        BY <2>1, <2>2, <3>1, <3>2 DEF Userinfo
    <2>4. ASSUME NEW r \in refresh, r.family = t.family
          PROVE  ClaimsOf(r.scopes) \subseteq ClaimsOf(t.scopes)
      BY <2>1, <2>2, <2>4 DEF IInv, TypeOK, RefreshRow, LoginInv
    <2> QED
      BY <2>3, <2>4
  <1> QED
    BY Invariance, <1>1, PTL

-----------------------------------------------------------------------------
(***************************************************************************)
(* What the module has the grant store do is what Logins allows.           *)
(***************************************************************************)
IssuedPairs   == {<<t.family, t.id>> : t \in issued}
AcceptedPairs == {<<r.family, r.id>> : r \in refresh}

\* The exchange of a code begins a login.
LEMMA ExchangeBegins ==
    ASSUME TypeOK, LoginInv, NEW s \in Servers, NEW scopes \in SUBSET Scopes, Exchange(s, scopes)
    PROVE  \E n \in Ids :
              /\ \A x \in IssuedPairs : x[1] # n
              /\ IssuedPairs' = IssuedPairs \cup {<<n, n>>}
              /\ AcceptedPairs' = AcceptedPairs \cup {<<n, n>>}
  <1> DEFINE n == nextId
             new == Signed(s, scopes, n)
             row == [id |-> n, scopes |-> scopes, family |-> n]
  <1>1. /\ n \in Ids
        /\ issued' = issued \cup {new}
        /\ refresh' = {r \in refresh : r.id # Null} \cup {row}
    BY DEF Exchange, Issue, TypeOK, Ids
  <1>2. new.id = n /\ new.family = n /\ row.id = n /\ row.family = n
    BY DEF Signed
  <1>3. \A r \in refresh : r.id # Null
    BY DEF TypeOK, RefreshRow, Ids, Null
  <1>4. \A t \in issued : t.family # n
    BY NeverIsLater DEF LoginInv, TypeOK, Token, Ids
  <1> HIDE DEF new, row, n
  <1>5. IssuedPairs' = IssuedPairs \cup {<<n, n>>}
    BY <1>1, <1>2 DEF IssuedPairs
  <1>6. AcceptedPairs' = AcceptedPairs \cup {<<n, n>>}
    BY <1>1, <1>2, <1>3 DEF AcceptedPairs
  <1>7. \A x \in IssuedPairs : x[1] # n
    BY <1>4 DEF IssuedPairs
  <1> QED
    BY <1>1, <1>5, <1>6, <1>7

\* A refresh replaces the one refresh token of its login.
LEMMA RotationRefreshes ==
    ASSUME TypeOK, LoginInv, NEW s \in Servers, NEW r \in refresh,
           NEW asked \in SUBSET Scopes, Refresh(s, r, asked)
    PROVE  \E x \in AcceptedPairs, n \in Ids :
              /\ <<x[1], n>> \notin IssuedPairs
              /\ IssuedPairs' = IssuedPairs \cup {<<x[1], n>>}
              /\ AcceptedPairs' = (AcceptedPairs \ {x}) \cup {<<x[1], n>>}
  <1> DEFINE n == nextId
             x == <<r.family, r.id>>
             new == Signed(s, asked, r.family)
             row == [id |-> n, scopes |-> asked, family |-> r.family]
  <1>1. /\ n \in Ids
        /\ issued' = issued \cup {new}
        /\ refresh' = {q \in refresh : q.id # r.id} \cup {row}
    BY DEF Refresh, Issue, TypeOK, Ids
  <1>2. new.id = n /\ new.family = r.family /\ row.id = n /\ row.family = r.family
    BY DEF Signed
  <1>3. \A t \in issued : t.id # n
    BY NeverIsLater DEF LoginInv, TypeOK, Token, Ids
  <1>4. \A q \in refresh : q.id = r.id => q = r
    BY DEF LoginInv
  <1> HIDE DEF new, row, n
  <1>5. x \in AcceptedPairs /\ x[1] = r.family
    BY DEF AcceptedPairs
  <1>6. <<r.family, n>> \notin IssuedPairs
    BY <1>3 DEF IssuedPairs
  <1>7. IssuedPairs' = IssuedPairs \cup {<<r.family, n>>}
    BY <1>1, <1>2 DEF IssuedPairs
  <1>8. AcceptedPairs' = (AcceptedPairs \ {x}) \cup {<<r.family, n>>}
    <2>1. \A q \in refresh : <<q.family, q.id>> = x <=> q.id = r.id
      BY <1>4
    <2> QED
      BY <1>1, <1>2, <2>1 DEF AcceptedPairs
  <1> QED
    BY <1>1, <1>5, <1>6, <1>7, <1>8

\* Access tokens are issued and refused for logins that begin, are refreshed and end
\* as Logins has it, which the grant store implements.
THEOREM AccessFollowsLogins == Spec => FollowsLogins
  <1>1. Init => Served!Init
    BY DEF Init, Served!Init
  <1>2. ASSUME IInv, [Next]_vars
        PROVE  [Served!Next]_(Served!vars)
    <2>1. TypeOK /\ LoginInv
      BY <1>2 DEF IInv
    <2>2. CASE issued' = issued /\ refresh' \subseteq refresh
      <3>1. IssuedPairs' = IssuedPairs /\ AcceptedPairs' \subseteq AcceptedPairs
        BY <2>2 DEF IssuedPairs, AcceptedPairs
      <3> QED
        BY <3>1 DEF IssuedPairs, AcceptedPairs, Served!Next, Served!End
    <2>3. CASE \E s \in Servers, scopes \in SUBSET Scopes : Exchange(s, scopes)
      <3>1. PICK n \in Ids :
              /\ \A x \in IssuedPairs : x[1] # n
              /\ IssuedPairs' = IssuedPairs \cup {<<n, n>>}
              /\ AcceptedPairs' = AcceptedPairs \cup {<<n, n>>}
        BY <2>1, <2>3, ExchangeBegins
      <3>2. Served!Begin(n, n)
        BY <3>1 DEF IssuedPairs, AcceptedPairs, Served!Begin
      <3> QED
        BY <3>2 DEF Served!Next
    <2>4. CASE \E s \in Servers, r \in refresh, asked \in SUBSET Scopes : Refresh(s, r, asked)
      <3>1. PICK x \in AcceptedPairs, n \in Ids :
              /\ <<x[1], n>> \notin IssuedPairs
              /\ IssuedPairs' = IssuedPairs \cup {<<x[1], n>>}
              /\ AcceptedPairs' = (AcceptedPairs \ {x}) \cup {<<x[1], n>>}
        BY <2>1, <2>4, RotationRefreshes
      <3>2. Served!Refresh(x, n)
        BY <3>1 DEF IssuedPairs, AcceptedPairs, Served!Refresh
      <3> QED
        BY <3>1, <3>2 DEF Served!Next, AcceptedPairs
    <2>5. CASE UNCHANGED vars \/ Operator \/ Use \/ Tick
      BY <2>2, <2>5
         DEF Operator, Use, Start, Stop, RotateKey, RetireKey, Deploy, Verify, Tick, vars, tables
    <2>6. CASE (\E f \in Ids : RevokeLogin(f)) \/ (\E x \in rows : RevokeAccessToken(x)) \/ SweepTokens
      BY <2>2, <2>6 DEF RevokeLogin, RevokeAccessToken, SweepTokens
    <2> QED
      BY <1>2, <2>3, <2>4, <2>5, <2>6 DEF Next, Grants
  <1> QED
    BY <1>1, <1>2, Invariance, PTL DEF Spec, FollowsLogins, Served!Spec
=============================================================================
