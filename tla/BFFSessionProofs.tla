-------------------------- MODULE BFFSessionProofs --------------------------
(***************************************************************************)
(* Proofs about BFFSession: tokens, lifetime, refresh and logout of browser*)
(* sessions, for any number of requests, sessions, states and refreshes.   *)
(***************************************************************************)
EXTENDS BFFSession, TLAPS

LEMMA Constants ==
    /\ AccessTTL \in Nat /\ Margin \in Nat /\ HardTTL \in Nat
    /\ MaxSessions \in Nat /\ MaxTokens \in Nat /\ MaxTime \in Nat
    /\ None \notin Procs
BY BFFSessionAssumption

-----------------------------------------------------------------------------
(***************************************************************************)
(* The records of requests and sign-ins.                                   *)
(***************************************************************************)

LEMMA IdleCall == Idle.at = "idle" /\ Idle.at \notin Steps \cup {"store", "exchange"}
BY DEF Idle, Steps

\* What a call record holds, by the step it is at.
LEMMA CallFields ==
    ASSUME NEW c \in {Idle} \cup Request \cup SignIn
    PROVE  /\ (c.at \in Steps => c \in Request)
           /\ (c \in Request => /\ c.at \in Steps /\ c.sid \in Sids /\ c.sess \in Session
                                /\ c.loaded \in Nat /\ c.then \in {"serve", "reject", "fail"})
           /\ (c.at = "store" => c.sid \in Sids /\ c.sess \in Session)
           /\ (c.at = "exchange" => c.state \in States)
<1>1. CASE c = Idle
    BY <1>1, IdleCall DEF Idle, Steps, Request
<1>2. CASE c \in Request
    BY <1>2 DEF Request, Steps
<1>3. CASE c \in SignIn
    BY <1>3 DEF SignIn, Steps, Request
<1> QED
    BY <1>1, <1>2, <1>3

\* A step of a request, as far as it changes only where the request is.
LEMMA StepFields ==
    ASSUME NEW c \in Request, NEW step \in Steps
    PROVE  LET d == [c EXCEPT !.at = step]
           IN  d \in Request /\ d.at = step /\ d.sid = c.sid /\ d.sess = c.sess
               /\ d.loaded = c.loaded /\ d.then = c.then
BY DEF Request

\* ... and what it will answer.
LEMMA AnswerFields ==
    ASSUME NEW c \in Request, NEW answer \in {"serve", "reject", "fail"}
    PROVE  LET d == [c EXCEPT !.at = "release", !.then = answer]
           IN  d \in Request /\ d.at = "release" /\ d.sid = c.sid /\ d.sess = c.sess
               /\ d.loaded = c.loaded
BY DEF Request, Steps

-----------------------------------------------------------------------------
LEMMA InitIInv == Init => IInv
<1> SUFFICES ASSUME Init PROVE IInv
    OBVIOUS
<1>1. /\ \A p \in Procs : call[p] = Idle /\ call[p].at \notin Steps \cup {"store", "exchange"}
      /\ \A s \in Sids : /\ store[s] = None /\ origin[s] = None
                        /\ issued[s] = 0 /\ live[s] <= issued[s]
      /\ dead = {} /\ states = {}
    BY IdleCall DEF Init
<1>2. TypeOK
    BY DEF Init, TypeOK
<1>3. \A p \in Procs, s \in Sids : ~Holds(p, s) /\ ~Refreshing(p, s)
    BY <1>1 DEF Holds, Refreshing, Steps
<1>4. SessionsKnowTheirLogin
    BY <1>1, <1>3 DEF SessionsKnowTheirLogin
<1>5. LoadedInTime /\ StoredOnce
    BY <1>1 DEF LoadedInTime, StoredOnce
<1>6. SavedOnce
    BY <1>1 DEF SavedOnce, Steps
<1>7. LockHolders
    BY <1>3 DEF LockHolders
<1>8. StatesAreSpent /\ StateSingleUse
    BY <1>1 DEF StatesAreSpent, StateSingleUse
<1>9. DeadStaysDead /\ StoredTokenIsCurrent
    BY <1>1 DEF DeadStaysDead, StoredTokenIsCurrent
<1>10. NewestHeld
    BY <1>1 DEF NewestHeld, Steps
<1> QED
    BY <1>2, <1>4, <1>5, <1>6, <1>7, <1>8, <1>9, <1>10 DEF IInv

-----------------------------------------------------------------------------
(***************************************************************************)
(* Quiet steps: a request goes on, but not to save, or ends; sessions and  *)
(* tokens may disappear, and a token that was to be saved is lost.         *)
(***************************************************************************)

Follows(c, d) ==
    \/ d = Idle
    \/ /\ c.at \in Steps /\ d.at \in Steps \ {"save"}
       /\ d.sid = c.sid /\ d.sess = c.sess /\ d.loaded = c.loaded
       /\ (d.at \in {"lock", "refresh"} => c.at \in {"lock", "refresh"})

Quiet ==
    /\ \A q \in Procs : \/ call'[q] = call[q]
                        \/ /\ Follows(call[q], call'[q])
                           /\ (call[q].at = "save" => call[q].sid \in lost')
    /\ \A s \in Sids : store'[s] = store[s] \/ store'[s] = None
    /\ \A s \in Sids : live'[s] = live[s] \/ live'[s] = 0
    /\ UNCHANGED <<issued, origin, spent>>
    /\ states' \subseteq states /\ lost \subseteq lost' /\ overrun \subseteq overrun'

LEMMA QuietStep ==
    ASSUME IInv, Quiet, TypeOK', LockHolders',
           \A s \in dead' :
              \/ s \in dead /\ under'[s] = under[s]
              \/ /\ s \in Sids /\ origin[s] # None /\ store'[s] = None
                 /\ \A q \in Procs : /\ UnderWay(q, s)' => q \in under'[s]
                                     /\ ~(call'[q].at = "store" /\ call'[q].sid = s)
    PROVE  IInv'
<1>1. ASSUME NEW q \in Procs
      PROVE  \/ call'[q] = call[q]
             \/ call'[q] = Idle /\ call'[q].at \notin Steps \cup {"store", "exchange"}
             \/ /\ call'[q].at \in Steps \ {"save"} /\ call[q].at \in Steps
                /\ call'[q].sid = call[q].sid /\ call'[q].sess = call[q].sess
                /\ call'[q].loaded = call[q].loaded
                /\ (call'[q].at \in {"lock", "refresh"} => call[q].at \in {"lock", "refresh"})
    BY IdleCall DEF Quiet, Follows
<1>2. ASSUME NEW q \in Procs, NEW s, Holds(q, s)'
      PROVE  Holds(q, s) /\ call'[q].sess = call[q].sess
    BY <1>1, <1>2 DEF Holds
<1>3. ASSUME NEW q \in Procs, call'[q].at \in {"save", "store", "exchange"}
      PROVE  call'[q] = call[q]
    BY <1>1, <1>3 DEF Steps
<1>4. SessionsKnowTheirLogin'
    <2> SUFFICES ASSUME NEW s \in Sids
                 PROVE  /\ (origin'[s] = None <=> issued'[s] = 0) /\ live'[s] <= issued'[s]
                        /\ (store'[s] # None => OfLogin(store[s], s)')
                        /\ \A p \in Procs : Holds(p, s)' => OfLogin(call[p].sess, s)'
                        /\ (s \in dead' => origin'[s] # None)
        BY DEF SessionsKnowTheirLogin
    <2>1. \A sess : OfLogin(sess, s) => /\ origin'[s] # None
                                        /\ sess.created = origin'[s].at
                                        /\ sess.token \in 1..issued'[s]
        BY DEF OfLogin, Quiet
    <2>2. store'[s] # None => store'[s] = store[s] /\ OfLogin(store[s], s)
        BY DEF Quiet, IInv, SessionsKnowTheirLogin
    <2>3. \A p \in Procs : Holds(p, s)' => /\ call'[p].sess = call[p].sess
                                           /\ OfLogin(call[p].sess, s)
        BY <1>2 DEF IInv, SessionsKnowTheirLogin
    <2>4. s \in dead' => origin'[s] # None
        BY DEF Quiet, IInv, SessionsKnowTheirLogin
    <2>5. (origin'[s] = None <=> issued'[s] = 0) /\ live'[s] <= issued'[s]
        BY DEF Quiet, IInv, SessionsKnowTheirLogin, TypeOK
    <2> QED
        BY <2>1, <2>2, <2>3, <2>4, <2>5 DEF OfLogin
<1>5. LoadedInTime'
    BY <1>1, IdleCall DEF IInv, LoadedInTime
<1>6. StoredOnce'
    <2> SUFFICES ASSUME NEW p \in Procs, call'[p].at = "store"
                 PROVE  /\ store'[call'[p].sid] = None
                        /\ (live'[call'[p].sid] = 0 \/ call'[p].sess.token = live'[call'[p].sid])
                        /\ \A q \in Procs \ {p} : ~Holds(q, call[p].sid)'
        BY DEF StoredOnce
    <2>1. call'[p] = call[p] /\ call[p].sid \in Sids
        BY <1>3, CallFields DEF IInv, TypeOK
    <2> QED
        BY <1>2, <2>1 DEF IInv, StoredOnce, Quiet
<1>7. SavedOnce'
    <2> SUFFICES ASSUME NEW p \in Procs, call'[p].at = "save"
                 PROVE  /\ (live'[call'[p].sid] = 0 \/ call'[p].sess.token = live'[call'[p].sid])
                        /\ (store'[call'[p].sid] # None =>
                               store'[call'[p].sid].token # call'[p].sess.token)
                        /\ \A q \in Procs \ {p} :
                              Holds(q, call[p].sid)' => call'[q].sess.token # call'[p].sess.token
        BY DEF SavedOnce
    <2>1. call'[p] = call[p] /\ call[p].sid \in Sids
        BY <1>3, CallFields DEF IInv, TypeOK, Steps
    <2> QED
        BY <1>2, <2>1 DEF IInv, SavedOnce, Quiet
<1>8. StatesAreSpent'
    BY <1>3 DEF IInv, StatesAreSpent, Quiet
<1>9. StateSingleUse'
    BY DEF IInv, StateSingleUse, Quiet
<1>10. DeadStaysDead'
    <2> SUFFICES ASSUME NEW s \in dead', s \in dead, under'[s] = under[s]
                 PROVE  /\ store'[s] = None
                        /\ \A q \in Procs : /\ UnderWay(q, s)' => q \in under'[s]
                                            /\ ~(call'[q].at = "store" /\ call'[q].sid = s)
        BY DEF DeadStaysDead
    <2>1. store'[s] = None
        BY DEF IInv, TypeOK, DeadStaysDead, Quiet
    <2>2. ASSUME NEW q \in Procs, UnderWay(q, s)'
          PROVE  UnderWay(q, s)
        BY <1>1, <2>2 DEF UnderWay, Steps
    <2> QED
        BY <1>3, <2>1, <2>2 DEF IInv, DeadStaysDead
<1>11. StoredTokenIsCurrent'
    <2> SUFFICES ASSUME NEW s \in Sids, store'[s] # None, live'[s] # 0, s \notin lost',
                        store'[s].token # live'[s]
                 PROVE  \E p \in Procs : /\ call'[p].at = "save" /\ call'[p].sid = s
                                         /\ call'[p].sess.token = live'[s]
        BY DEF StoredTokenIsCurrent
    <2>1. store'[s] = store[s] /\ live'[s] = live[s] /\ s \notin lost
        BY DEF Quiet
    <2>2. PICK p \in Procs : /\ call[p].at = "save" /\ call[p].sid = s
                             /\ call[p].sess.token = live[s]
        BY <2>1 DEF IInv, StoredTokenIsCurrent
    <2>3. call'[p] = call[p]
        BY <2>2 DEF Quiet
    <2> QED
        BY <2>1, <2>2, <2>3
<1>12. NewestHeld'
    BY <1>3 DEF IInv, NewestHeld, Quiet
<1> QED
    BY <1>4, <1>5, <1>6, <1>7, <1>8, <1>9, <1>10, <1>11, <1>12 DEF IInv

\* A request goes on, and neither the lock nor what is dead changes.
LEMMA QuietCall ==
    ASSUME IInv, NEW p \in Procs, NEW d \in {Idle} \cup Request,
           call' = [call EXCEPT ![p] = d],
           Follows(call[p], d),
           call[p].at = "save" => call[p].sid \in lost',
           d.at \in {"refresh", "release"} => call[p].at \in {"refresh", "save", "release"},
           store' \in [Sids -> Session \cup {None}],
           \A s \in Sids : store'[s] = store[s] \/ store'[s] = None,
           live' \in [Sids -> Nat],
           \A s \in Sids : live'[s] = live[s] \/ live'[s] = 0,
           lost \subseteq lost', lost' \subseteq Sids,
           UNCHANGED <<now, lock, states, issued, origin, spent, overrun, dead, under>>
    PROVE  IInv'
<1>1. /\ call'[p] = d
      /\ \A q \in Procs \ {p} : call'[q] = call[q]
      /\ call' \in [Procs -> {Idle} \cup Request \cup SignIn]
    BY DEF IInv, TypeOK
<1>2. TypeOK'
    BY <1>1 DEF IInv, TypeOK
<1>3. Quiet
    BY <1>1 DEF Quiet
<1>4. LockHolders'
    <2>1. \A q \in Procs, s \in Sids : Refreshing(q, s)' => Refreshing(q, s)
        BY <1>1, IdleCall DEF Refreshing, Follows, Steps
    <2> QED
        BY <2>1 DEF IInv, LockHolders
<1> QED
    BY <1>2, <1>3, <1>4, QuietStep

\* The DEL of a session.
LEMMA DropFields ==
    ASSUME TypeOK, NEW s \in Sids, Drop(s)
    PROVE  /\ store' \in [Sids -> Session \cup {None}]
           /\ \A t \in Sids : store'[t] = store[t] \/ (t = s /\ store'[t] = None)
BY DEF TypeOK, Drop

\* What is known of the request p.
LEMMA InRequest ==
    ASSUME IInv, NEW p \in Procs, call[p].at \in Steps
    PROVE  /\ call[p] \in Request /\ call[p].sid \in Sids /\ call[p].sess \in Session
           /\ call[p].loaded \in Nat /\ call[p].then \in {"serve", "reject", "fail"}
           /\ Holds(p, call[p].sid) /\ OfLogin(call[p].sess, call[p].sid)
BY CallFields DEF IInv, TypeOK, Holds, SessionsKnowTheirLogin

\* The steps that only make a request go on or end.
LEMMA QuietActions ==
    ASSUME IInv, NEW p \in Procs,
           \/ RefreshRefused(p) \/ RefreshCallFails(p) \/ SaveFails(p)
           \/ Reject(p) \/ Serve(p) \/ Logout(p) \/ RevokeCurrent(p) \/ Crash(p)
    PROVE  IInv'
<1> USE DEF redis, identity, history
<1>0. /\ store \in [Sids -> Session \cup {None}] /\ live \in [Sids -> Nat]
      /\ lost \subseteq Sids /\ TypeOK
    BY DEF IInv, TypeOK
<1>1. CASE RefreshRefused(p) \/ RefreshCallFails(p) \/ SaveFails(p)
    <2>1. /\ call[p].at \in {"refresh", "save"}
          /\ UNCHANGED <<now, store, lock, states, live, issued, origin, spent, overrun, dead, under>>
          /\ lost \subseteq lost' /\ lost' \subseteq lost \cup {call[p].sid}
          /\ (call[p].at = "save" => call[p].sid \in lost')
        BY <1>1 DEF RefreshRefused, RefreshCallFails, SaveFails
    <2>2. call[p] \in Request /\ call[p].sid \in Sids
        BY <2>1, InRequest DEF Steps
    <2>3. PICK answer \in {"reject", "fail"} :
              call' = [call EXCEPT ![p] = [call[p] EXCEPT !.at = "release", !.then = answer]]
        BY <1>1 DEF RefreshRefused, RefreshCallFails, SaveFails
    <2> DEFINE d == [call[p] EXCEPT !.at = "release", !.then = answer]
    <2>4. d \in Request /\ d.at = "release" /\ d.sid = call[p].sid /\ d.sess = call[p].sess
          /\ d.loaded = call[p].loaded
        BY <2>2, AnswerFields
    <2>5. call' = [call EXCEPT ![p] = d]
        BY <2>3
    <2> HIDE DEF d
    <2>6. Follows(call[p], d)
        BY <2>1, <2>4 DEF Follows, Steps
    <2> QED
        BY <1>0, <2>1, <2>2, <2>4, <2>5, <2>6, QuietCall
<1>2. CASE Reject(p) \/ Serve(p) \/ Crash(p)
    <2>1. /\ UNCHANGED <<now, lock, states, live, issued, origin, spent, overrun, dead, under>>
          /\ call' = [call EXCEPT ![p] = Idle]
          /\ call[p].at = "save" => call[p].sid \in lost'
        BY <1>2 DEF Reject, Serve, Crash, Done
    <2>2. /\ store' \in [Sids -> Session \cup {None}]
          /\ \A s \in Sids : store'[s] = store[s] \/ store'[s] = None
        <3>1. CASE Reject(p)
            BY <1>0, <3>1, InRequest, DropFields DEF Reject, Steps
        <3> QED
            BY <1>0, <1>2, <3>1 DEF Serve, Crash
    <2>3. lost \subseteq lost' /\ lost' \subseteq Sids
        <3>1. CASE call[p].at = "save"
            BY <1>0, <1>2, <3>1, InRequest DEF Reject, Serve, Crash, Steps
        <3> QED
            BY <1>0, <1>2, <3>1 DEF Reject, Serve, Crash
    <2>4. Follows(call[p], Idle) /\ Idle.at \notin {"refresh", "release"}
        BY IdleCall DEF Follows, Steps
    <2> QED
        BY <1>0, <2>1, <2>2, <2>3, <2>4, QuietCall
<1>3. CASE Logout(p) \/ RevokeCurrent(p)
    <2>1. /\ UNCHANGED <<now, store, lock, states, issued, origin, spent, lost, overrun, dead, under>>
          /\ call[p].at = "serve"
          /\ call' = [call EXCEPT ![p] = [call[p] EXCEPT !.at = "delete"]]
        BY <1>3 DEF Logout, RevokeCurrent, Goto
    <2>2. call[p] \in Request /\ call[p].sid \in Sids
        BY <2>1, InRequest DEF Steps
    <2>3. live' \in [Sids -> Nat] /\ \A s \in Sids : live'[s] = live[s] \/ live'[s] = 0
        BY <1>0, <1>3, <2>2 DEF Logout, RevokeCurrent
    <2> DEFINE d == [call[p] EXCEPT !.at = "delete"]
    <2>4. d \in Request /\ d.at = "delete" /\ d.sid = call[p].sid /\ d.sess = call[p].sess
          /\ d.loaded = call[p].loaded
        BY <2>2, StepFields DEF Steps
    <2>5. call' = [call EXCEPT ![p] = d]
        BY <2>1
    <2> HIDE DEF d
    <2>6. Follows(call[p], d)
        BY <2>1, <2>4 DEF Follows, Steps
    <2> QED
        BY <1>0, <2>1, <2>3, <2>4, <2>5, <2>6, QuietCall
<1> QED
    BY <1>1, <1>2, <1>3

\* Delete: who is dead has no request under way and is not stored.
LEMMA DeleteStep ==
    ASSUME IInv, NEW p \in Procs, Delete(p)
    PROVE  IInv'
<1> DEFINE s == call[p].sid
<1>1. /\ call[p].at = "delete" /\ Drop(s) /\ call' = [call EXCEPT ![p] = Idle]
      /\ IF store'[s] = None
         THEN /\ dead' = dead \cup {s}
              /\ under' = [under EXCEPT ![s] = {q \in Procs : UnderWay(q, s)}]
         ELSE UNCHANGED <<dead, under>>
      /\ UNCHANGED <<now, lock, states, live, issued, spent, origin, lost, overrun>>
    BY DEF Delete, Done, identity
<1>2. call[p] \in Request /\ s \in Sids /\ origin[s] # None /\ Holds(p, s)
    BY <1>1, InRequest DEF Steps, OfLogin
<1>3. /\ call'[p] = Idle
      /\ \A q \in Procs \ {p} : call'[q] = call[q]
      /\ call' \in [Procs -> {Idle} \cup Request \cup SignIn]
    BY <1>1 DEF IInv, TypeOK
<1>4. /\ store' \in [Sids -> Session \cup {None}]
      /\ \A t \in Sids : store'[t] = store[t] \/ store'[t] = None
    BY <1>1, <1>2, DropFields DEF IInv
<1>5. TypeOK'
    BY <1>1, <1>2, <1>3, <1>4 DEF IInv, TypeOK
<1>6. Quiet
    <2>1. \A q \in Procs : \/ call'[q] = call[q]
                           \/ /\ Follows(call[q], call'[q])
                              /\ (call[q].at = "save" => call[q].sid \in lost')
        BY <1>1, <1>3 DEF Follows
    <2>2. \A t \in Sids : live'[t] = live[t] \/ live'[t] = 0
        BY <1>1
    <2> QED
        BY <1>1, <1>4, <2>1, <2>2 DEF Quiet
<1>7. LockHolders'
    BY <1>1, <1>3, IdleCall DEF IInv, LockHolders, Refreshing, Steps
<1>8. ASSUME NEW t \in dead'
      PROVE  \/ t \in dead /\ under'[t] = under[t]
             \/ /\ t \in Sids /\ origin[t] # None /\ store'[t] = None
                /\ \A q \in Procs : /\ UnderWay(q, t)' => q \in under'[t]
                                    /\ ~(call'[q].at = "store" /\ call'[q].sid = t)
    <2>1. CASE store'[s] = None /\ t = s
        <3>1. under'[s] = {q \in Procs : UnderWay(q, s)}
            BY <1>1, <1>2, <2>1 DEF IInv, TypeOK
        <3>2. \A q \in Procs : ~(call[q].at = "store" /\ call[q].sid = s)
            BY <1>1, <1>2 DEF IInv, StoredOnce
        <3> QED
            BY <1>2, <1>3, <2>1, <3>1, <3>2, IdleCall DEF UnderWay, Steps
    <2>2. CASE ~(store'[s] = None /\ t = s)
        BY <1>1, <1>8, <2>2 DEF IInv, TypeOK
    <2> QED
        BY <2>1, <2>2
<1> QED
    BY <1>5, <1>6, <1>7, <1>8, QuietStep

\* The lock: SET NX, whoever has it, and its release.
LEMMA AcquireStep ==
    ASSUME IInv, NEW p \in Procs, AcquireRefreshLock(p)
    PROVE  IInv'
<1> DEFINE s == call[p].sid
<1>1. /\ call[p].at = "lock"
      /\ UNCHANGED <<now, store, states, live, issued, origin, spent, lost, overrun, dead, under>>
    BY DEF AcquireRefreshLock, identity, history
<1>2. call[p] \in Request /\ s \in Sids
    BY <1>1, InRequest DEF Steps
<1>3. CASE lock[s] = None
    <2>1. PICK step \in {"refresh", "release"} :
              call' = [call EXCEPT ![p] = [call[p] EXCEPT !.at = step]]
        BY <1>3 DEF AcquireRefreshLock, Goto, AfterLock
    <2>2. lock' = [lock EXCEPT ![s] = p]
        BY <1>3 DEF AcquireRefreshLock
    <2> DEFINE d == [call[p] EXCEPT !.at = step]
    <2>3. d \in Request /\ d.at = step /\ d.sid = s /\ d.sess = call[p].sess
          /\ d.loaded = call[p].loaded
        <3>1. step \in Steps
            BY DEF Steps
        <3> QED
            BY <1>2, <3>1, StepFields
    <2>4. /\ call'[p] = d
          /\ \A q \in Procs \ {p} : call'[q] = call[q]
          /\ call' \in [Procs -> {Idle} \cup Request \cup SignIn]
        BY <2>1, <2>3 DEF IInv, TypeOK
    <2> HIDE DEF d
    <2>5. TypeOK'
        BY <1>1, <1>2, <2>2, <2>4 DEF IInv, TypeOK
    <2>6. Quiet
        <3>1. Follows(call[p], d) /\ call[p].at # "save"
            BY <1>1, <2>3 DEF Follows, Steps
        <3> QED
            BY <1>1, <2>4, <3>1 DEF Quiet
    <2>7. LockHolders'
        <3> SUFFICES ASSUME NEW t \in Sids \ overrun, NEW q \in Procs, Refreshing(q, t)'
                     PROVE  lock'[t] = q
            BY <1>1 DEF LockHolders
        <3>1. CASE q = p
            BY <1>2, <2>2, <2>3, <2>4, <3>1 DEF Refreshing, IInv, TypeOK
        <3>2. CASE q # p
            <4>1. lock[t] = q
                BY <2>4, <3>2 DEF Refreshing, IInv, LockHolders
            <4>2. t # s
                BY <1>3, <4>1, Constants
            <4> QED
                BY <1>2, <2>2, <4>1, <4>2 DEF IInv, TypeOK
        <3> QED
            BY <3>1, <3>2
    <2> QED
        BY <1>1, <2>5, <2>6, <2>7, QuietStep
<1>4. CASE lock[s] # None
    <2> DEFINE d == [call[p] EXCEPT !.at = "wait"]
    <2>1. call' = [call EXCEPT ![p] = d] /\ lock' = lock
        BY <1>4 DEF AcquireRefreshLock, Goto
    <2>2. d \in Request /\ d.at = "wait" /\ d.sid = s /\ d.sess = call[p].sess
          /\ d.loaded = call[p].loaded
        BY <1>2, StepFields DEF Steps
    <2> HIDE DEF d
    <2>3. Follows(call[p], d)
        BY <1>1, <2>2 DEF Follows, Steps
    <2>4. /\ store' \in [Sids -> Session \cup {None}] /\ live' \in [Sids -> Nat]
          /\ lost' \subseteq Sids
        BY <1>1 DEF IInv, TypeOK
    <2> QED
        BY <1>1, <2>1, <2>2, <2>3, <2>4, QuietCall
<1> QED
    BY <1>3, <1>4

LEMMA ReleaseStep ==
    ASSUME IInv, NEW p \in Procs, ReleaseRefreshLock(p)
    PROVE  IInv'
<1> DEFINE s == call[p].sid
<1>1. /\ call[p].at = "release"
      /\ UNCHANGED <<now, store, states, live, issued, origin, spent, lost, overrun, dead, under>>
    BY DEF ReleaseRefreshLock, identity, history
<1>2. call[p] \in Request /\ s \in Sids /\ call[p].then \in {"serve", "reject", "fail"}
    BY <1>1, InRequest DEF Steps
<1>3. PICK gone \in BOOLEAN : lock' = [lock EXCEPT ![s] = IF gone THEN None ELSE lock[s]]
    BY DEF ReleaseRefreshLock
<1>4. PICK d \in {Idle} \cup Request :
          /\ call' = [call EXCEPT ![p] = d]
          /\ Follows(call[p], d)
          /\ d.at \notin {"refresh", "save", "release"}
    <2>1. CASE call[p].then = "fail"
        <3>1. call' = [call EXCEPT ![p] = Idle]
            BY <2>1 DEF ReleaseRefreshLock, Done
        <3> QED
            BY <3>1, IdleCall DEF Follows, Steps
    <2>2. CASE call[p].then # "fail"
        <3> DEFINE e == [call[p] EXCEPT !.at = call[p].then]
        <3>1. call' = [call EXCEPT ![p] = e]
            BY <2>2 DEF ReleaseRefreshLock, Goto
        <3>2. e \in Request /\ e.at = call[p].then /\ e.sid = s /\ e.sess = call[p].sess
              /\ e.loaded = call[p].loaded
            <4>1. call[p].then \in Steps
                BY <1>2, <2>2 DEF Steps
            <4> QED
                BY <1>2, <4>1, StepFields
        <3> HIDE DEF e
        <3>3. Follows(call[p], e)
            BY <1>1, <1>2, <2>2, <3>2 DEF Follows, Steps
        <3> QED
            BY <1>2, <2>2, <3>1, <3>2, <3>3
    <2> QED
        BY <2>1, <2>2
<1>5. /\ call'[p] = d
      /\ \A q \in Procs \ {p} : call'[q] = call[q]
      /\ call' \in [Procs -> {Idle} \cup Request \cup SignIn]
    BY <1>4 DEF IInv, TypeOK
<1>6. TypeOK'
    BY <1>1, <1>2, <1>3, <1>5 DEF IInv, TypeOK
<1>7. Quiet
    BY <1>1, <1>4, <1>5 DEF Quiet
<1>8. LockHolders'
    <2> SUFFICES ASSUME NEW t \in Sids \ overrun, NEW q \in Procs, Refreshing(q, t)'
                 PROVE  lock'[t] = q
        BY <1>1 DEF LockHolders
    <2>1. q # p
        BY <1>4, <1>5 DEF Refreshing
    <2>2. lock[t] = q
        BY <1>5, <2>1 DEF Refreshing, IInv, LockHolders
    <2>3. t # s
        BY <1>1, <2>1, <2>2 DEF Refreshing, IInv, LockHolders
    <2> QED
        BY <1>2, <1>3, <2>2, <2>3 DEF IInv, TypeOK
<1> QED
    BY <1>1, <1>6, <1>7, <1>8, QuietStep

\* Redis, the clock, identity-service and Me: no request takes a step.
LEMMA EnvironmentStep ==
    ASSUME IInv, UNCHANGED <<call, issued, spent, origin, lost, dead, under>>,
           now' \in Nat,
           store' \in [Sids -> Session \cup {None}],
           \A s \in Sids : store'[s] = store[s] \/ store'[s] = None,
           live' \in [Sids -> Nat],
           \A s \in Sids : live'[s] = live[s] \/ live'[s] = 0,
           states' \subseteq states,
           lock' \in [Sids -> Procs \cup {None}],
           overrun \subseteq overrun', overrun' \subseteq Sids,
           \A s \in Sids \ overrun' :
               lock'[s] = lock[s] \/ \A p \in Procs : ~Refreshing(p, s)
    PROVE  IInv'
<1>1. TypeOK'
    BY DEF IInv, TypeOK
<1>2. Quiet
    BY DEF Quiet
<1>3. LockHolders'
    BY DEF IInv, LockHolders, Refreshing
<1> QED
    BY <1>1, <1>2, <1>3, QuietStep

LEMMA EnvironmentActions ==
    ASSUME IInv, Environment \/ \E s \in Sids : Me(s)
    PROVE  IInv'
<1> USE DEF redis, identity, history
<1>0. /\ now \in Nat /\ store \in [Sids -> Session \cup {None}] /\ live \in [Sids -> Nat]
      /\ lock \in [Sids -> Procs \cup {None}] /\ overrun \subseteq Sids /\ TypeOK
    BY DEF IInv, TypeOK
<1>1. ASSUME NEW s \in Sids, RevokedElsewhere(s) PROVE IInv'
    BY <1>0, <1>1, EnvironmentStep DEF RevokedElsewhere
<1>2. ASSUME NEW s \in Sids, SessionExpires(s) PROVE IInv'
    BY <1>0, <1>2, EnvironmentStep DEF SessionExpires
<1>3. ASSUME NEW s \in Sids, LockExpires(s) PROVE IInv'
    <2>1. /\ UNCHANGED <<now, store, states, call, live, issued, spent, origin, lost, dead, under>>
          /\ lock' = [lock EXCEPT ![s] = None]
          /\ overrun' = overrun \cup IF \E p \in Procs : Refreshing(p, s) THEN {s} ELSE {}
        BY <1>3 DEF LockExpires
    <2>2. overrun \subseteq overrun' /\ overrun' \subseteq Sids
        BY <1>0, <2>1
    <2>3. lock' \in [Sids -> Procs \cup {None}]
        BY <1>0, <2>1
    <2>4. \A t \in Sids \ overrun' :
              lock'[t] = lock[t] \/ \A p \in Procs : ~Refreshing(p, t)
        BY <1>0, <2>1
    <2> QED
        BY <1>0, <2>1, <2>2, <2>3, <2>4, EnvironmentStep
<1>4. ASSUME NEW st \in states, StateExpires(st) PROVE IInv'
    BY <1>0, <1>4, EnvironmentStep DEF StateExpires
<1>5. ASSUME NEW p \in Procs, Crash(p) PROVE IInv'
    BY <1>5, QuietActions
<1>6. CASE Tick
    BY <1>0, <1>6, EnvironmentStep DEF Tick
<1>7. ASSUME NEW s \in Sids, Me(s) PROVE IInv'
    BY <1>0, <1>7, DropFields, EnvironmentStep DEF Me
<1> QED
    BY <1>1, <1>2, <1>3, <1>4, <1>5, <1>6, <1>7 DEF Environment

-----------------------------------------------------------------------------
(***************************************************************************)
(* A request takes a session out of Redis.                                 *)
(***************************************************************************)

LEMMA TakeStep ==
    ASSUME IInv, NEW p \in Procs, NEW s \in Sids, Usable(s), NEW d \in Request,
           call[p].at \in {"idle", "wait"},
           call' = [call EXCEPT ![p] = d],
           d.at \in {"lock", "serve"}, d.sid = s, d.sess = store[s], d.loaded = now,
           UNCHANGED <<now, store, lock, states, live, issued, spent, origin, lost, overrun, dead, under>>
    PROVE  IInv'
<1>1. /\ call'[p] = d
      /\ \A q \in Procs \ {p} : call'[q] = call[q]
      /\ call' \in [Procs -> {Idle} \cup Request \cup SignIn]
    BY DEF IInv, TypeOK
<1>2. store[s] # None /\ store[s] \in Session /\ now <= store[s].created + HardTTL
    BY Constants DEF Usable, TooOld, IInv, TypeOK, Session
<1>3. TypeOK'
    BY <1>1 DEF IInv, TypeOK
<1>4. SessionsKnowTheirLogin'
    BY <1>1, <1>2 DEF IInv, SessionsKnowTheirLogin, Holds, OfLogin
<1>5. LoadedInTime'
    BY <1>1, <1>2 DEF IInv, LoadedInTime
<1>6. StoredOnce'
    BY <1>1, <1>2 DEF IInv, StoredOnce, Holds
<1>7. SavedOnce'
    BY <1>1, <1>2 DEF IInv, SavedOnce, Holds
<1>8. LockHolders'
    BY <1>1 DEF IInv, LockHolders, Refreshing
<1>9. StatesAreSpent' /\ StateSingleUse'
    BY <1>1 DEF IInv, StatesAreSpent, StateSingleUse
<1>10. DeadStaysDead'
    BY <1>1, <1>2 DEF IInv, DeadStaysDead, UnderWay
<1>11. StoredTokenIsCurrent'
    BY <1>1 DEF IInv, StoredTokenIsCurrent
<1>12. NewestHeld'
    BY <1>1 DEF IInv, NewestHeld
<1> QED
    BY <1>3, <1>4, <1>5, <1>6, <1>7, <1>8, <1>9, <1>10, <1>11, <1>12 DEF IInv

LEMMA LoadStep ==
    ASSUME IInv, NEW p \in Procs, NEW s \in Sids, Load(p, s)
    PROVE  IInv'
<1> USE DEF redis, identity, history
<1>1. /\ call[p] = Idle /\ call[p].at = "idle"
      /\ UNCHANGED <<now, lock, states, live, issued, spent, origin, lost, overrun, dead, under>>
    BY IdleCall DEF Load
<1>2. CASE Usable(s)
    <2> DEFINE d == [at |-> IF NearExpiry(store[s]) THEN "lock" ELSE "serve",
                     sid |-> s, sess |-> store[s], loaded |-> now, then |-> "serve"]
    <2>1. call' = [call EXCEPT ![p] = d] /\ store' = store
        BY <1>2 DEF Load
    <2>2. d \in Request /\ d.at \in {"lock", "serve"} /\ d.sid = s /\ d.sess = store[s]
          /\ d.loaded = now
        <3>1. store[s] \in Session /\ now \in Nat
            BY <1>2 DEF Usable, IInv, TypeOK
        <3> QED
            BY <3>1 DEF Request, Steps
    <2> HIDE DEF d
    <2> QED
        BY <1>1, <1>2, <2>1, <2>2, TakeStep
<1>3. CASE ~Usable(s)
    <2>1. call' = call
        BY <1>3 DEF Load
    <2>2. /\ store' \in [Sids -> Session \cup {None}]
          /\ \A t \in Sids : store'[t] = store[t] \/ store'[t] = None
        BY <1>3, DropFields DEF Load, IInv, TypeOK
    <2> QED
        BY <1>1, <2>1, <2>2, EnvironmentStep DEF IInv, TypeOK
<1> QED
    BY <1>2, <1>3

LEMMA ReloadStep ==
    ASSUME IInv, NEW p \in Procs, Reload(p)
    PROVE  IInv'
<1> DEFINE s == call[p].sid
<1>1. /\ call[p].at = "wait"
      /\ UNCHANGED <<now, lock, states, live, issued, spent, origin, lost, overrun, dead, under>>
    BY DEF Reload, identity, history
<1>2. call[p] \in Request /\ s \in Sids
    BY <1>1, InRequest DEF Steps
<1>3. CASE Usable(s)
    <2> DEFINE d == [call[p] EXCEPT !.at = "serve", !.sess = store[s], !.loaded = now]
    <2>1. call' = [call EXCEPT ![p] = d] /\ store' = store
        BY <1>3 DEF Reload
    <2>2. d \in Request /\ d.at = "serve" /\ d.sid = s /\ d.sess = store[s] /\ d.loaded = now
        <3>1. store[s] \in Session /\ now \in Nat
            BY <1>2, <1>3 DEF Usable, IInv, TypeOK
        <3> QED
            BY <1>2, <3>1 DEF Request, Steps
    <2> HIDE DEF d
    <2> QED
        BY <1>1, <1>2, <1>3, <2>1, <2>2, TakeStep
<1>4. CASE ~Usable(s)
    <2> DEFINE d == [call[p] EXCEPT !.at = "reject"]
    <2>1. call' = [call EXCEPT ![p] = d]
        BY <1>4 DEF Reload
    <2>2. d \in Request /\ d.at = "reject" /\ d.sid = s /\ d.sess = call[p].sess
          /\ d.loaded = call[p].loaded
        BY <1>2, StepFields DEF Steps
    <2> HIDE DEF d
    <2>3. Follows(call[p], d)
        BY <1>1, <2>2 DEF Follows, Steps
    <2>4. /\ store' \in [Sids -> Session \cup {None}]
          /\ \A t \in Sids : store'[t] = store[t] \/ store'[t] = None
        BY <1>2, <1>4, DropFields DEF Reload, IInv, TypeOK
    <2>5. live' \in [Sids -> Nat] /\ lost' \subseteq Sids
        BY <1>1 DEF IInv, TypeOK
    <2> QED
        BY <1>1, <2>1, <2>2, <2>3, <2>4, <2>5, QuietCall
<1> QED
    BY <1>3, <1>4

-----------------------------------------------------------------------------
(***************************************************************************)
(* A refresh replaces the token, and Save stores the new one.              *)
(***************************************************************************)

\* identity-service accepts a token: nobody else was about to save it, and the new
\* token is nowhere yet.  Its answer arrives, or is lost.
LEMMA RefreshStep ==
    ASSUME IInv, NEW p \in Procs, NEW s \in Sids, NEW d \in Request,
           call[p].at = "refresh", call[p].sid = s, call[p].sess.token = live[s],
           call' = [call EXCEPT ![p] = d],
           d.sid = s, d.sess.created = call[p].sess.created, d.loaded = call[p].loaded,
           \/ d.at = "save" /\ d.sess.token = issued[s] + 1 /\ lost' = lost
           \/ d.at = "release" /\ d.sess.token = call[p].sess.token /\ lost' = lost \cup {s},
           issued' = [issued EXCEPT ![s] = issued[s] + 1],
           live' = [live EXCEPT ![s] = issued[s] + 1],
           UNCHANGED <<now, store, lock, states, spent, origin, overrun, dead, under>>
    PROVE  IInv'
<1> DEFINE n == issued[s] + 1
<1>1. /\ call'[p] = d
      /\ \A q \in Procs \ {p} : call'[q] = call[q]
      /\ call' \in [Procs -> {Idle} \cup Request \cup SignIn]
    BY DEF IInv, TypeOK
<1>2. /\ n \in Nat \ {0} /\ issued[s] \in Nat
      /\ issued'[s] = n /\ live'[s] = n
      /\ \A t \in Sids : t # s => issued'[t] = issued[t] /\ live'[t] = live[t]
    BY DEF IInv, TypeOK
<1>3. Holds(p, s) /\ OfLogin(call[p].sess, s) /\ live[s] # 0 /\ origin[s] # None
    BY InRequest DEF Steps, OfLogin
<1>4. /\ store[s] # None => store[s].token \in 1..issued[s]
      /\ \A q \in Procs : Holds(q, s) => call[q].sess.token \in 1..issued[s]
    BY DEF IInv, SessionsKnowTheirLogin, OfLogin
<1>5. d.at \in Steps
    BY CallFields
<1>6. ASSUME NEW q \in Procs, NEW t \in Sids, Holds(q, t)'
      PROVE  Holds(q, t) /\ (q # p => call'[q] = call[q]) /\ (q = p => t = s)
    BY <1>1, <1>3, <1>6 DEF Holds
<1>7. TypeOK'
    <2>1. lost' \subseteq Sids
        BY DEF IInv, TypeOK
    <2> QED
        BY <1>1, <1>2, <2>1 DEF IInv, TypeOK
<1>8. SessionsKnowTheirLogin'
    <2> SUFFICES ASSUME NEW t \in Sids
                 PROVE  /\ (origin[t] = None <=> issued'[t] = 0) /\ live'[t] <= issued'[t]
                        /\ (store[t] # None => OfLogin(store[t], t)')
                        /\ \A q \in Procs : Holds(q, t)' => OfLogin(call[q].sess, t)'
                        /\ (t \in dead => origin[t] # None)
        BY DEF SessionsKnowTheirLogin
    <2>1. 1..issued[s] \subseteq 1..n /\ n \in 1..n
        BY <1>2
    <2>2. /\ (origin[t] = None <=> issued'[t] = 0) /\ live'[t] <= issued'[t]
          /\ t \in dead => origin[t] # None
        BY <1>2, <1>3 DEF IInv, SessionsKnowTheirLogin
    <2>3. \A sess : OfLogin(sess, t) => /\ origin[t] # None
                                        /\ sess.created = origin[t].at
                                        /\ sess.token \in 1..issued'[t]
        BY <1>2, <2>1 DEF OfLogin
    <2>4. store[t] # None => OfLogin(store[t], t)'
        BY <2>3 DEF IInv, SessionsKnowTheirLogin, OfLogin
    <2>5. ASSUME NEW q \in Procs, Holds(q, t)'
          PROVE  OfLogin(call[q].sess, t)'
        <3>1. Holds(q, t) /\ OfLogin(call[q].sess, t)
            BY <1>6, <2>5 DEF IInv, SessionsKnowTheirLogin
        <3>2. CASE q # p
            BY <1>6, <2>3, <2>5, <3>1, <3>2 DEF OfLogin
        <3>3. CASE q = p
            BY <1>1, <1>2, <1>6, <2>1, <2>3, <2>5, <3>1, <3>3 DEF OfLogin
        <3> QED
            BY <3>2, <3>3
    <2> QED
        BY <2>2, <2>4, <2>5
<1>9. LoadedInTime'
    BY <1>1, <1>5 DEF IInv, LoadedInTime, Steps
<1>10. StoredOnce'
    <2> SUFFICES ASSUME NEW q \in Procs, call'[q].at = "store"
                 PROVE  /\ store[call'[q].sid] = None
                        /\ (live'[call'[q].sid] = 0 \/ call'[q].sess.token = live'[call'[q].sid])
                        /\ \A r \in Procs \ {q} : ~Holds(r, call[q].sid)'
        BY DEF StoredOnce
    <2>1. q # p /\ call'[q] = call[q] /\ call[q].sid \in Sids
        BY <1>1, <1>5, CallFields DEF IInv, TypeOK, Steps
    <2>2. call[q].sid # s
        BY <1>3, <2>1 DEF IInv, StoredOnce
    <2> QED
        BY <1>2, <1>6, <2>1, <2>2 DEF IInv, StoredOnce
<1>11. SavedOnce'
    <2> SUFFICES ASSUME NEW q \in Procs, call'[q].at = "save"
                 PROVE  /\ (live'[call'[q].sid] = 0 \/ call'[q].sess.token = live'[call'[q].sid])
                        /\ (store[call'[q].sid] # None =>
                               store[call'[q].sid].token # call'[q].sess.token)
                        /\ \A r \in Procs \ {q} :
                              Holds(r, call[q].sid)' => call'[r].sess.token # call'[q].sess.token
        BY DEF SavedOnce
    <2>1. CASE q = p
        <3>1. call'[p].sess.token = n /\ call'[p].sid = s
            BY <1>1, <2>1
        <3>2. \A r \in Procs \ {p} : Holds(r, s)' => call'[r].sess.token \in 1..issued[s]
            BY <1>4, <1>6
        <3>3. n \notin 1..issued[s]
            BY <1>2
        <3> QED
            BY <1>2, <1>4, <2>1, <3>1, <3>2, <3>3
    <2>2. CASE q # p
        <3>1. call'[q] = call[q] /\ call[q].sid \in Sids
            BY <1>1, <2>2, CallFields DEF IInv, TypeOK, Steps
        <3>2. call[q].sid # s
            BY <1>3, <2>2, <3>1 DEF IInv, SavedOnce
        <3> QED
            BY <1>2, <1>6, <3>1, <3>2 DEF IInv, SavedOnce
    <2> QED
        BY <2>1, <2>2
<1>12. LockHolders'
    BY <1>1 DEF IInv, LockHolders, Refreshing
<1>13. StatesAreSpent' /\ StateSingleUse'
    BY <1>1 DEF IInv, StatesAreSpent, StateSingleUse
<1>14. DeadStaysDead'
    BY <1>1, <1>5 DEF IInv, DeadStaysDead, UnderWay, Steps
<1>15. StoredTokenIsCurrent'
    <2> SUFFICES ASSUME NEW t \in Sids, store[t] # None, live'[t] # 0, t \notin lost',
                        store[t].token # live'[t]
                 PROVE  \E q \in Procs : /\ call'[q].at = "save" /\ call'[q].sid = t
                                         /\ call'[q].sess.token = live'[t]
        BY DEF StoredTokenIsCurrent
    <2>1. CASE t = s
        BY <1>1, <1>2, <2>1
    <2>2. CASE t # s
        <3>1. PICK q \in Procs : /\ call[q].at = "save" /\ call[q].sid = t
                                 /\ call[q].sess.token = live[t]
            BY <1>2, <2>2 DEF IInv, StoredTokenIsCurrent
        <3> QED
            BY <1>1, <1>2, <2>2, <3>1
    <2> QED
        BY <2>1, <2>2
<1>16. NewestHeld'
    <2> SUFFICES ASSUME NEW q \in Procs, call'[q].at \in {"save", "store"}
                 PROVE  call'[q].sess.token = issued'[call'[q].sid]
        BY DEF NewestHeld
    <2>1. CASE q = p
        BY <1>1, <1>2, <1>5, <2>1 DEF Steps
    <2>2. CASE q # p
        <3>1. call'[q] = call[q] /\ call[q].sid \in Sids
            BY <1>1, <2>2, CallFields DEF IInv, TypeOK, Steps
        <3>2. call[q].sid # s
            BY <1>3, <2>2, <3>1 DEF IInv, SavedOnce, StoredOnce
        <3> QED
            BY <1>2, <3>1, <3>2 DEF IInv, NewestHeld
    <2> QED
        BY <2>1, <2>2
<1> QED
    BY <1>7, <1>8, <1>9, <1>10, <1>11, <1>12, <1>13, <1>14, <1>15, <1>16 DEF IInv

LEMMA RefreshActions ==
    ASSUME IInv, NEW p \in Procs, RefreshAccepted(p) \/ RefreshAnswerLost(p)
    PROVE  IInv'
<1> DEFINE s == call[p].sid
<1>1. /\ call[p].at = "refresh" /\ call[p].sess.token = live[s]
      /\ issued' = [issued EXCEPT ![s] = issued[s] + 1]
      /\ live' = [live EXCEPT ![s] = issued[s] + 1]
      /\ UNCHANGED <<now, store, lock, states, spent, origin, overrun, dead, under>>
    BY DEF RefreshAccepted, RefreshAnswerLost, redis, history
<1>2. call[p] \in Request /\ s \in Sids
    BY <1>1, InRequest DEF Steps
<1>3. CASE RefreshAccepted(p)
    <2> DEFINE token  == issued[s] + 1
               expiry == now + AccessTTL
               d == [call[p] EXCEPT !.at = "save", !.sess.token = token, !.sess.expiry = expiry]
    <2>1. token \in Nat /\ expiry \in Nat
        BY <1>2, Constants DEF IInv, TypeOK
    <2>2. d \in Request /\ d.at = "save" /\ d.sid = s /\ d.sess.token = token
          /\ d.sess.created = call[p].sess.created /\ d.loaded = call[p].loaded
        <3> HIDE DEF token, expiry
        <3> QED
            BY <1>2, <2>1 DEF Request, Session, Steps
    <2>3. call' = [call EXCEPT ![p] = d] /\ lost' = lost
        BY <1>3 DEF RefreshAccepted, history
    <2> HIDE DEF d
    <2> QED
        BY <1>1, <1>2, <2>2, <2>3, RefreshStep
<1>4. CASE RefreshAnswerLost(p)
    <2> DEFINE d == [call[p] EXCEPT !.at = "release", !.then = "reject"]
    <2>1. d \in Request /\ d.at = "release" /\ d.sid = s /\ d.sess = call[p].sess
          /\ d.loaded = call[p].loaded
        BY <1>2, AnswerFields
    <2>2. call' = [call EXCEPT ![p] = d] /\ lost' = lost \cup {s}
        BY <1>4 DEF RefreshAnswerLost
    <2> HIDE DEF d
    <2> QED
        BY <1>1, <1>2, <2>1, <2>2, RefreshStep
<1> QED
    BY <1>3, <1>4

\* Save: what it writes is what counts, and nobody else was about to write that.
LEMMA SaveStep ==
    ASSUME IInv, NEW p \in Procs, Save(p)
    PROVE  IInv'
<1> DEFINE s    == call[p].sid
           sess == call[p].sess
           d    == [call[p] EXCEPT !.at = "release"]
<1>1. /\ call[p].at = "save" /\ store' = [store EXCEPT ![s] = sess]
      /\ call' = [call EXCEPT ![p] = d]
      /\ dead' = IF p \in under[s] THEN dead \ {s} ELSE dead
      /\ UNCHANGED <<now, lock, states, live, issued, spent, origin, lost, overrun, under>>
    BY DEF Save, Goto, identity
<1>2. /\ call[p] \in Request /\ s \in Sids /\ sess \in Session
      /\ Holds(p, s) /\ OfLogin(sess, s)
    BY <1>1, InRequest DEF Steps
<1>3. d \in Request /\ d.at = "release" /\ d.sid = s /\ d.sess = sess /\ d.loaded = call[p].loaded
    BY <1>2, StepFields DEF Steps
<1> HIDE DEF d
<1>4. /\ call'[p] = d
      /\ \A q \in Procs \ {p} : call'[q] = call[q]
      /\ call' \in [Procs -> {Idle} \cup Request \cup SignIn]
    BY <1>1, <1>3 DEF IInv, TypeOK
<1>5. store'[s] = sess /\ \A t \in Sids \ {s} : store'[t] = store[t]
    BY <1>1, <1>2 DEF IInv, TypeOK
<1>6. ASSUME NEW q \in Procs, NEW t, Holds(q, t)'
      PROVE  Holds(q, t) /\ call'[q].sess = call[q].sess
    BY <1>2, <1>3, <1>4, <1>6 DEF Holds
<1>7. TypeOK'
    BY <1>1, <1>2, <1>4 DEF IInv, TypeOK
<1>8. SessionsKnowTheirLogin'
    BY <1>1, <1>2, <1>5, <1>6 DEF IInv, SessionsKnowTheirLogin, OfLogin
<1>9. LoadedInTime'
    BY <1>1, <1>3, <1>4 DEF IInv, LoadedInTime, Steps
<1>10. StoredOnce'
    <2> SUFFICES ASSUME NEW q \in Procs, call'[q].at = "store"
                 PROVE  /\ store'[call'[q].sid] = None
                        /\ (live[call'[q].sid] = 0 \/ call'[q].sess.token = live[call'[q].sid])
                        /\ \A r \in Procs \ {q} : ~Holds(r, call[q].sid)'
        BY <1>1 DEF StoredOnce
    <2>1. q # p /\ call'[q] = call[q] /\ call[q].sid \in Sids
        BY <1>3, <1>4, CallFields DEF IInv, TypeOK
    <2>2. call[q].sid # s
        BY <1>2, <2>1 DEF IInv, StoredOnce
    <2> QED
        BY <1>5, <1>6, <2>1, <2>2 DEF IInv, StoredOnce
<1>11. SavedOnce'
    <2> SUFFICES ASSUME NEW q \in Procs, call'[q].at = "save"
                 PROVE  /\ (live[call'[q].sid] = 0 \/ call'[q].sess.token = live[call'[q].sid])
                        /\ (store'[call'[q].sid] # None =>
                               store'[call'[q].sid].token # call'[q].sess.token)
                        /\ \A r \in Procs \ {q} :
                              Holds(r, call[q].sid)' => call'[r].sess.token # call'[q].sess.token
        BY <1>1 DEF SavedOnce
    <2>1. q # p /\ call'[q] = call[q] /\ call[q].sid \in Sids
        BY <1>3, <1>4, CallFields DEF IInv, TypeOK, Steps
    <2>2. call[q].sid = s => sess.token # call[q].sess.token
        BY <1>2, <2>1 DEF IInv, SavedOnce
    <2> QED
        BY <1>5, <1>6, <2>1, <2>2 DEF IInv, SavedOnce
<1>12. LockHolders'
    BY <1>1, <1>3, <1>4 DEF IInv, LockHolders, Refreshing
<1>13. StatesAreSpent' /\ StateSingleUse'
    BY <1>1, <1>3, <1>4 DEF IInv, StatesAreSpent, StateSingleUse
<1>14. DeadStaysDead'
    <2>1. s \notin dead' /\ dead' \subseteq dead
        BY <1>1 DEF IInv, DeadStaysDead, UnderWay
    <2> QED
        BY <1>1, <1>3, <1>4, <1>5, <2>1 DEF IInv, TypeOK, DeadStaysDead, UnderWay
<1>15. StoredTokenIsCurrent'
    <2> SUFFICES ASSUME NEW t \in Sids, store'[t] # None, live[t] # 0, t \notin lost,
                        store'[t].token # live[t]
                 PROVE  \E q \in Procs : /\ call'[q].at = "save" /\ call'[q].sid = t
                                         /\ call'[q].sess.token = live[t]
        BY <1>1 DEF StoredTokenIsCurrent
    <2>1. t # s
        BY <1>1, <1>5 DEF IInv, SavedOnce
    <2>2. PICK q \in Procs : /\ call[q].at = "save" /\ call[q].sid = t
                             /\ call[q].sess.token = live[t]
        BY <1>5, <2>1 DEF IInv, StoredTokenIsCurrent
    <2> QED
        BY <1>4, <2>1, <2>2
<1>16. NewestHeld'
    BY <1>1, <1>3, <1>4 DEF IInv, NewestHeld
<1> QED
    BY <1>7, <1>8, <1>9, <1>10, <1>11, <1>12, <1>13, <1>14, <1>15, <1>16 DEF IInv

-----------------------------------------------------------------------------
(***************************************************************************)
(* Login and Callback.                                                     *)
(***************************************************************************)

\* Callback stores the session nobody else knows yet.
LEMMA StoreStep ==
    ASSUME IInv, NEW p \in Procs, StoreSession(p)
    PROVE  IInv'
<1> DEFINE s    == call[p].sid
           sess == call[p].sess
<1>1. /\ call[p].at = "store" /\ store' = [store EXCEPT ![s] = sess]
      /\ call' = [call EXCEPT ![p] = Idle]
      /\ UNCHANGED <<now, lock, states, live, issued, spent, origin, lost, overrun, dead, under>>
    BY DEF StoreSession, Done, identity, history
<1>2. /\ s \in Sids /\ sess \in Session /\ Holds(p, s) /\ OfLogin(sess, s)
      /\ \A q \in Procs \ {p} : ~Holds(q, s)
    BY <1>1, CallFields DEF IInv, TypeOK, Holds, SessionsKnowTheirLogin, StoredOnce
<1>3. /\ call'[p] = Idle /\ call'[p].at \notin Steps \cup {"store", "exchange"}
      /\ \A q \in Procs \ {p} : call'[q] = call[q]
      /\ call' \in [Procs -> {Idle} \cup Request \cup SignIn]
    BY <1>1, IdleCall DEF IInv, TypeOK
<1>4. store'[s] = sess /\ \A t \in Sids \ {s} : store'[t] = store[t]
    BY <1>1, <1>2 DEF IInv, TypeOK
<1>5. ASSUME NEW q \in Procs, NEW t, Holds(q, t)'
      PROVE  Holds(q, t) /\ q # p /\ t # s /\ call'[q] = call[q]
    BY <1>2, <1>3, <1>5 DEF Holds
<1>6. ASSUME NEW q \in Procs, call'[q].at \in {"store", "save"}
      PROVE  q # p /\ call'[q] = call[q] /\ call[q].sid \in Sids /\ call[q].sid # s
    <2>1. q # p /\ call'[q] = call[q]
        BY <1>3, <1>6 DEF Steps
    <2>2. call[q].sid \in Sids
        BY <1>6, <2>1, CallFields DEF IInv, TypeOK, Steps
    <2>3. Holds(q, call[q].sid)
        BY <1>6, <2>1 DEF Holds, Steps
    <2> QED
        BY <1>2, <2>1, <2>2, <2>3
<1>7. TypeOK'
    BY <1>1, <1>2, <1>3 DEF IInv, TypeOK
<1>8. SessionsKnowTheirLogin'
    BY <1>1, <1>2, <1>4, <1>5 DEF IInv, SessionsKnowTheirLogin, OfLogin
<1>9. LoadedInTime'
    BY <1>3 DEF IInv, LoadedInTime
<1>10. StoredOnce'
    <2> SUFFICES ASSUME NEW q \in Procs, call'[q].at = "store"
                 PROVE  /\ store'[call'[q].sid] = None
                        /\ (live[call'[q].sid] = 0 \/ call'[q].sess.token = live[call'[q].sid])
                        /\ \A r \in Procs \ {q} : ~Holds(r, call[q].sid)'
        BY <1>1 DEF StoredOnce
    <2> QED
        BY <1>4, <1>5, <1>6 DEF IInv, StoredOnce
<1>11. SavedOnce'
    <2> SUFFICES ASSUME NEW q \in Procs, call'[q].at = "save"
                 PROVE  /\ (live[call'[q].sid] = 0 \/ call'[q].sess.token = live[call'[q].sid])
                        /\ (store'[call'[q].sid] # None =>
                               store'[call'[q].sid].token # call'[q].sess.token)
                        /\ \A r \in Procs \ {q} :
                              Holds(r, call[q].sid)' => call'[r].sess.token # call'[q].sess.token
        BY <1>1 DEF SavedOnce
    <2> QED
        BY <1>4, <1>5, <1>6 DEF IInv, SavedOnce
<1>12. LockHolders'
    BY <1>1, <1>3 DEF IInv, LockHolders, Refreshing, Steps
<1>13. StatesAreSpent' /\ StateSingleUse'
    BY <1>1, <1>3 DEF IInv, StatesAreSpent, StateSingleUse
<1>14. DeadStaysDead'
    <2>1. s \notin dead
        BY <1>1 DEF IInv, DeadStaysDead
    <2> QED
        BY <1>1, <1>3, <1>4, <2>1 DEF IInv, TypeOK, DeadStaysDead, UnderWay, Steps
<1>15. StoredTokenIsCurrent'
    <2> SUFFICES ASSUME NEW t \in Sids, store'[t] # None, live[t] # 0, t \notin lost,
                        store'[t].token # live[t]
                 PROVE  \E q \in Procs : /\ call'[q].at = "save" /\ call'[q].sid = t
                                         /\ call'[q].sess.token = live[t]
        BY <1>1 DEF StoredTokenIsCurrent
    <2>1. t # s
        BY <1>1, <1>4 DEF IInv, StoredOnce
    <2>2. PICK q \in Procs : /\ call[q].at = "save" /\ call[q].sid = t
                             /\ call[q].sess.token = live[t]
        BY <1>4, <2>1 DEF IInv, StoredTokenIsCurrent
    <2> QED
        BY <1>1, <1>3, <2>2
<1>16. NewestHeld'
    BY <1>1, <1>6 DEF IInv, NewestHeld
<1> QED
    BY <1>7, <1>8, <1>9, <1>10, <1>11, <1>12, <1>13, <1>14, <1>15, <1>16 DEF IInv

LEMMA OriginFields ==
    ASSUME NEW st, NEW at
    PROVE  [state |-> st, at |-> at] # None
<1>1. "none" \in DOMAIN None /\ "none" \notin DOMAIN [state |-> st, at |-> at]
    BY DEF None
<1> QED
    BY <1>1

\* The session record a Callback makes.
LEMMA StoreFields ==
    ASSUME NEW st \in States, NEW s \in Sids, NEW sess \in Session
    PROVE  LET d == [at |-> "store", state |-> st, sid |-> s, sess |-> sess]
           IN  d \in SignIn /\ d.at = "store" /\ d.sid = s /\ d.sess = sess
BY DEF SignIn

\* Exchange: the first tokens of a login, under an id that was never used.
LEMMA ExchangeStep ==
    ASSUME IInv, NEW p \in Procs, Exchange(p)
    PROVE  IInv'
<1> DEFINE st   == call[p].state
           sess == [token |-> 1, expiry |-> now + AccessTTL, created |-> now]
<1>1. PICK s \in Sids :
          /\ issued[s] = 0
          /\ issued' = [issued EXCEPT ![s] = 1]
          /\ live' = [live EXCEPT ![s] = 1]
          /\ origin' = [origin EXCEPT ![s] = [state |-> st, at |-> now]]
          /\ call' = [call EXCEPT ![p] = [at |-> "store", state |-> st, sid |-> s, sess |-> sess]]
    BY DEF Exchange
<1>2. /\ call[p].at = "exchange"
      /\ UNCHANGED <<now, store, lock, states, spent, lost, overrun, dead, under>>
    BY DEF Exchange, redis
<1> DEFINE d == [at |-> "store", state |-> st, sid |-> s, sess |-> sess]
<1>3. st \in States /\ now \in Nat /\ sess \in Session
    BY <1>2, CallFields, Constants DEF IInv, TypeOK, Session
<1>4. sess.token = 1 /\ sess.created = now
    OBVIOUS
<1> HIDE DEF sess
<1>5. d \in SignIn /\ d.at = "store" /\ d.sid = s /\ d.sess = sess
    BY <1>3, StoreFields
<1> HIDE DEF d
<1>6. /\ call'[p] = d
      /\ \A q \in Procs \ {p} : call'[q] = call[q]
      /\ call' \in [Procs -> {Idle} \cup Request \cup SignIn]
    BY <1>1, <1>5 DEF d, IInv, TypeOK
<1>7. /\ issued'[s] = 1 /\ live'[s] = 1
      /\ origin'[s].state = st /\ origin'[s].at = now /\ origin'[s] # None
      /\ \A t \in Sids \ {s} : issued'[t] = issued[t] /\ live'[t] = live[t] /\ origin'[t] = origin[t]
    BY <1>1, OriginFields DEF IInv, TypeOK
<1>8. origin[s] = None /\ store[s] = None /\ s \notin dead /\ \A q \in Procs : ~Holds(q, s)
    BY <1>1 DEF IInv, SessionsKnowTheirLogin, OfLogin
<1>9. ASSUME NEW q \in Procs, NEW t \in Sids, Holds(q, t)'
      PROVE  (q = p /\ t = s) \/ (q # p /\ t # s /\ Holds(q, t) /\ call'[q] = call[q])
    BY <1>5, <1>6, <1>8, <1>9 DEF Holds
<1>10. ASSUME NEW q \in Procs, q # p, call'[q].at \in {"store", "save"}
       PROVE  call'[q] = call[q] /\ call[q].sid \in Sids /\ call[q].sid # s
    <2>1. call'[q] = call[q] /\ call[q].sid \in Sids
        BY <1>6, <1>10, CallFields DEF IInv, TypeOK, Steps
    <2>2. Holds(q, call[q].sid)
        BY <1>10, <2>1 DEF Holds, Steps
    <2> QED
        BY <1>8, <2>1, <2>2
<1>11. TypeOK'
    <2>1. [state |-> st, at |-> now] \in [state : States, at : Nat]
        BY <1>3
    <2> QED
        BY <1>1, <1>2, <1>6, <2>1 DEF IInv, TypeOK
<1>12. SessionsKnowTheirLogin'
    <2> SUFFICES ASSUME NEW t \in Sids
                 PROVE  /\ (origin'[t] = None <=> issued'[t] = 0) /\ live'[t] <= issued'[t]
                        /\ (store[t] # None => OfLogin(store[t], t)')
                        /\ \A q \in Procs : Holds(q, t)' => OfLogin(call[q].sess, t)'
                        /\ (t \in dead => origin'[t] # None)
        BY <1>2 DEF SessionsKnowTheirLogin
    <2>1. CASE t = s
        BY <1>2, <1>4, <1>5, <1>6, <1>7, <1>8, <1>9, <2>1 DEF OfLogin
    <2>2. CASE t # s
        BY <1>2, <1>7, <1>9, <2>2 DEF IInv, SessionsKnowTheirLogin, OfLogin
    <2> QED
        BY <2>1, <2>2
<1>13. LoadedInTime'
    BY <1>5, <1>6 DEF IInv, LoadedInTime, Steps
<1>14. StoredOnce'
    <2> SUFFICES ASSUME NEW q \in Procs, call'[q].at = "store"
                 PROVE  /\ store[call'[q].sid] = None
                        /\ (live'[call'[q].sid] = 0 \/ call'[q].sess.token = live'[call'[q].sid])
                        /\ \A r \in Procs \ {q} : ~Holds(r, call[q].sid)'
        BY <1>2 DEF StoredOnce
    <2>1. CASE q = p
        BY <1>4, <1>5, <1>6, <1>7, <1>8, <1>9, <2>1
    <2>2. CASE q # p
        BY <1>7, <1>9, <1>10, <2>2 DEF IInv, StoredOnce
    <2> QED
        BY <2>1, <2>2
<1>15. SavedOnce'
    <2> SUFFICES ASSUME NEW q \in Procs, call'[q].at = "save"
                 PROVE  /\ (live'[call'[q].sid] = 0 \/ call'[q].sess.token = live'[call'[q].sid])
                        /\ (store[call'[q].sid] # None =>
                               store[call'[q].sid].token # call'[q].sess.token)
                        /\ \A r \in Procs \ {q} :
                              Holds(r, call[q].sid)' => call'[r].sess.token # call'[q].sess.token
        BY <1>2 DEF SavedOnce
    <2>1. q # p
        BY <1>5, <1>6
    <2> QED
        BY <1>7, <1>9, <1>10, <2>1 DEF IInv, SavedOnce
<1>16. LockHolders'
    BY <1>2, <1>5, <1>6 DEF IInv, LockHolders, Refreshing
<1>17. StatesAreSpent'
    <2>1. /\ st \in spent \ states
          /\ \A t \in Sids : origin[t] # None => origin[t].state # st
          /\ \A q \in Procs \ {p} : call[q].at = "exchange" => call[q].state # st
        BY <1>2 DEF IInv, StatesAreSpent
    <2>2. \A t \in Sids : origin'[t] # None => origin'[t].state \in spent \ states
        BY <1>7, <2>1 DEF IInv, StatesAreSpent
    <2>3. ASSUME NEW q \in Procs, call'[q].at = "exchange"
          PROVE  /\ call'[q].state \in spent \ states
                 /\ \A t \in Sids : origin'[t] # None => origin'[t].state # call'[q].state
                 /\ \A r \in Procs \ {q} : call'[r].at = "exchange" => call'[r].state # call'[q].state
        <3>1. q # p /\ call'[q] = call[q]
            BY <1>5, <1>6, <2>3
        <3> QED
            BY <1>5, <1>6, <1>7, <2>1, <2>3, <3>1 DEF IInv, StatesAreSpent
    <2> QED
        BY <1>2, <2>2, <2>3 DEF IInv, StatesAreSpent
<1>18. StateSingleUse'
    <2>1. \A t \in Sids : origin[t] # None => origin[t].state # st
        BY <1>2 DEF IInv, StatesAreSpent
    <2> QED
        BY <1>7, <2>1 DEF IInv, StateSingleUse
<1>19. DeadStaysDead'
    BY <1>2, <1>5, <1>6, <1>8 DEF IInv, DeadStaysDead, UnderWay
<1>20. StoredTokenIsCurrent'
    <2> SUFFICES ASSUME NEW t \in Sids, store[t] # None, live'[t] # 0, t \notin lost,
                        store[t].token # live'[t]
                 PROVE  \E q \in Procs : /\ call'[q].at = "save" /\ call'[q].sid = t
                                         /\ call'[q].sess.token = live'[t]
        BY <1>2 DEF StoredTokenIsCurrent
    <2>1. t # s
        BY <1>8
    <2>2. PICK q \in Procs : /\ call[q].at = "save" /\ call[q].sid = t
                             /\ call[q].sess.token = live[t]
        BY <1>7, <2>1 DEF IInv, StoredTokenIsCurrent
    <2> QED
        BY <1>2, <1>6, <1>7, <2>1, <2>2
<1>21. NewestHeld'
    <2>1. \A q \in Procs \ {p} : call'[q].at \in {"save", "store"} =>
              call'[q].sess.token = issued'[call'[q].sid]
        BY <1>7, <1>10 DEF IInv, NewestHeld
    <2> QED
        BY <1>4, <1>5, <1>6, <1>7, <2>1 DEF NewestHeld
<1> QED
    BY <1>11, <1>12, <1>13, <1>14, <1>15, <1>16, <1>17, <1>18, <1>19, <1>20, <1>21 DEF IInv

\* LoadAndDeleteState: the callback that takes a state out of Redis has it alone.
LEMMA CallbackStep ==
    ASSUME IInv, NEW p \in Procs, NEW st \in States, LoadAndDeleteState(p, st)
    PROVE  IInv'
<1> DEFINE d == [at |-> "exchange", state |-> st]
<1>1. /\ call[p] = Idle /\ st \in states /\ states' = states \ {st}
      /\ call' = [call EXCEPT ![p] = d]
      /\ UNCHANGED <<now, store, lock, live, issued, spent, origin, lost, overrun, dead, under>>
    BY DEF LoadAndDeleteState, identity, history
<1>2. d \in SignIn /\ d.at = "exchange" /\ d.state = st
    BY DEF SignIn
<1> HIDE DEF d
<1>3. /\ call'[p] = d /\ call[p].at = "idle"
      /\ \A q \in Procs \ {p} : call'[q] = call[q]
      /\ call' \in [Procs -> {Idle} \cup Request \cup SignIn]
    BY <1>1, <1>2, IdleCall DEF IInv, TypeOK
<1>4. ASSUME NEW q \in Procs, call'[q].at \in Steps \cup {"store"}
      PROVE  q # p /\ call'[q] = call[q]
    BY <1>2, <1>3, <1>4 DEF Steps
<1>5. ASSUME NEW q \in Procs, NEW t, Holds(q, t)'
      PROVE  Holds(q, t) /\ call'[q] = call[q]
    BY <1>4, <1>5 DEF Holds
<1>6. TypeOK'
    BY <1>1, <1>3 DEF IInv, TypeOK
<1>7. SessionsKnowTheirLogin' /\ LoadedInTime'
    BY <1>1, <1>4, <1>5 DEF IInv, SessionsKnowTheirLogin, LoadedInTime, OfLogin
<1>8. StoredOnce'
    BY <1>1, <1>4, <1>5 DEF IInv, StoredOnce
<1>9. SavedOnce'
    BY <1>1, <1>4, <1>5 DEF IInv, SavedOnce, Steps
<1>10. LockHolders'
    BY <1>1, <1>2, <1>3 DEF IInv, LockHolders, Refreshing
<1>11. StatesAreSpent'
    <2>1. \A q \in Procs : call[q].at = "exchange" => call[q].state # st
        BY <1>1 DEF IInv, StatesAreSpent
    <2>2. st \in spent /\ \A s \in Sids : origin[s] # None => origin[s].state # st
        BY <1>1 DEF IInv, StatesAreSpent
    <2>3. ASSUME NEW q \in Procs, call'[q].at = "exchange"
          PROVE  /\ call'[q].state \in spent \ states'
                 /\ \A s \in Sids : origin[s] # None => origin[s].state # call'[q].state
                 /\ \A r \in Procs \ {q} : call'[r].at = "exchange" => call'[r].state # call'[q].state
        <3>1. CASE q = p
            BY <1>1, <1>2, <1>3, <2>1, <2>2, <3>1
        <3>2. CASE q # p
            BY <1>1, <1>2, <1>3, <2>1, <2>3, <3>2 DEF IInv, StatesAreSpent
        <3> QED
            BY <3>1, <3>2
    <2> QED
        BY <1>1, <2>3 DEF IInv, StatesAreSpent
<1>12. StateSingleUse'
    BY <1>1 DEF IInv, StateSingleUse
<1>13. DeadStaysDead'
    BY <1>1, <1>4 DEF IInv, DeadStaysDead, UnderWay, Steps
<1>14. StoredTokenIsCurrent'
    BY <1>1, <1>3 DEF IInv, StoredTokenIsCurrent
<1>15. NewestHeld'
    BY <1>1, <1>4 DEF IInv, NewestHeld, Steps
<1> QED
    BY <1>6, <1>7, <1>8, <1>9, <1>10, <1>11, <1>12, <1>13, <1>14, <1>15 DEF IInv

LEMMA LoginStep ==
    ASSUME IInv, NEW st \in States, Login(st)
    PROVE  IInv'
<1>1. /\ st \notin spent /\ spent' = spent \cup {st} /\ states' = states \cup {st}
      /\ UNCHANGED <<now, store, lock, call, live, issued, origin, lost, overrun, dead, under>>
    BY DEF Login, identity
<1>2. TypeOK'
    BY <1>1 DEF IInv, TypeOK
<1>3. StatesAreSpent'
    BY <1>1 DEF IInv, StatesAreSpent
<1> QED
    BY <1>1, <1>2, <1>3
       DEF IInv, SessionsKnowTheirLogin, Holds, OfLogin, LoadedInTime, StoredOnce, SavedOnce,
           LockHolders, Refreshing, StateSingleUse, DeadStaysDead, UnderWay,
           StoredTokenIsCurrent, NewestHeld

LEMMA NextIInv == IInv /\ [Next]_vars => IInv'
<1> SUFFICES ASSUME IInv, [Next]_vars PROVE IInv'
    OBVIOUS
<1>1. ASSUME NEW st \in States, Login(st) PROVE IInv'
    BY <1>1, LoginStep
<1>2. ASSUME NEW p \in Procs, NEW st \in States, LoadAndDeleteState(p, st) PROVE IInv'
    BY <1>2, CallbackStep
<1>3. ASSUME NEW p \in Procs, NEW s \in Sids, Load(p, s) PROVE IInv'
    BY <1>3, LoadStep
<1>4. ASSUME NEW s \in Sids, Me(s) PROVE IInv'
    BY <1>4, EnvironmentActions
<1>5. ASSUME NEW p \in Procs, Handle(p) PROVE IInv'
    BY <1>5, ExchangeStep, StoreStep, AcquireStep, ReloadStep, RefreshActions, SaveStep,
       ReleaseStep, DeleteStep, QuietActions
       DEF Handle
<1>6. CASE Environment
    BY <1>6, EnvironmentActions
<1>7. CASE UNCHANGED vars
    BY <1>7
       DEF vars, redis, identity, history, IInv, TypeOK, SessionsKnowTheirLogin, Holds, OfLogin,
           LoadedInTime, StoredOnce, SavedOnce, LockHolders, Refreshing, StatesAreSpent,
           StateSingleUse, DeadStaysDead, UnderWay, StoredTokenIsCurrent, NewestHeld
<1> QED
    BY <1>1, <1>2, <1>3, <1>4, <1>5, <1>6, <1>7 DEF Next

-----------------------------------------------------------------------------
(***************************************************************************)
(* The theorems.                                                           *)
(***************************************************************************)

\* Redis, the requests under way and identity-service agree on logins and tokens.
THEOREM Invariance == Spec => []IInv
<1> QED
    BY InitIInv, NextIInv, PTL DEF Spec

\* The stored token is the one that counts, unless it is revoked, lost or being saved.
THEOREM TokensStayCurrent == Spec => []StoredTokenIsCurrent
<1>1. IInv => StoredTokenIsCurrent
    BY DEF IInv
<1> QED
    BY <1>1, Invariance, PTL

\* No refresh, and no wait for one, extends the hard maximum age of a login.
THEOREM AgeIsLimited == Spec => []HardMaximum
<1>1. IInv => HardMaximum
    <2> SUFFICES ASSUME IInv, NEW p \in Procs, call[p].at = "serve"
                 PROVE  call[p].loaded <= origin[call[p].sid].at + HardTTL
        BY DEF HardMaximum
    <2>1. call[p].at \in Steps
        BY DEF Steps
    <2>2. call[p].sess.created = origin[call[p].sid].at
        BY <2>1, InRequest DEF OfLogin
    <2> QED
        BY <2>1, <2>2 DEF IInv, LoadedInTime
<1> QED
    BY <1>1, Invariance, PTL

\* One login per OIDC state, however often the callback is called.
THEOREM StatesWorkOnce == Spec => []StateSingleUse
<1>1. IInv => StateSingleUse
    BY DEF IInv
<1> QED
    BY <1>1, Invariance, PTL

\* One refresh of a session at a time, while none outlasts the lock.
THEOREM RefreshesAreSerial == Spec => []SerializedRefresh
<1>1. IInv => SerializedRefresh
    <2> SUFFICES ASSUME IInv, NEW s \in Sids \ overrun, NEW p \in Procs, NEW q \in Procs,
                        Refreshing(p, s), Refreshing(q, s)
                 PROVE  p = q
        BY DEF SerializedRefresh
    <2>1. lock[s] = p /\ lock[s] = q
        BY DEF IInv, LockHolders
    <2> QED
        BY <2>1
<1> QED
    BY <1>1, Invariance, PTL

\* A session that was logged out is gone, until a request that was about to refresh
\* it by then saves it; no other request brings it back.
THEOREM LogoutsAreFinal == Spec => []LogoutIsFinal
<1>1. IInv => LogoutIsFinal
    BY DEF IInv, DeadStaysDead, LogoutIsFinal
<1> QED
    BY <1>1, Invariance, PTL

\* Every other step leaves a session in Redis as it is, or removes it.
LEMMA OthersKeepOrDrop ==
    ASSUME IInv, [Next]_vars, ~\E p \in Procs : Save(p) \/ StoreSession(p), NEW s \in Sids
    PROVE  store'[s] = store[s] \/ store'[s] = None
<1> USE DEF redis, identity, history
<1>0. TypeOK /\ \A p \in Procs : call[p].at \in Steps => call[p].sid \in Sids
    BY InRequest DEF IInv
<1>1. ASSUME NEW st \in States, Login(st) PROVE UNCHANGED store
    BY <1>1 DEF Login
<1>2. ASSUME NEW p \in Procs, NEW st \in States, LoadAndDeleteState(p, st)
      PROVE  UNCHANGED store
    BY <1>2 DEF LoadAndDeleteState
<1>3. ASSUME NEW p \in Procs, NEW t \in Sids, Load(p, t)
      PROVE  store'[s] = store[s] \/ store'[s] = None
    BY <1>0, <1>3, DropFields DEF Load
<1>4. ASSUME NEW t \in Sids, Me(t) PROVE store'[s] = store[s] \/ store'[s] = None
    BY <1>0, <1>4, DropFields DEF Me
<1>5. ASSUME NEW p \in Procs, Handle(p)
      PROVE  store'[s] = store[s] \/ store'[s] = None
    <2>1. CASE Reload(p) \/ Reject(p) \/ Delete(p)
        <3>1. call[p].sid \in Sids
            BY <1>0, <2>1 DEF Reload, Reject, Delete, Steps
        <3>2. UNCHANGED store \/ Drop(call[p].sid)
            BY <2>1 DEF Reload, Reject, Delete
        <3> QED
            BY <1>0, <3>1, <3>2, DropFields
    <2>2. CASE ~(Reload(p) \/ Reject(p) \/ Delete(p))
        BY <1>5, <2>2
           DEF Handle, Exchange, AcquireRefreshLock, RefreshAccepted, RefreshAnswerLost,
               RefreshRefused, RefreshCallFails, SaveFails, ReleaseRefreshLock, Serve,
               Logout, RevokeCurrent
    <2> QED
        BY <2>1, <2>2
<1>6. ASSUME Environment PROVE store'[s] = store[s] \/ store'[s] = None
    <2>1. ASSUME NEW t \in Sids, SessionExpires(t)
          PROVE  store'[s] = store[s] \/ store'[s] = None
        BY <1>0, <2>1 DEF SessionExpires, TypeOK
    <2> QED
        BY <1>6, <2>1
           DEF Environment, RevokedElsewhere, LockExpires, StateExpires, Crash, Tick
<1>7. CASE UNCHANGED vars
    BY <1>7 DEF vars
<1> QED
    BY <1>1, <1>2, <1>3, <1>4, <1>5, <1>6, <1>7 DEF Next

\* What is written to Redis holds the newest token of its login: sessions are saved
\* in the order of their tokens, whatever the lock does.
THEOREM SavesAreNewest == Spec => NewestIsSaved
<1> DEFINE Newest == \A s \in Sids : store'[s] # None /\ store'[s] # store[s]
                                        => store'[s].token = issued[s]
<1>1. ASSUME IInv, [Next]_vars
      PROVE  [Newest]_vars
    <2>1. ASSUME NEW p \in Procs, Save(p) \/ StoreSession(p)
          PROVE  Newest
        <3>1. /\ call[p].at \in {"save", "store"}
              /\ store' = [store EXCEPT ![call[p].sid] = call[p].sess]
            BY <2>1 DEF Save, StoreSession
        <3>2. call[p].sess.token = issued[call[p].sid]
            BY <1>1, <3>1 DEF IInv, NewestHeld
        <3> QED
            BY <1>1, <3>1, <3>2 DEF IInv, TypeOK
    <2>2. CASE ~\E p \in Procs : Save(p) \/ StoreSession(p)
        BY <1>1, <2>2, OthersKeepOrDrop
    <2> QED
        BY <2>1, <2>2
<1> QED
    BY <1>1, Invariance, PTL DEF Spec, NewestIsSaved
=============================================================================
