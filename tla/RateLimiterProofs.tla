-------------------------- MODULE RateLimiterProofs --------------------------
(***************************************************************************)
(* Proofs about RateLimiter: the map of buckets with its eviction limits   *)
(* every client as buckets that last for ever would (RateLimits), and who  *)
(* is refused has passed less than a token's time ago; for any number of   *)
(* clients, requests, limiters and rates.                                  *)
(***************************************************************************)
EXTENDS RateLimiter, TLAPS

LEMMA Constants ==
    /\ Minute \in Nat /\ Minute > 0 /\ TTL \in Nat /\ MaxStall \in Nat /\ MaxTime \in Nat
    /\ RPM \in [Limiters -> Nat \ {0}] /\ PathBurst \in [Paths -> Nat]
    /\ \A l \in Limiters : Burst[l] * Minute <= RPM[l] * (TTL - MaxStall)
BY RateLimiterAssumption

LEMMA Bursts ==
    ASSUME NEW l \in Limiters
    PROVE  Burst[l] \in Nat /\ RPM[l] \in Nat /\ RPM[l] > 0 /\ Burst[l] * Minute \in Nat
<1>1. RPM[l] \in Nat /\ RPM[l] > 0
    BY Constants
<1>2. \A n \in Nat : n \div 4 \in Nat
    OBVIOUS
<1>3. Burst[l] \in Nat
    BY <1>1, <1>2, Constants DEF Burst, Limiters
<1>4. \A m, n \in Nat : m * n \in Nat
    OBVIOUS
<1> QED
    BY <1>1, <1>3, <1>4, Constants

\* An entry outlives the stall of the request that looked it up.
LEMMA StallIsShort == MaxStall <= TTL
<1>1. "global" \in Limiters
    BY DEF Limiters
<1>2. Burst["global"] * Minute \in Nat /\ RPM["global"] \in Nat /\ RPM["global"] > 0
    BY <1>1, Bursts
<1>3. Burst["global"] * Minute <= RPM["global"] * (TTL - MaxStall)
    BY <1>1, Constants
<1>4. \A r \in Nat : \A d \in Int : r > 0 /\ d < 0 => r * d < 0
    OBVIOUS
<1> QED
    BY <1>2, <1>3, <1>4, Constants

\* The routes of requests.
LEMMA RouteFacts ==
    ASSUME NEW r \in Routes
    PROVE  /\ r \in Seq(Limiters) /\ r # <<>> /\ Len(r) > 0 /\ Head(r) \in Limiters
           /\ (Len(r) # 1 => Tail(r) \in Routes)
           /\ (Len(r) = 1 => Tail(r) = <<>>)
<1>1. CASE r = <<"global">>
    BY <1>1 DEF Limiters
<1>2. CASE \E l \in Paths : r = <<"global", l>>
    BY <1>2 DEF Limiters, Routes
<1>3. CASE \E l \in Paths : r = <<l>>
    BY <1>3 DEF Limiters
<1> QED
    BY <1>1, <1>2, <1>3 DEF Routes, Chains

LEMMA CallFields ==
    ASSUME NEW q \in Call
    PROVE  /\ (q.at = "idle" => q = Idle(q.answer))
           /\ (q.at = "lookup" => q = [at |-> "lookup", client |-> q.client, chain |-> q.chain])
           /\ (q.at = "allow" => q.since \in Nat)
           /\ (q.at # "idle" => q.client \in Clients /\ q.chain \in Routes)
           /\ q.at \in {"idle", "lookup", "allow"}
<1>1. CASE \E a \in {"none", "passed", "refused"} : q = Idle(a)
    BY <1>1 DEF Idle
<1>2. CASE q \in [at : {"lookup"}, client : Clients, chain : Routes]
    BY <1>2
<1>3. CASE q \in [at : {"allow"}, client : Clients, chain : Routes, since : Nat]
    BY <1>3
<1> QED
    BY <1>1, <1>2, <1>3 DEF Call

LEMMA InitIInv == Init => IInv
<1> SUFFICES ASSUME Init PROVE IInv
    OBVIOUS
<1>1. Idle("none") \in Call /\ Idle("none").at = "idle"
    BY DEF Call, Idle
<1>2. TypeOK
    BY <1>1 DEF Init, TypeOK
<1>3. \A p \in Procs : call[p].at # "allow"
    BY <1>1 DEF Init
<1> QED
    BY <1>2, <1>3 DEF Init, IInv, BucketsAreSound, HeldBucketsStay, PassesAreKnown

-----------------------------------------------------------------------------
(***************************************************************************)
(* Buckets.                                                                *)
(***************************************************************************)

Full(l) == Burst[l] * Minute

LEMMA EntryFields ==
    ASSUME IInv, NEW e \in entries
    PROVE  /\ e \in Entry /\ e.limiter \in Limiters /\ e.client \in Clients
           /\ e.seen \in Nat /\ e.level \in Nat /\ e.last \in Nat /\ now \in Nat
           /\ e.level <= Full(e.limiter) /\ Full(e.limiter) \in Nat
           /\ e.seen <= now /\ e.last <= now /\ e.last <= e.seen + MaxStall
<1>1. e \in Entry /\ now \in Nat
    BY DEF IInv, TypeOK
<1>2. /\ e.limiter \in Limiters /\ e.client \in Clients
      /\ e.seen \in Nat /\ e.level \in Nat /\ e.last \in Nat
    BY <1>1 DEF Entry
<1> QED
    BY <1>1, <1>2, Bursts DEF IInv, BucketsAreSound, Full

\* What a bucket gains in some ticks.
LEMMA Gains ==
    /\ \A t \in Nat : \A r \in Nat : t * r \in Nat
    /\ \A t \in Nat : \A r \in Nat : (t + 1) * r = t * r + r
    /\ \A t, u \in Nat : \A r \in Nat : t <= u => t * r <= u * r
<1>1. \A t \in Nat : \A r \in Nat : t * r \in Nat
    OBVIOUS
<1>2. \A t \in Nat : \A r \in Nat : (t + 1) * r = t * r + r
    OBVIOUS
<1>3. ASSUME NEW t \in Nat, NEW u \in Nat, NEW r \in Nat, t <= u
      PROVE  t * r <= u * r
    <2>1. u - t \in Nat
        BY <1>3
    <2>2. (u - t) * r \in Nat
        BY <1>1, <2>1
    <2>3. (u - t) * r = u * r - t * r
        OBVIOUS
    <2>4. t * r \in Nat /\ u * r \in Nat
        BY <1>1
    <2> QED
        BY <2>2, <2>3, <2>4
<1> QED
    BY <1>1, <1>2, <1>3

LEMMA LevelFacts ==
    ASSUME IInv, NEW e \in entries
    PROVE  /\ Level(e) \in Nat /\ Level(e) <= Full(e.limiter)
           /\ now - e.last \in Nat /\ (now - e.last) * RPM[e.limiter] \in Nat
           /\ (Level(e) = Full(e.limiter) \/ Level(e) = e.level + (now - e.last) * RPM[e.limiter])
           /\ (e.level = Full(e.limiter) => Level(e) = Full(e.limiter))
<1>1. now - e.last \in Nat /\ RPM[e.limiter] \in Nat
    BY EntryFields, Bursts
<1>2. (now - e.last) * RPM[e.limiter] \in Nat
    BY <1>1, Gains
<1> QED
    BY <1>1, <1>2, EntryFields DEF Level, Full

\* One entry is made or takes the place of another one of its client.
LEMMA EntryReplaced ==
    ASSUME IInv, NEW f \in Entry, entries' = (entries \ Of(f.limiter, f.client)) \cup {f},
           f.level <= Full(f.limiter), f.seen <= now, f.last <= now, f.last <= f.seen + MaxStall,
           \A e \in Of(f.limiter, f.client) : e.seen <= f.seen,
           \/ f.level = Full(f.limiter)
           \/ passed'[<<f.limiter, f.client>>] # Never /\ f.last = passed'[<<f.limiter, f.client>>],
           \A e \in entries \ Of(f.limiter, f.client) :
               passed'[<<e.limiter, e.client>>] = passed[<<e.limiter, e.client>>],
           now' = now
    PROVE  /\ entries' \subseteq Entry /\ BucketsAreSound' /\ PassesAreKnown'
           /\ \A l, c : \A n \in Nat :
                 (\E e \in Of(l, c) : n <= e.seen) => (\E e \in Of(l, c)' : n <= e.seen)
<1>1. entries' \subseteq Entry
    BY DEF IInv, TypeOK
<1>2. \A e \in entries' :
          e = f \/ (e \in entries /\ ~(e.limiter = f.limiter /\ e.client = f.client))
    BY DEF Of
<1>3. BucketsAreSound'
    <2>1. \A e, g \in entries' : e.limiter = g.limiter /\ e.client = g.client => e = g
        BY <1>2 DEF IInv, BucketsAreSound
    <2>2. \A e \in entries' : /\ e.level <= Burst[e.limiter] * Minute
                              /\ e.seen <= now /\ e.last <= now
                              /\ e.last <= e.seen + MaxStall
        BY <1>2 DEF IInv, BucketsAreSound, Full
    <2> QED
        BY <2>1, <2>2 DEF BucketsAreSound
<1>4. PassesAreKnown'
    <2>1. \A e \in entries' : \/ e.level = Burst[e.limiter] * Minute
                              \/ /\ passed'[<<e.limiter, e.client>>] # Never
                                 /\ e.last = passed'[<<e.limiter, e.client>>]
        BY <1>2 DEF IInv, PassesAreKnown, Full, Of
    <2> QED
        BY <2>1 DEF PassesAreKnown
<1>5. ASSUME NEW l, NEW c, NEW n \in Nat, NEW e \in Of(l, c), n <= e.seen
      PROVE  \E g \in Of(l, c)' : n <= g.seen
    <2>1. e \in entries /\ e.seen \in Nat /\ f.seen \in Nat
        BY EntryFields DEF Of, Entry
    <2>2. CASE e \in Of(f.limiter, f.client)
        <3>1. f.limiter = l /\ f.client = c /\ e.seen <= f.seen
            BY <2>2 DEF Of
        <3>2. f \in Of(l, c)'
            BY <3>1 DEF Of
        <3>3. n <= f.seen
            <4>1. \A i, j, k \in Nat : i <= j /\ j <= k => i <= k
                OBVIOUS
            <4> QED
                BY <1>5, <2>1, <3>1, <4>1
        <3> QED
            BY <3>2, <3>3
    <2>3. CASE e \notin Of(f.limiter, f.client)
        <3>1. e \in Of(l, c)'
            BY <2>1, <2>3 DEF Of
        <3> QED
            BY <1>5, <3>1
    <2> QED
        BY <2>2, <2>3
<1> QED
    BY <1>1, <1>3, <1>4, <1>5

-----------------------------------------------------------------------------
(***************************************************************************)
(* Requests.                                                               *)
(***************************************************************************)

\* The bucket request p is at.
LimiterOf(p) == Head(call[p].chain)
ClientOf(p)  == call[p].client
Mine(p)      == Of(LimiterOf(p), ClientOf(p))

LEMMA CallFacts ==
    ASSUME IInv, NEW p \in Procs
    PROVE  /\ call[p] \in Call
           /\ (call[p].at # "idle" =>
                 /\ ClientOf(p) \in Clients /\ LimiterOf(p) \in Limiters
                 /\ call[p].chain \in Routes /\ call[p].client \in Clients
                 /\ call[p].chain \in Seq(Limiters) /\ call[p].chain # <<>>)
           /\ (call[p].at = "allow" => call[p].since \in Nat)
           /\ call[p].at \in {"idle", "lookup", "allow"}
<1>1. call[p] \in Call
    BY DEF IInv, TypeOK
<1> QED
    BY <1>1, CallFields, RouteFacts DEF ClientOf, LimiterOf

LEMMA MineIsOne ==
    ASSUME IInv, NEW p \in Procs, NEW e \in Mine(p)
    PROVE  e \in entries /\ e.limiter = LimiterOf(p) /\ e.client = ClientOf(p) /\ Mine(p) = {e}
BY DEF Mine, Of, IInv, BucketsAreSound

\* A lookup finds the entry or makes one with a full bucket.
LEMMA LookupEntry ==
    ASSUME IInv, NEW p \in Procs, Lookup(p)
    PROVE  \E f \in Entry :
              /\ f.limiter = LimiterOf(p) /\ f.client = ClientOf(p) /\ f.seen = now
              /\ entries' = (entries \ Mine(p)) \cup {f}
              /\ (Mine(p) = {} => f.level = Full(LimiterOf(p)) /\ f.last = now)
              /\ \A e \in Mine(p) : f.level = e.level /\ f.last = e.last
<1> DEFINE l == LimiterOf(p)
           c == ClientOf(p)
<1>1. call[p].at = "lookup" /\ l \in Limiters /\ c \in Clients /\ now \in Nat
    BY CallFacts DEF Lookup, IInv, TypeOK
<1>2. CASE Mine(p) = {}
    <2>1. entries' = entries \cup {NewEntry(l, c)}
        BY <1>2 DEF Lookup, LimiterOf, ClientOf, Mine
    <2>2. Full(l) \in Nat
        BY <1>1, Bursts DEF Full
    <2>3. /\ NewEntry(l, c) \in Entry
          /\ NewEntry(l, c).limiter = l /\ NewEntry(l, c).client = c
          /\ NewEntry(l, c).seen = now /\ NewEntry(l, c).last = now
          /\ NewEntry(l, c).level = Full(l)
        BY <1>1, <2>2 DEF NewEntry, Entry, Full
    <2> HIDE DEF l, c
    <2>4. entries' = (entries \ Mine(p)) \cup {NewEntry(l, c)}
        BY <1>2, <2>1
    <2> QED
        BY <1>2, <2>3, <2>4 DEF l, c
<1>3. CASE Mine(p) # {}
    <2>1. PICK e \in Mine(p) : Mine(p) = {e} /\ e.limiter = l /\ e.client = c
        BY <1>3, MineIsOne
    <2> DEFINE F(x) == [x EXCEPT !.seen = now]
    <2>2. entries' = (entries \ Mine(p)) \cup {F(x) : x \in Mine(p)}
        BY <1>3 DEF Lookup, LimiterOf, ClientOf, Mine
    <2>3. e \in Entry
        BY MineIsOne, EntryFields
    <2>4. /\ F(e) \in Entry /\ F(e).limiter = l /\ F(e).client = c /\ F(e).seen = now
          /\ F(e).level = e.level /\ F(e).last = e.last
        BY <1>1, <2>1, <2>3 DEF Entry
    <2> HIDE DEF F, l, c
    <2>5. entries' = (entries \ Mine(p)) \cup {F(e)}
        BY <2>1, <2>2
    <2>6. \A x \in Mine(p) : F(e).level = x.level /\ F(e).last = x.last
        BY <2>1, <2>4
    <2> QED
        BY <1>3, <2>4, <2>5, <2>6 DEF l, c
<1> QED
    BY <1>2, <1>3

\* Allow() takes a token and notes the time, or leaves the bucket alone.
LEMMA AllowEntry ==
    ASSUME IInv, NEW p \in Procs, Allow(p)
    PROVE  \E e \in Mine(p) :
              \/ /\ HasToken(e)
                 /\ passed' = [passed EXCEPT ![<<LimiterOf(p), ClientOf(p)>>] = now]
                 /\ call' = [call EXCEPT ![p] =
                       IF Len(call[p].chain) = 1 THEN Idle("passed")
                       ELSE [at |-> "lookup", client |-> ClientOf(p), chain |-> Tail(call[p].chain)]]
                 /\ \E f \in Entry :
                       /\ f.limiter = LimiterOf(p) /\ f.client = ClientOf(p) /\ f.seen = e.seen
                       /\ f.level = Level(e) - Minute /\ f.last = now
                       /\ entries' = (entries \ Mine(p)) \cup {f}
              \/ /\ ~HasToken(e)
                 /\ call' = [call EXCEPT ![p] = Idle("refused")]
                 /\ UNCHANGED <<entries, passed>>
<1> DEFINE F(x) == [x EXCEPT !.level = Level(x) - Minute, !.last = now]
<1>1. PICK e \in Mine(p) :
          \/ /\ HasToken(e)
             /\ entries' = (entries \ {e}) \cup {F(e)}
             /\ passed' = [passed EXCEPT ![<<LimiterOf(p), ClientOf(p)>>] = now]
             /\ call' = [call EXCEPT ![p] =
                   IF Len(call[p].chain) = 1 THEN Idle("passed")
                   ELSE [at |-> "lookup", client |-> ClientOf(p), chain |-> Tail(call[p].chain)]]
          \/ /\ ~HasToken(e)
             /\ call' = [call EXCEPT ![p] = Idle("refused")]
             /\ entries' = entries /\ passed' = passed
    BY Zenon DEF Allow, Mine, LimiterOf, ClientOf
<1>2. CASE HasToken(e)
    <2>1. /\ e \in Entry /\ e.limiter = LimiterOf(p) /\ e.client = ClientOf(p)
          /\ Mine(p) = {e} /\ now \in Nat
        BY MineIsOne, EntryFields
    <2>2. Level(e) - Minute \in Nat
        BY <1>2, MineIsOne, LevelFacts, Constants DEF HasToken
    <2>3. /\ F(e) \in Entry /\ F(e).limiter = e.limiter /\ F(e).client = e.client
          /\ F(e).seen = e.seen /\ F(e).level = Level(e) - Minute /\ F(e).last = now
        BY <2>1, <2>2 DEF Entry
    <2> HIDE DEF F
    <2> QED
        BY <1>1, <1>2, <2>1, <2>3
<1> HIDE DEF F
<1> QED
    BY <1>1, <1>2

-----------------------------------------------------------------------------
(***************************************************************************)
(* Steps.                                                                  *)
(***************************************************************************)

LEMMA ArriveStep ==
    ASSUME IInv, NEW p \in Procs, NEW c \in Clients, NEW chain \in Chains, Arrive(p, c, chain)
    PROVE  IInv'
<1> DEFINE d == [at |-> "lookup", client |-> c, chain |-> chain]
<1>1. call' = [call EXCEPT ![p] = d] /\ UNCHANGED <<now, entries, passed>>
    BY DEF Arrive
<1>2. d \in Call /\ d.at = "lookup"
    <2>1. chain \in Routes
        BY DEF Routes
    <2> QED
        BY <2>1 DEF Call
<1> HIDE DEF d
<1>3. TypeOK'
    BY <1>1, <1>2 DEF IInv, TypeOK
<1>4. \A q \in Procs : call'[q].at = "allow" => call'[q] = call[q]
    BY <1>1, <1>2 DEF IInv, TypeOK
<1>5. HeldBucketsStay'
    BY <1>1, <1>4 DEF IInv, HeldBucketsStay, Of
<1> QED
    BY <1>1, <1>3, <1>5 DEF IInv, BucketsAreSound, PassesAreKnown

\* Requests that go on with a bucket still find it.
LEMMA HeldStay ==
    ASSUME IInv, now' = now,
           \A l, c : \A n \in Nat :
               (\E e \in Of(l, c) : n <= e.seen) => (\E e \in Of(l, c)' : n <= e.seen),
           \A q \in Procs : call'[q].at = "allow" =>
               \/ call'[q] = call[q]
               \/ /\ call'[q].since = now
                  /\ \E e \in entries' : /\ e.limiter = Head(call'[q].chain)
                                         /\ e.client = call'[q].client /\ now <= e.seen
    PROVE  HeldBucketsStay'
<1> SUFFICES ASSUME NEW q \in Procs, call'[q].at = "allow"
             PROVE  /\ call'[q].since <= now /\ now <= call'[q].since + MaxStall
                    /\ \E e \in entries' : /\ e.limiter = Head(call'[q].chain)
                                           /\ e.client = call'[q].client
                                           /\ call'[q].since <= e.seen
    BY DEF HeldBucketsStay, Of
<1>1. CASE call'[q] = call[q]
    <2>1. /\ call[q].since \in Nat
          /\ call[q].since <= now /\ now <= call[q].since + MaxStall
          /\ \E e \in Of(Head(call[q].chain), call[q].client) : call[q].since <= e.seen
        BY <1>1, CallFacts DEF IInv, HeldBucketsStay
    <2>2. \E e \in Of(Head(call[q].chain), call[q].client)' : call[q].since <= e.seen
        <3>1. \A l, c : (\E e \in Of(l, c) : call[q].since <= e.seen)
                            => (\E e \in entries' : /\ e.limiter = l /\ e.client = c
                                                    /\ call[q].since <= e.seen)
            BY <2>1 DEF Of
        <3> QED
            BY <1>1, <2>1, <3>1 DEF Of
    <2> QED
        BY <1>1, <2>1, <2>2 DEF Of
<1>2. CASE call'[q] # call[q]
    <2>1. now \in Nat /\ MaxStall \in Nat
        BY Constants DEF IInv, TypeOK
    <2> QED
        BY <1>2, <2>1
<1> QED
    BY <1>1, <1>2

LEMMA LookupStep ==
    ASSUME IInv, NEW p \in Procs, Lookup(p)
    PROVE  IInv'
<1> DEFINE l == LimiterOf(p)
           c == ClientOf(p)
           d == [at |-> "allow", client |-> c, chain |-> call[p].chain, since |-> now]
<1>1. /\ call[p].at = "lookup" /\ call' = [call EXCEPT ![p] = d]
      /\ now' = now /\ passed' = passed
    BY DEF Lookup, ClientOf
<1>2. l \in Limiters /\ c \in Clients /\ call[p].chain \in Routes /\ now \in Nat
    BY <1>1, CallFacts DEF IInv, TypeOK
<1>3. PICK f \in Entry :
          /\ f.limiter = l /\ f.client = c /\ f.seen = now
          /\ entries' = (entries \ Mine(p)) \cup {f}
          /\ (Mine(p) = {} => f.level = Full(l) /\ f.last = now)
          /\ \A e \in Mine(p) : f.level = e.level /\ f.last = e.last
    BY LookupEntry
<1>4. /\ f.level <= Full(f.limiter) /\ f.seen <= now /\ f.last <= now
      /\ f.last <= f.seen + MaxStall /\ \A e \in Mine(p) : e.seen <= f.seen
    <2>1. Full(l) \in Nat /\ f.level \in Nat
        BY <1>2, Bursts DEF Full, Entry
    <2>2. CASE Mine(p) = {}
        BY <1>2, <1>3, <2>1, <2>2, Constants
    <2>3. CASE Mine(p) # {}
        <3>1. PICK e \in Mine(p) : Mine(p) = {e} /\ e.limiter = l
            BY <2>3, MineIsOne
        <3>2. /\ e.level <= Full(l) /\ e.seen <= now /\ e.last <= now /\ e.last \in Nat
              /\ e.seen \in Nat
            BY <3>1, MineIsOne, EntryFields
        <3> QED
            BY <1>2, <1>3, <2>1, <3>1, <3>2, Constants
    <2> QED
        BY <2>2, <2>3
<1>5. f.level = Full(f.limiter)
          \/ (passed'[<<f.limiter, f.client>>] # Never /\ f.last = passed'[<<f.limiter, f.client>>])
    <2>1. \A e \in Mine(p) :
              \/ e.level = Full(l)
              \/ passed[<<l, c>>] # Never /\ e.last = passed[<<l, c>>]
        BY MineIsOne DEF IInv, PassesAreKnown, Full
    <2> QED
        BY <1>1, <1>3, <2>1
<1>6. Mine(p) = Of(f.limiter, f.client)
    BY <1>3 DEF Mine
<1> HIDE DEF l, c
<1>7. /\ entries' \subseteq Entry /\ BucketsAreSound' /\ PassesAreKnown'
      /\ \A k, b : \A n \in Nat :
            (\E e \in Of(k, b) : n <= e.seen) => (\E e \in Of(k, b)' : n <= e.seen)
    BY <1>1, <1>3, <1>4, <1>5, <1>6, EntryReplaced
<1>8. d \in Call /\ d.since = now /\ d.chain = call[p].chain /\ d.client = c
    BY <1>2 DEF Call
<1> HIDE DEF d
<1>9. TypeOK'
    BY <1>1, <1>7, <1>8 DEF IInv, TypeOK
<1>10. HeldBucketsStay'
    <2>1. call'[p] = d /\ \A q \in Procs \ {p} : call'[q] = call[q]
        BY <1>1 DEF IInv, TypeOK
    <2>2. f \in entries' /\ f.limiter = Head(d.chain) /\ f.client = d.client /\ now <= f.seen
        BY <1>2, <1>3, <1>8 DEF l, LimiterOf
    <2>3. \A q \in Procs : \/ call'[q] = call[q]
                           \/ /\ call'[q].since = now
                              /\ \E e \in entries' : /\ e.limiter = Head(call'[q].chain)
                                                     /\ e.client = call'[q].client /\ now <= e.seen
        BY <1>8, <2>1, <2>2
    <2> QED
        BY <1>1, <1>7, <2>3, HeldStay
<1> QED
    BY <1>7, <1>9, <1>10 DEF IInv

\* A request that has passed goes on to the next limiter of its route, or is through.
GoesOn(p) == IF Len(call[p].chain) = 1 THEN Idle("passed")
             ELSE [at |-> "lookup", client |-> ClientOf(p), chain |-> Tail(call[p].chain)]

LEMMA GoesOnType ==
    ASSUME IInv, NEW p \in Procs, call[p].at # "idle"
    PROVE  GoesOn(p) \in Call /\ GoesOn(p).at \in {"idle", "lookup"}
<1>1. CASE Len(call[p].chain) = 1
    BY <1>1 DEF GoesOn, Call, Idle
<1>2. CASE Len(call[p].chain) # 1
    <2>1. Tail(call[p].chain) \in Routes /\ ClientOf(p) \in Clients
        BY <1>2, CallFacts, RouteFacts
    <2> QED
        BY <1>2, <2>1 DEF GoesOn, Call
<1> QED
    BY <1>1, <1>2

LEMMA AllowStep ==
    ASSUME IInv, NEW p \in Procs, Allow(p)
    PROVE  IInv'
<1> DEFINE l == LimiterOf(p)
           c == ClientOf(p)
<1>1. call[p].at = "allow" /\ now' = now
    BY DEF Allow
<1>2. l \in Limiters /\ c \in Clients /\ now \in Nat
    BY <1>1, CallFacts DEF IInv, TypeOK
<1>3. PICK e \in Mine(p) :
          \/ /\ HasToken(e)
             /\ passed' = [passed EXCEPT ![<<l, c>>] = now]
             /\ call' = [call EXCEPT ![p] = GoesOn(p)]
             /\ \E f \in Entry :
                   /\ f.limiter = l /\ f.client = c /\ f.seen = e.seen
                   /\ f.level = Level(e) - Minute /\ f.last = now
                   /\ entries' = (entries \ Mine(p)) \cup {f}
          \/ /\ ~HasToken(e)
             /\ call' = [call EXCEPT ![p] = Idle("refused")]
             /\ UNCHANGED <<entries, passed>>
    BY AllowEntry DEF GoesOn
<1>4. CASE HasToken(e)
    <2>1. PICK f \in Entry :
              /\ f.limiter = l /\ f.client = c /\ f.seen = e.seen
              /\ f.level = Level(e) - Minute /\ f.last = now
              /\ entries' = (entries \ Mine(p)) \cup {f}
        BY <1>3, <1>4
    <2>2. /\ e \in entries /\ e.limiter = l /\ e.client = c /\ Mine(p) = {e}
          /\ e.seen \in Nat /\ e.seen <= now
          /\ Level(e) \in Nat /\ Level(e) <= Full(l) /\ Full(l) \in Nat
        BY MineIsOne, EntryFields, LevelFacts
    \* Allow() comes soon after the lookup that saw the entry.
    <2>3. now <= e.seen + MaxStall
        <3>1. /\ call[p].since \in Nat /\ now <= call[p].since + MaxStall
              /\ \E g \in Mine(p) : call[p].since <= g.seen
            BY <1>1, CallFacts DEF IInv, HeldBucketsStay, Mine, LimiterOf, ClientOf
        <3>2. call[p].since <= e.seen
            BY <2>2, <3>1
        <3> QED
            BY <1>2, <2>2, <3>1, <3>2, Constants
    <2>4. passed' = [passed EXCEPT ![<<l, c>>] = now] /\ call' = [call EXCEPT ![p] = GoesOn(p)]
        BY <1>3, <1>4
    <2>5. /\ passed' \in [Limiters \X Clients -> Nat \cup {Never}]
          /\ passed'[<<l, c>>] = now
          /\ \A x \in Limiters \X Clients : x # <<l, c>> => passed'[x] = passed[x]
        BY <1>2, <2>4 DEF IInv, TypeOK
    <2>6. \A g \in entries \ Mine(p) :
              passed'[<<g.limiter, g.client>>] = passed[<<g.limiter, g.client>>]
        <3>1. ASSUME NEW g \in entries \ Mine(p)
              PROVE  <<g.limiter, g.client>> \in Limiters \X Clients
                     /\ <<g.limiter, g.client>> # <<l, c>>
            BY EntryFields DEF Mine, Of
        <3> QED
            BY <2>5, <3>1
    <2>7. /\ f.level <= Full(f.limiter) /\ f.seen <= now /\ f.last <= now
          /\ f.last <= f.seen + MaxStall /\ \A g \in Mine(p) : g.seen <= f.seen
        BY <1>2, <2>1, <2>2, <2>3, Constants
    <2>8. passed'[<<f.limiter, f.client>>] # Never
              /\ f.last = passed'[<<f.limiter, f.client>>]
        BY <1>2, <2>1, <2>5 DEF Never
    <2>9. Mine(p) = Of(f.limiter, f.client)
        BY <2>1 DEF Mine
    <2> HIDE DEF l, c
    <2>10. /\ entries' \subseteq Entry /\ BucketsAreSound' /\ PassesAreKnown'
           /\ \A k, b : \A n \in Nat :
                 (\E g \in Of(k, b) : n <= g.seen) => (\E g \in Of(k, b)' : n <= g.seen)
        BY <1>1, <2>1, <2>6, <2>7, <2>8, <2>9, EntryReplaced
    <2>11. /\ GoesOn(p) \in Call /\ call'[p].at # "allow"
           /\ \A q \in Procs \ {p} : call'[q] = call[q]
        BY <1>1, <2>4, GoesOnType DEF IInv, TypeOK
    <2>12. TypeOK'
        BY <1>1, <2>4, <2>5, <2>10, <2>11 DEF IInv, TypeOK
    <2>13. HeldBucketsStay'
        BY <1>1, <2>10, <2>11, HeldStay
    <2> QED
        BY <2>10, <2>12, <2>13 DEF IInv
<1>5. CASE ~HasToken(e)
    <2>1. call' = [call EXCEPT ![p] = Idle("refused")] /\ UNCHANGED <<entries, passed>>
        BY <1>3, <1>5
    <2>2. Idle("refused") \in Call /\ Idle("refused").at = "idle"
        BY DEF Idle, Call
    <2>3. TypeOK'
        BY <1>1, <2>1, <2>2 DEF IInv, TypeOK
    <2>4. \A q \in Procs : call'[q].at = "allow" => call'[q] = call[q]
        BY <2>1, <2>2 DEF IInv, TypeOK
    <2>5. HeldBucketsStay'
        BY <1>1, <2>1, <2>4 DEF IInv, HeldBucketsStay, Of
    <2> QED
        BY <1>1, <2>1, <2>3, <2>5 DEF IInv, BucketsAreSound, PassesAreKnown
<1> QED
    BY <1>4, <1>5

\* No eviction takes the entry of a request that is about to use its bucket.
LEMMA CleanupStep ==
    ASSUME IInv, NEW l \in Limiters, Cleanup(l)
    PROVE  IInv'
<1>1. /\ entries' = {e \in entries : ~(e.limiter = l /\ e.seen < now - TTL)}
      /\ UNCHANGED <<now, call, passed>>
    BY DEF Cleanup
<1>2. TypeOK' /\ BucketsAreSound' /\ PassesAreKnown'
    BY <1>1 DEF IInv, TypeOK, BucketsAreSound, PassesAreKnown
<1>3. ASSUME NEW p \in Procs, call[p].at = "allow"
      PROVE  \E e \in entries' : /\ e.limiter = Head(call[p].chain)
                                 /\ e.client = call[p].client /\ call[p].since <= e.seen
    <2>1. /\ call[p].since \in Nat /\ now <= call[p].since + MaxStall /\ now \in Nat
        BY <1>3, CallFacts DEF IInv, HeldBucketsStay, TypeOK
    <2>2. PICK e \in entries : /\ e.limiter = Head(call[p].chain)
                               /\ e.client = call[p].client /\ call[p].since <= e.seen
        BY <1>3 DEF IInv, HeldBucketsStay, Of
    <2>3. ~(e.seen < now - TTL)
        BY <2>1, <2>2, EntryFields, StallIsShort, Constants
    <2> QED
        BY <1>1, <2>2, <2>3
<1>4. HeldBucketsStay'
    BY <1>1, <1>3 DEF IInv, HeldBucketsStay, Of
<1> QED
    BY <1>2, <1>4 DEF IInv

LEMMA TickStep ==
    ASSUME IInv, Tick
    PROVE  IInv'
<1>1. /\ now' = now + 1 /\ now \in Nat /\ UNCHANGED <<entries, call, passed>>
      /\ \A p \in Procs : call[p].at = "allow" => now < call[p].since + MaxStall
    BY DEF Tick, IInv, TypeOK
<1>2. TypeOK' /\ PassesAreKnown'
    BY <1>1 DEF IInv, TypeOK, PassesAreKnown
<1>3. BucketsAreSound'
    <2>1. \A e \in entries : e.seen <= now' /\ e.last <= now'
        BY <1>1, EntryFields
    <2> QED
        BY <1>1, <2>1 DEF IInv, BucketsAreSound
<1>4. HeldBucketsStay'
    <2>1. ASSUME NEW p \in Procs, call[p].at = "allow"
          PROVE  call[p].since <= now' /\ now' <= call[p].since + MaxStall
        BY <1>1, <2>1, CallFacts, Constants DEF IInv, HeldBucketsStay
    <2> QED
        BY <1>1, <2>1 DEF IInv, HeldBucketsStay, Of
<1> QED
    BY <1>2, <1>3, <1>4 DEF IInv

LEMMA NextIInv == IInv /\ [Next]_vars => IInv'
<1> SUFFICES ASSUME IInv, [Next]_vars PROVE IInv'
    OBVIOUS
<1>1. CASE UNCHANGED vars
    BY <1>1 DEF vars, IInv, TypeOK, BucketsAreSound, HeldBucketsStay, PassesAreKnown, Of
<1> QED
    BY <1>1, ArriveStep, LookupStep, AllowStep, CleanupStep, TickStep DEF Next

\* The inductive invariant: a client has one entry in a limiter, no fuller than its
\* burst and used soon after it was last seen; a request between lookup and Allow()
\* finds its entry; a bucket that is not as it was made was last used when its
\* client passed last.
THEOREM Invariance == Spec => []IInv
<1>1. Init => IInv
    BY InitIInv
<1>2. IInv /\ [Next]_vars => IInv'
    BY NextIInv
<1> QED
    BY <1>1, <1>2, PTL DEF Spec

-----------------------------------------------------------------------------
(***************************************************************************)
(* The map of buckets is as good as buckets that last for ever.            *)
(***************************************************************************)

\* What bucket e holds at time t.
At(e, t) ==
    LET sum == e.level + (t - e.last) * RPM[e.limiter]
    IN IF sum > Full(e.limiter) THEN Full(e.limiter) ELSE sum

LEMMA AtGain ==
    ASSUME NEW e, NEW t, NEW gain, gain = (t - e.last) * RPM[e.limiter]
    PROVE  At(e, t) = IF e.level + gain > Full(e.limiter) THEN Full(e.limiter) ELSE e.level + gain
BY DEF At

LEMMA Chosen ==
    ASSUME NEW e
    PROVE  (CHOOSE x \in {e} : TRUE) = e
OBVIOUS

LEMMA LevelsBefore ==
    ASSUME IInv, NEW l \in Limiters, NEW c \in Clients
    PROVE  \/ Of(l, c) = {} /\ levels[<<l, c>>] = Full(l)
           \/ \E e \in entries : /\ Of(l, c) = {e} /\ e.limiter = l /\ e.client = c
                                 /\ levels[<<l, c>>] = Level(e)
<1>1. levels[<<l, c>>] = IF Of(l, c) = {} THEN Full(l) ELSE Level(CHOOSE e \in Of(l, c) : TRUE)
    BY DEF levels, Full
<1>2. CASE Of(l, c) # {}
    <2>1. PICK e \in entries : Of(l, c) = {e} /\ e.limiter = l /\ e.client = c
        BY <1>2 DEF Of, IInv, BucketsAreSound
    <2> QED
        BY <1>1, <2>1, Chosen
<1> QED
    BY <1>1, <1>2

LEMMA LevelsAfter ==
    ASSUME NEW l \in Limiters, NEW c \in Clients
    PROVE  /\ Of(l, c)' = {} => levels'[<<l, c>>] = Full(l)
           /\ \A e : Of(l, c)' = {e} => levels'[<<l, c>>] = At(e, now')
<1>1. levels'[<<l, c>>] = IF Of(l, c)' = {} THEN Full(l)
                          ELSE At(CHOOSE e \in Of(l, c)' : TRUE, now')
    BY DEF levels, Full, Level, At
<1>2. ASSUME NEW e, Of(l, c)' = {e}
      PROVE  levels'[<<l, c>>] = At(e, now')
    BY <1>1, <1>2, Chosen
<1> QED
    BY <1>1, <1>2

LEMMA LevelAt == \A e : Level(e) = At(e, now)
BY DEF Level, At, Full

\* Buckets as functions of limiter and client.
LEMMA LevelsDomain ==
    /\ levels = [x \in Limiters \X Clients |-> levels[x]]
    /\ levels' = [x \in Limiters \X Clients |-> levels'[x]]
BY DEF levels

\* A bucket that is made is full, and one that is found is the same.
LEMMA LookupKeepsLevels ==
    ASSUME IInv, NEW p \in Procs, Lookup(p)
    PROVE  levels' = levels
<1>1. call[p].at = "lookup" /\ now' = now /\ now \in Nat
    BY DEF Lookup, IInv, TypeOK
<1>2. PICK f \in Entry :
          /\ f.limiter = LimiterOf(p) /\ f.client = ClientOf(p)
          /\ entries' = (entries \ Mine(p)) \cup {f}
          /\ (Mine(p) = {} => f.level = Full(LimiterOf(p)) /\ f.last = now)
          /\ \A e \in Mine(p) : f.level = e.level /\ f.last = e.last
    BY LookupEntry
<1>3. ASSUME NEW l \in Limiters, NEW c \in Clients
      PROVE  levels'[<<l, c>>] = levels[<<l, c>>]
    <2>1. CASE l = LimiterOf(p) /\ c = ClientOf(p)
        <3>1. Of(l, c)' = {f} /\ Of(l, c) = Mine(p)
            BY <1>2, <2>1 DEF Of, Mine
        <3>2. levels'[<<l, c>>] = At(f, now)
            BY <1>1, <3>1, LevelsAfter
        <3>3. CASE Mine(p) = {}
            <4>1. (now - now) * RPM[l] = 0 /\ Full(l) \in Nat
                <5>1. now - now = 0
                    BY <1>1
                <5>2. \A r \in Nat : 0 * r = 0
                    OBVIOUS
                <5> QED
                    BY <5>1, <5>2, Bursts DEF Full
            <4>2. At(f, now) = Full(l)
                BY <1>2, <2>1, <3>3, <4>1 DEF At
            <4> QED
                BY <3>1, <3>2, <3>3, <4>2, LevelsBefore
        <3>4. CASE Mine(p) # {}
            <4>1. PICK e \in entries : /\ Of(l, c) = {e} /\ e.limiter = l
                                       /\ levels[<<l, c>>] = Level(e)
                BY <3>1, <3>4, LevelsBefore
            <4>2. f.level = e.level /\ f.last = e.last /\ f.limiter = e.limiter
                BY <1>2, <2>1, <3>1, <4>1
            <4>3. At(f, now) = At(e, now)
                BY <4>2 DEF At
            <4> QED
                BY <3>2, <4>1, <4>3, LevelAt
        <3> QED
            BY <3>3, <3>4
    <2>2. CASE ~(l = LimiterOf(p) /\ c = ClientOf(p))
        <3>1. Of(l, c)' = Of(l, c)
            BY <1>2, <2>2 DEF Of, Mine
        <3> QED
            BY <1>1, <3>1, LevelsBefore, LevelsAfter, LevelAt
    <2> QED
        BY <2>1, <2>2
<1>4. \A x \in Limiters \X Clients : levels'[x] = levels[x]
    BY <1>3
<1> QED
    BY <1>4, LevelsDomain

\* A bucket whose entry is evicted has filled meanwhile.
LEMMA CleanupKeepsLevels ==
    ASSUME IInv, NEW k \in Limiters, Cleanup(k)
    PROVE  levels' = levels
<1>1. /\ entries' = {e \in entries : ~(e.limiter = k /\ e.seen < now - TTL)}
      /\ now' = now
    BY DEF Cleanup
<1>2. ASSUME NEW e \in entries, e.seen < now - TTL
      PROVE  Level(e) = Full(e.limiter)
    <2> DEFINE l == e.limiter
               idle == now - e.last
    <2>1. /\ l \in Limiters /\ e.seen \in Nat /\ e.last \in Nat /\ e.level \in Nat
          /\ now \in Nat /\ e.last <= now /\ e.last <= e.seen + MaxStall
          /\ e.level <= Full(l) /\ Full(l) \in Nat
        BY EntryFields
    <2>2. RPM[l] \in Nat /\ Full(l) <= RPM[l] * (TTL - MaxStall)
        BY <2>1, Bursts, Constants DEF Full
    <2>3. idle \in Nat /\ TTL - MaxStall \in Nat /\ TTL - MaxStall <= idle
        BY <1>2, <2>1, StallIsShort, Constants
    <2>4. idle * RPM[l] >= (TTL - MaxStall) * RPM[l]
        BY <2>2, <2>3, Gains
    <2>5. \A i, j \in Nat : i * j = j * i
        OBVIOUS
    <2>6. idle * RPM[l] \in Nat /\ (TTL - MaxStall) * RPM[l] \in Nat
        BY <2>2, <2>3, Gains
    <2>7. Full(l) <= idle * RPM[l]
        BY <2>1, <2>2, <2>3, <2>4, <2>5, <2>6
    <2> HIDE DEF l, idle
    <2>8. Level(e) = Full(l) \/ Level(e) = e.level + idle * RPM[l]
        BY LevelFacts DEF l, idle
    <2>9. Level(e) \in Nat /\ Level(e) <= Full(l)
        BY LevelFacts DEF l
    <2>10. Level(e) = Full(l)
        BY <2>1, <2>6, <2>7, <2>8, <2>9
    <2> QED
        BY <2>10 DEF l
<1>3. ASSUME NEW l \in Limiters, NEW c \in Clients
      PROVE  levels'[<<l, c>>] = levels[<<l, c>>]
    <2>1. CASE Of(l, c) = {}
        <3>1. Of(l, c)' = {}
            BY <1>1, <2>1 DEF Of
        <3> QED
            BY <2>1, <3>1, LevelsBefore, LevelsAfter
    <2>2. CASE Of(l, c) # {}
        <3>1. PICK e \in entries : /\ Of(l, c) = {e} /\ e.limiter = l /\ e.client = c
                                   /\ levels[<<l, c>>] = Level(e)
            BY <2>2, LevelsBefore
        <3>2. CASE e \in entries'
            <4>1. Of(l, c)' = {e}
                BY <1>1, <3>1, <3>2 DEF Of
            <4> QED
                BY <1>1, <3>1, <4>1, LevelsAfter, LevelAt
        <3>3. CASE e \notin entries'
            <4>1. Of(l, c)' = {}
                BY <1>1, <3>1, <3>3 DEF Of
            <4> QED
                BY <1>1, <1>2, <3>1, <3>3, <4>1, LevelsAfter
        <3> QED
            BY <3>2, <3>3
    <2> QED
        BY <2>1, <2>2
<1>4. \A x \in Limiters \X Clients : levels'[x] = levels[x]
    BY <1>3
<1> QED
    BY <1>4, LevelsDomain

\* A request that passes takes one token from one bucket.
LEMMA PassTakesToken ==
    ASSUME IInv, NEW p \in Procs, Allow(p), NEW e \in Mine(p), HasToken(e),
           NEW l, NEW c, l = LimiterOf(p), c = ClientOf(p),
           NEW f \in Entry, f.limiter = l, f.client = c,
           f.level = Level(e) - Minute, f.last = now,
           entries' = (entries \ Mine(p)) \cup {f}
    PROVE  /\ levels[<<l, c>>] >= Minute
           /\ levels' = [levels EXCEPT ![<<l, c>>] = @ - Minute]
<1> DEFINE x == <<l, c>>
<1>1. /\ call[p].at = "allow" /\ now' = now /\ now \in Nat
      /\ l \in Limiters /\ c \in Clients
    BY CallFacts DEF Allow, IInv, TypeOK
<1>2. Mine(p) = {e} /\ e \in entries
    BY MineIsOne
<1>3. levels[x] = Level(e)
    BY <1>1, <1>2, LevelsBefore DEF Mine
<1>4. levels'[x] = Level(e) - Minute
    <2>1. Of(l, c)' = {f}
        BY DEF Of, Mine
    <2>2. levels'[x] = At(f, now)
        BY <1>1, <2>1, LevelsAfter
    <2>3. now - now = 0 /\ \A r \in Nat : 0 * r = 0
        BY <1>1
    <2>4. (now - f.last) * RPM[f.limiter] = 0
        BY <1>1, <2>3, Bursts
    <2>5. Level(e) \in Nat /\ Level(e) <= Full(f.limiter) /\ Full(f.limiter) \in Nat
        BY <1>2, LevelFacts, EntryFields, MineIsOne
    <2>6. At(f, now) = Level(e) - Minute
        BY <2>4, <2>5, Constants DEF At
    <2> QED
        BY <2>2, <2>6
<1>5. ASSUME NEW k \in Limiters, NEW b \in Clients, <<k, b>> # x
      PROVE  levels'[<<k, b>>] = levels[<<k, b>>]
    <2>1. Of(k, b)' = Of(k, b)
        BY <1>5 DEF Of, Mine
    <2> QED
        BY <1>1, <2>1, LevelsBefore, LevelsAfter, LevelAt
<1>6. x \in Limiters \X Clients
    BY <1>1
<1> HIDE DEF x
<1>7. \A y \in Limiters \X Clients : y # x => levels'[y] = levels[y]
    BY <1>5
<1>8. levels' = [levels EXCEPT ![x] = @ - Minute]
    BY <1>3, <1>4, <1>6, <1>7, LevelsDomain
<1>9. levels[x] >= Minute
    BY <1>3 DEF HasToken
<1> QED
    BY <1>8, <1>9 DEF x

\* Time fills every bucket by its rate.
LEMMA TickFillsLevels ==
    ASSUME IInv, Tick
    PROVE  levels' = [x \in Limiters \X Clients |->
                        LET sum == levels[x] + RPM[x[1]]
                        IN IF sum > Full(x[1]) THEN Full(x[1]) ELSE sum]
<1>1. now' = now + 1 /\ now \in Nat /\ entries' = entries
    BY DEF Tick, IInv, TypeOK
<1>2. ASSUME NEW l \in Limiters, NEW c \in Clients
      PROVE  levels'[<<l, c>>] = LET sum == levels[<<l, c>>] + RPM[l]
                                 IN IF sum > Full(l) THEN Full(l) ELSE sum
    <2>1. RPM[l] \in Nat /\ RPM[l] > 0 /\ Full(l) \in Nat
        BY Bursts DEF Full
    <2>2. Of(l, c)' = Of(l, c)
        BY <1>1 DEF Of
    <2>3. CASE Of(l, c) = {} /\ levels[<<l, c>>] = Full(l)
        BY <2>1, <2>2, <2>3, LevelsAfter
    <2>4. CASE \E e \in entries : /\ Of(l, c) = {e} /\ e.limiter = l /\ e.client = c
                                  /\ levels[<<l, c>>] = Level(e)
        <3>1. PICK e \in entries : /\ Of(l, c) = {e} /\ e.limiter = l
                                   /\ levels[<<l, c>>] = Level(e)
            BY <2>4
        <3>2. levels'[<<l, c>>] = At(e, now + 1)
            BY <1>1, <2>2, <3>1, LevelsAfter
        <3>3. now - e.last \in Nat /\ e.last \in Nat /\ e.level \in Nat
            BY EntryFields, LevelFacts
        <3>4. now + 1 - e.last = (now - e.last) + 1
            BY <1>1, <3>3
        <3> DEFINE r    == RPM[e.limiter]
                   gain == (now - e.last) * r
        <3>5. (now + 1 - e.last) * r = gain + r
            BY <2>1, <3>1, <3>3, <3>4, Gains
        <3>6. gain \in Nat
            BY <2>1, <3>1, <3>3, Gains
        <3>7. At(e, now + 1) = IF e.level + (gain + r) > Full(e.limiter) THEN Full(e.limiter)
                               ELSE e.level + (gain + r)
            <4> DEFINE more == gain + r
                       t == now + 1
            <4>1. (t - e.last) * RPM[e.limiter] = more
                BY <1>1, <2>1, <3>1, <3>3, <3>5, <3>6
            <4> HIDE DEF more, t
            <4>2. At(e, t) = IF e.level + more > Full(e.limiter) THEN Full(e.limiter)
                             ELSE e.level + more
                BY <4>1, AtGain
            <4> QED
                BY <4>2 DEF more, t
        <3>8. At(e, now) = IF e.level + gain > Full(e.limiter) THEN Full(e.limiter)
                           ELSE e.level + gain
            BY AtGain
        <3>9. r = RPM[l] /\ Level(e) = At(e, now)
            BY <3>1, LevelAt
        <3> HIDE DEF gain, r
        <3> QED
            BY <2>1, <3>1, <3>2, <3>3, <3>6, <3>7, <3>8, <3>9
    <2> QED
        BY <2>3, <2>4, LevelsBefore
<1>3. \A x \in Limiters \X Clients :
          levels'[x] = LET sum == levels[x] + RPM[x[1]]
                       IN IF sum > Full(x[1]) THEN Full(x[1]) ELSE sum
    BY <1>2
<1> QED
    BY <1>3, LevelsDomain

LEMMA RequestOf ==
    ASSUME NEW p \in Procs
    PROVE  /\ (call[p].at = "idle" =>
                  requests[p] = [answer |-> call[p].answer, chain |-> <<>>])
           /\ (call[p].at # "idle" =>
                  requests[p] = [client |-> call[p].client, chain |-> call[p].chain])
           /\ (call'[p].at = "idle" =>
                  requests'[p] = [answer |-> call'[p].answer, chain |-> <<>>])
           /\ (call'[p].at # "idle" =>
                  requests'[p] = [client |-> call'[p].client, chain |-> call'[p].chain])
           /\ (call'[p] = call[p] => requests'[p] = requests[p])
           /\ requests = [q \in Procs |-> requests[q]]
           /\ requests' = [q \in Procs |-> requests'[q]]
BY DEF requests

LEMMA RequestsChange ==
    ASSUME IInv, NEW p \in Procs, NEW d, NEW r, call' = [call EXCEPT ![p] = d],
           \/ d.at = "idle" /\ r = [answer |-> d.answer, chain |-> <<>>]
           \/ d.at # "idle" /\ r = [client |-> d.client, chain |-> d.chain]
    PROVE  requests' = [requests EXCEPT ![p] = r]
<1>1. call'[p] = d /\ \A q \in Procs \ {p} : call'[q] = call[q]
    BY DEF IInv, TypeOK
<1>2. requests'[p] = r
    BY <1>1, RequestOf
<1>3. \A q \in Procs \ {p} : requests'[q] = requests[q]
    BY <1>1, RequestOf
<1> QED
    BY <1>2, <1>3, RequestOf

LEMMA ArriveIsArrive ==
    ASSUME IInv, NEW p \in Procs, NEW c \in Clients, NEW chain \in Chains, Arrive(p, c, chain)
    PROVE  Buckets!Arrive(p, c, chain)
<1> DEFINE d == [at |-> "lookup", client |-> c, chain |-> chain]
<1>1. /\ call[p].at = "idle" /\ call' = [call EXCEPT ![p] = d]
      /\ UNCHANGED <<now, entries>>
    BY DEF Arrive
<1>2. requests[p].chain = <<>>
    <2>1. requests[p] = [answer |-> call[p].answer, chain |-> <<>>]
        BY <1>1, RequestOf
    <2> QED
        BY <2>1
<1>3. d.at # "idle" /\ d.client = c /\ d.chain = chain
    OBVIOUS
<1> HIDE DEF d
<1>4. requests' = [requests EXCEPT ![p] = [client |-> c, chain |-> chain]]
    BY <1>1, <1>3, RequestsChange
<1>5. levels' = levels
    BY <1>1 DEF levels, Of, Level
<1> QED
    BY <1>2, <1>4, <1>5 DEF Buckets!Arrive

LEMMA LookupIsInvisible ==
    ASSUME IInv, NEW p \in Procs, Lookup(p)
    PROVE  UNCHANGED Buckets!vars
<1> DEFINE d == [at |-> "allow", client |-> call[p].client, chain |-> call[p].chain, since |-> now]
<1>1. call[p].at = "lookup" /\ call' = [call EXCEPT ![p] = d]
    BY DEF Lookup
<1>2. d.at # "idle" /\ d.client = call[p].client /\ d.chain = call[p].chain
    OBVIOUS
<1> HIDE DEF d
<1>3. requests' = [requests EXCEPT ![p] = requests[p]]
    <2>1. requests[p] = [client |-> d.client, chain |-> d.chain]
        BY <1>1, <1>2, RequestOf
    <2> QED
        BY <1>1, <1>2, <2>1, RequestsChange
<1>4. requests' = requests
    BY <1>3, RequestOf
<1> QED
    BY <1>4, LookupKeepsLevels DEF Buckets!vars

LEMMA AllowIsAtomic ==
    ASSUME IInv, NEW p \in Procs, Allow(p)
    PROVE  Buckets!Pass(p) \/ Buckets!Refuse(p)
<1> DEFINE l == LimiterOf(p)
           c == ClientOf(p)
<1>1. /\ call[p].at = "allow" /\ l \in Limiters /\ c \in Clients
      /\ call[p].chain \in Routes /\ call[p].chain # <<>>
    BY CallFacts DEF Allow
<1>2. requests[p] = [client |-> c, chain |-> call[p].chain]
    BY <1>1, RequestOf DEF ClientOf
<1>3. requests[p].chain # <<>> /\ Buckets!At(p) = <<l, c>>
    BY <1>1, <1>2 DEF Buckets!At, LimiterOf
<1>4. PICK e \in Mine(p) :
          \/ /\ HasToken(e)
             /\ call' = [call EXCEPT ![p] = GoesOn(p)]
             /\ \E f \in Entry :
                   /\ f.limiter = l /\ f.client = c
                   /\ f.level = Level(e) - Minute /\ f.last = now
                   /\ entries' = (entries \ Mine(p)) \cup {f}
          \/ /\ ~HasToken(e)
             /\ call' = [call EXCEPT ![p] = Idle("refused")]
             /\ entries' = entries
    BY AllowEntry DEF GoesOn
<1>5. CASE HasToken(e)
    <2>1. PICK f \in Entry :
              /\ f.limiter = l /\ f.client = c
              /\ f.level = Level(e) - Minute /\ f.last = now
              /\ entries' = (entries \ Mine(p)) \cup {f}
        BY <1>4, <1>5
    <2>2. call' = [call EXCEPT ![p] = GoesOn(p)]
        BY <1>4, <1>5
    <2>3. /\ levels[<<l, c>>] >= Minute
          /\ levels' = [levels EXCEPT ![<<l, c>>] = @ - Minute]
        <3>1. l = LimiterOf(p) /\ c = ClientOf(p)
            OBVIOUS
        <3> HIDE DEF l, c
        <3> QED
            BY <1>5, <2>1, <3>1, PassTakesToken
    <2> DEFINE r == IF Len(call[p].chain) = 1 THEN [answer |-> "passed", chain |-> <<>>]
                    ELSE [client |-> c, chain |-> Tail(call[p].chain)]
    <2>4. requests' = [requests EXCEPT ![p] = r]
        <3>1. \/ GoesOn(p).at = "idle" /\ r = [answer |-> GoesOn(p).answer, chain |-> <<>>]
              \/ /\ GoesOn(p).at # "idle"
                 /\ r = [client |-> GoesOn(p).client, chain |-> GoesOn(p).chain]
            BY DEF GoesOn, Idle
        <3> HIDE DEF r
        <3> QED
            BY <2>2, <3>1, RequestsChange
    <2>5. r = IF Len(requests[p].chain) = 1 THEN Buckets!Answer("passed")
              ELSE [client |-> requests[p].client, chain |-> Tail(requests[p].chain)]
        <3>1. requests[p].chain = call[p].chain /\ requests[p].client = c
            BY <1>2
        <3> QED
            BY <3>1 DEF Buckets!Answer
    <2> HIDE DEF r, l, c
    <2>6. requests' = [requests EXCEPT ![p] =
                          IF Len(requests[p].chain) = 1 THEN Buckets!Answer("passed")
                          ELSE [client |-> requests[p].client,
                                chain |-> Tail(requests[p].chain)]]
        BY <2>4, <2>5
    <2>7. /\ levels[Buckets!At(p)] >= Minute
          /\ levels' = [levels EXCEPT ![Buckets!At(p)] = levels[Buckets!At(p)] - Minute]
        BY <1>3, <2>3
    <2>8. Buckets!Pass(p)
        BY <1>3, <2>6, <2>7, Zenon DEF Buckets!Pass
    <2> QED
        BY <2>8
<1>6. CASE ~HasToken(e)
    <2>1. call' = [call EXCEPT ![p] = Idle("refused")] /\ entries' = entries /\ now' = now
        BY <1>4, <1>6 DEF Allow
    <2>2. levels' = levels
        BY <2>1 DEF levels, Of, Level
    <2>3. levels[<<l, c>>] < Minute
        <3>1. levels[<<l, c>>] = Level(e)
            BY <1>1, MineIsOne, LevelsBefore DEF Mine
        <3>2. Level(e) \in Nat
            BY MineIsOne, LevelFacts
        <3> QED
            BY <1>6, <3>1, <3>2, Constants DEF HasToken
    <2>4. Idle("refused").at = "idle" /\ Idle("refused").answer = "refused"
        BY DEF Idle
    <2>5. requests' = [requests EXCEPT ![p] = Buckets!Answer("refused")]
        BY <2>1, <2>4, RequestsChange DEF Buckets!Answer
    <2> HIDE DEF l, c
    <2> QED
        BY <1>3, <2>2, <2>3, <2>5 DEF Buckets!Refuse
<1> QED
    BY <1>5, <1>6

LEMMA StepIsBucketStep == IInv /\ [Next]_vars => [Buckets!Next]_(Buckets!vars)
<1> SUFFICES ASSUME IInv, [Next]_vars PROVE [Buckets!Next]_(Buckets!vars)
    OBVIOUS
<1>1. ASSUME NEW p \in Procs, NEW c \in Clients, NEW chain \in Chains, Arrive(p, c, chain)
      PROVE  Buckets!Next
    BY <1>1, ArriveIsArrive DEF Buckets!Next
<1>2. ASSUME NEW p \in Procs, Lookup(p)
      PROVE  UNCHANGED Buckets!vars
    BY <1>2, LookupIsInvisible
<1>3. ASSUME NEW p \in Procs, Allow(p)
      PROVE  Buckets!Next
    BY <1>3, AllowIsAtomic DEF Buckets!Next
<1>4. ASSUME NEW l \in Limiters, Cleanup(l)
      PROVE  UNCHANGED Buckets!vars
    BY <1>4, CleanupKeepsLevels DEF Cleanup, requests, Buckets!vars
<1>5. ASSUME Tick
      PROVE  Buckets!Next
    <2>1. requests' = requests
        BY <1>5 DEF Tick, requests
    <2>2. Buckets!Fill
        BY <1>5, <2>1, TickFillsLevels DEF Buckets!Fill, Buckets!Full, Full
    <2> QED
        BY <2>2 DEF Buckets!Next
<1>6. CASE UNCHANGED vars
    BY <1>6 DEF vars, levels, requests, Of, Level, Buckets!vars
<1> QED
    BY <1>1, <1>2, <1>3, <1>4, <1>5, <1>6 DEF Next

LEMMA InitIsBucketInit == Init => Buckets!Init
<1> SUFFICES ASSUME Init PROVE Buckets!Init
    OBVIOUS
<1>1. \A l, c : Of(l, c) = {}
    BY DEF Init, Of
<1>2. levels = [x \in Limiters \X Clients |-> Buckets!Full(x[1])]
    BY <1>1 DEF levels, Buckets!Full
<1>3. requests = [p \in Procs |-> Buckets!Answer("none")]
    BY DEF Init, requests, Idle, Buckets!Answer
<1> QED
    BY <1>2, <1>3 DEF Buckets!Init

\* The map of buckets with its eviction answers every request as buckets that last
\* for ever would: an entry that is evicted had filled, one that a request is about
\* to use is not evicted, and between the lookup and Allow() nothing is lost.
THEOREM MapOfBuckets == Spec => ImplementsBuckets
BY InitIsBucketInit, StepIsBucketStep, Invariance, PTL
   DEF Spec, ImplementsBuckets, Buckets!Spec

-----------------------------------------------------------------------------
(***************************************************************************)
(* The sustained rate.                                                     *)
(***************************************************************************)

\* An answer comes from Allow().
LEMMA RefusedByAllow ==
    ASSUME IInv, [Next]_vars, NEW p \in Procs, call[p].at = "allow", call'[p] = Idle("refused")
    PROVE  Allow(p)
<1>1. Idle("refused").at = "idle" /\ call \in [Procs -> Call]
    BY DEF Idle, IInv, TypeOK
<1>2. CASE UNCHANGED vars
    BY <1>1, <1>2 DEF vars
<1>3. ASSUME NEW q \in Procs, NEW c \in Clients, NEW chain \in Chains, Arrive(q, c, chain)
      PROVE  FALSE
    BY <1>1, <1>3 DEF Arrive
<1>4. ASSUME NEW q \in Procs, Lookup(q) PROVE FALSE
    BY <1>1, <1>4 DEF Lookup
<1>5. ASSUME NEW q \in Procs, Allow(q) PROVE q = p
    BY <1>1, <1>5, AllowEntry
<1>6. ASSUME NEW l \in Limiters, Cleanup(l) PROVE FALSE
    BY <1>1, <1>6 DEF Cleanup
<1>7. ASSUME Tick PROVE FALSE
    BY <1>1, <1>7 DEF Tick
<1> QED
    BY <1>2, <1>3, <1>4, <1>5, <1>6, <1>7 DEF Next

\* A bucket with room for a token that has none was used less than a token's time
\* ago, by a request that passed.
LEMMA RefusalIsEarned ==
    ASSUME IInv, NEW p \in Procs, Allow(p), call'[p] = Idle("refused"),
           Burst[LimiterOf(p)] # 0
    PROVE  Earned(LimiterOf(p), ClientOf(p))
<1> DEFINE l == LimiterOf(p)
           c == ClientOf(p)
<1>1. call[p].at = "allow" /\ l \in Limiters /\ c \in Clients
    BY CallFacts DEF Allow
<1>2. PICK e \in Mine(p) : ~HasToken(e)
    <2>1. call \in [Procs -> Call] /\ GoesOn(p) # Idle("refused")
        BY DEF IInv, TypeOK, GoesOn, Idle
    <2> QED
        BY <2>1, AllowEntry DEF GoesOn
<1>3. e \in entries /\ e.limiter = l /\ e.client = c
    BY MineIsOne
<1>4. /\ Level(e) \in Nat /\ Level(e) < Minute
      /\ now - e.last \in Nat /\ (now - e.last) * RPM[l] \in Nat
      /\ (Level(e) = Full(l) \/ Level(e) = e.level + (now - e.last) * RPM[l])
      /\ (e.level = Full(l) => Level(e) = Full(l))
      /\ e.level \in Nat
    BY <1>2, <1>3, LevelFacts, EntryFields, Constants DEF HasToken
<1>5. Full(l) >= Minute
    <2>1. \A m, n \in Nat : m > 0 => m * n >= n
        OBVIOUS
    <2> QED
        BY <1>1, <2>1, Bursts, Constants DEF Full
<1>6. Level(e) # Full(l) /\ Full(l) \in Nat
    BY <1>1, <1>4, <1>5, Constants, Bursts DEF Full
<1>7. e.last = passed[<<l, c>>] /\ passed[<<l, c>>] # Never
    BY <1>3, <1>4, <1>6 DEF IInv, PassesAreKnown, Full
<1> DEFINE gain == (now - e.last) * RPM[l]
<1>8. gain \in Nat /\ Level(e) = e.level + gain
    BY <1>4, <1>6
<1> HIDE DEF gain
<1>9. gain < Minute
    BY <1>4, <1>8, Constants
<1> QED
    BY <1>7, <1>9 DEF gain, Earned

\* NoUnearnedRefusal: for every rate and burst the configuration accepts, a limiter
\* whose bucket has room for a token refuses a client only if it let it pass less
\* than a token's time ago, whatever was evicted and looked up in between.
THEOREM RefusalsAreEarned == Spec => NoUnearnedRefusal
<1>1. IInv /\ [Next]_vars =>
          [\A p \in Procs : call[p].at = "allow" /\ call'[p] = Idle("refused") =>
              \/ Burst[Head(call[p].chain)] = 0
              \/ Earned(Head(call[p].chain), call[p].client)]_vars
    <2> SUFFICES ASSUME IInv, [Next]_vars, NEW p \in Procs,
                        call[p].at = "allow", call'[p] = Idle("refused"),
                        Burst[Head(call[p].chain)] # 0
                 PROVE  Earned(Head(call[p].chain), call[p].client)
        OBVIOUS
    <2>1. Allow(p)
        BY RefusedByAllow
    <2> QED
        BY <2>1, RefusalIsEarned DEF LimiterOf, ClientOf
<1> QED
    BY <1>1, Invariance, PTL DEF Spec, NoUnearnedRefusal

-----------------------------------------------------------------------------
(***************************************************************************)
(* A rate below 4.                                                         *)
(***************************************************************************)

LEMMA NextEmptyBurst ==
    ASSUME IInv, [Next]_vars, EmptyBurstPassesNobody
    PROVE  EmptyBurstPassesNobody'
<1>1. ASSUME NEW p \in Procs, Allow(p)
      PROVE  EmptyBurstPassesNobody'
    <2>1. PICK e \in Mine(p) :
              \/ /\ HasToken(e)
                 /\ passed' = [passed EXCEPT ![<<LimiterOf(p), ClientOf(p)>>] = now]
              \/ passed' = passed
        BY <1>1, AllowEntry
    <2>2. HasToken(e) => Burst[LimiterOf(p)] # 0
        BY MineIsOne, LevelFacts, Constants, Bursts DEF HasToken, Full
    <2>3. passed \in [Limiters \X Clients -> Nat \cup {Never}]
        BY DEF IInv, TypeOK
    <2>4. ASSUME NEW l \in Limiters, NEW c \in Clients, Burst[l] = 0
          PROVE  passed'[<<l, c>>] = Never
        BY <2>1, <2>2, <2>3, <2>4 DEF EmptyBurstPassesNobody
    <2> QED
        BY <2>4 DEF EmptyBurstPassesNobody
<1> QED
    BY <1>1 DEF Next, Arrive, Lookup, Cleanup, Tick, vars, EmptyBurstPassesNobody

\* Where the burst of a limiter is 0 its buckets never hold a token and nobody ever
\* passes it, however slowly the requests come: what a RATE_LIMIT_GLOBAL_RPM of 1 to
\* 3, which the configuration accepts, makes of the global limiter.
THEOREM TinyRatePassesNobody == Spec => []EmptyBurstPassesNobody
<1>1. Init => EmptyBurstPassesNobody
    BY DEF Init, EmptyBurstPassesNobody
<1>2. IInv /\ [Next]_vars /\ EmptyBurstPassesNobody => EmptyBurstPassesNobody'
    BY NextEmptyBurst
<1> QED
    BY <1>1, <1>2, Invariance, PTL DEF Spec
=============================================================================
