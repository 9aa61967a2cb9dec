---------------------------- MODULE RateLimiter ----------------------------
(***************************************************************************)
(* The rate limiters of identity-service: IPRateLimiter, three instances   *)
(* of it in the middleware chain, and the loop that evicts idle clients.   *)
(*                                                                         *)
(* allow() finds or makes the client's entry under the mutex and calls     *)
(* Allow() on its bucket after the unlock: two steps, with other requests, *)
(* the eviction loop and time in between.  Buckets are golang.org/x/time   *)
(* limiters: level and time of the last token taken, filled when read.     *)
(* The clock ticks Minute times a minute and levels are counted in         *)
(* 1/Minute tokens, so a limiter of RPM requests a minute gains RPM a tick *)
(* and a request costs Minute.  Requests whose peer has a loopback or      *)
(* private address are let through and touch nothing: they are left out.   *)
(***************************************************************************)
EXTENDS Integers, Sequences

CONSTANTS
    Clients,      \* client addresses
    Procs,        \* requests handled concurrently
    Paths,        \* the limiters of "/login" and of the token endpoint
    Minute,       \* ticks in a minute
    RPM,          \* RPM[l]: RATE_LIMIT_..._RPM of limiter l
    PathBurst,    \* PathBurst[l]: burst of a path's limiter
    TTL,          \* ticks an idle entry is kept
    MaxStall,     \* ticks a request spends between the unlock and Allow()
    MaxTime       \* bound: ticks of the clock

Limiters == {"global"} \cup Paths

\* The burst of the global limiter is RATE_LIMIT_GLOBAL_RPM / 4.
Burst == [l \in Limiters |-> IF l = "global" THEN RPM[l] \div 4 ELSE PathBurst[l]]

\* A bucket fills while its entry waits for eviction (main.go: 15 minutes; the
\* slowest bucket, 10 tokens at 1 a minute, takes 10).
ASSUME RateLimiterAssumption ==
    /\ Minute \in Nat \ {0}
    /\ {TTL, MaxStall, MaxTime} \subseteq Nat
    /\ RPM \in [Limiters -> Nat \ {0}]
    /\ PathBurst \in [Paths -> Nat]
    /\ \A l \in Limiters : Burst[l] * Minute <= RPM[l] * (TTL - MaxStall)

VARIABLES
    now,
    entries,   \* the maps of the limiters, with the buckets they point to
    call,      \* call[p]: the request p handles, or its answer to the last one
    passed     \* history: when limiter l last let client c pass

vars == <<now, entries, call, passed>>

Idle(answer) == [at |-> "idle", answer |-> answer]
Never == -1

\* Every request passes the global limiter, some a path's after it.
Chains == {<<"global">>} \cup {<<"global", l>> : l \in Paths}

\* What a request has still to pass.
Routes == Chains \cup {<<l>> : l \in Paths}

Entry == [limiter : Limiters, client : Clients, seen : Nat, level : Nat, last : Nat]

Call == {Idle(answer) : answer \in {"none", "passed", "refused"}}
    \cup [at : {"lookup"}, client : Clients, chain : Routes]
    \cup [at : {"allow"}, client : Clients, chain : Routes, since : Nat]

TypeOK ==
    /\ now \in Nat
    /\ entries \subseteq Entry
    /\ call \in [Procs -> Call]
    /\ passed \in [Limiters \X Clients -> Nat \cup {Never}]

Init ==
    /\ now = 0
    /\ entries = {}
    /\ call = [p \in Procs |-> Idle("none")]
    /\ passed = [x \in Limiters \X Clients |-> Never]

Of(l, c) == {e \in entries : e.limiter = l /\ e.client = c}

-----------------------------------------------------------------------------
Arrive(p, c, chain) ==
    /\ call[p].at = "idle"
    /\ call' = [call EXCEPT ![p] = [at |-> "lookup", client |-> c, chain |-> chain]]
    /\ UNCHANGED <<now, entries, passed>>

\* A new bucket without tokens in it.
NewEmptyEntry(l, c) == [limiter |-> l, client |-> c, seen |-> now,
                        level |-> 0, last |-> now]

NewEntry(l, c) == [limiter |-> l, client |-> c, seen |-> now,
                   level |-> Burst[l] * Minute, last |-> now]

\* A lookup that leaves lastSeen at the creation of the entry.
LookupKeepingSeen(p) ==
    LET q == call[p]  l == Head(q.chain)  known == Of(l, q.client) IN
    /\ q.at = "lookup"
    /\ entries' = IF known = {} THEN entries \cup {NewEntry(l, q.client)} ELSE entries
    /\ call' = [call EXCEPT ![p] = [at |-> "allow", client |-> q.client,
                                    chain |-> q.chain, since |-> now]]
    /\ UNCHANGED <<now, passed>>

\* allow() under the mutex: the entry is found or made, and seen now.
Lookup(p) ==
    LET q == call[p]  l == Head(q.chain)  known == Of(l, q.client) IN
    /\ q.at = "lookup"
    /\ entries' = IF known = {} THEN entries \cup {NewEntry(l, q.client)}
                  ELSE (entries \ known) \cup {[e EXCEPT !.seen = now] : e \in known}
    /\ call' = [call EXCEPT ![p] = [at |-> "allow", client |-> q.client,
                                    chain |-> q.chain, since |-> now]]
    /\ UNCHANGED <<now, passed>>

\* What bucket e holds now.
Level(e) ==
    LET sum  == e.level + (now - e.last) * RPM[e.limiter]
        full == Burst[e.limiter] * Minute
    IN IF sum > full THEN full ELSE sum

HasToken(e) == Level(e) >= Minute

\* limiter.Allow() on the bucket the lookup returned.  A refusal leaves the
\* bucket alone and is answered with 429.
Allow(p) ==
    LET q == call[p]  x == <<Head(q.chain), q.client>> IN
    /\ q.at = "allow"
    /\ \E e \in Of(x[1], x[2]) :
          \/ /\ HasToken(e)
             /\ entries' = (entries \ {e}) \cup
                   {[e EXCEPT !.level = Level(e) - Minute, !.last = now]}
             /\ passed' = [passed EXCEPT ![x] = now]
             /\ call' = [call EXCEPT ![p] =
                   IF Len(q.chain) = 1 THEN Idle("passed")
                   ELSE [at |-> "lookup", client |-> q.client, chain |-> Tail(q.chain)]]
          \/ /\ ~HasToken(e)
             /\ call' = [call EXCEPT ![p] = Idle("refused")]
             /\ UNCHANGED <<entries, passed>>
    /\ UNCHANGED now

\* One limiter's Cleanup: entries last seen before now - TTL go.
Cleanup(l) ==
    /\ entries' = {e \in entries : ~(e.limiter = l /\ e.seen < now - TTL)}
    /\ UNCHANGED <<now, call, passed>>

\* Nothing blocks between the unlock and Allow().
Tick ==
    /\ now < MaxTime
    /\ \A p \in Procs : call[p].at = "allow" => now < call[p].since + MaxStall
    /\ now' = now + 1
    /\ UNCHANGED <<entries, call, passed>>

Next ==
    \/ \E p \in Procs, c \in Clients, chain \in Chains : Arrive(p, c, chain)
    \/ \E p \in Procs : Lookup(p) \/ Allow(p)
    \/ \E l \in Limiters : Cleanup(l)
    \/ Tick

Spec == Init /\ [][Next]_vars

-----------------------------------------------------------------------------
(***************************************************************************)
(* Properties.                                                             *)
(***************************************************************************)

\* What a limiter promises its clients: a client is refused only if this limiter
\* let it pass less than a token's time ago.
Earned(l, c) == passed[<<l, c>>] # Never /\ (now - passed[<<l, c>>]) * RPM[l] < Minute

\* "NewIPRateLimiter creates a limiter that allows burst requests per IP with a
\* sustained rate of rps requests per second" (ratelimit.go:27-28), whatever rate
\* the configuration accepts.  Refuted for RATE_LIMIT_GLOBAL_RPM of 1 to 3: the
\* burst of the global limiter is a quarter of it in integers, 0, and the first
\* request of a client is refused.
SustainedRate ==
    [][\A p \in Procs : call[p].at = "allow" /\ call'[p] = Idle("refused") =>
          Earned(Head(call[p].chain), call[p].client)]_vars

\* What the code keeps of it for every configuration: but for a limiter whose
\* burst is 0, a client is refused only if this limiter let it pass less than a
\* token's time ago.  Eviction, a new bucket and other requests between lookup and
\* Allow() never refuse a client that stays below the rate.
NoUnearnedRefusal ==
    [][\A p \in Procs : call[p].at = "allow" /\ call'[p] = Idle("refused") =>
          \/ Burst[Head(call[p].chain)] = 0
          \/ Earned(Head(call[p].chain), call[p].client)]_vars

\* What becomes of the others: nobody ever passes a limiter whose burst is 0,
\* however slowly the requests come.
EmptyBurstPassesNobody ==
    \A l \in Limiters, c \in Clients : Burst[l] = 0 => passed[<<l, c>>] = Never

\* The buckets that last for ever: one that is not in the map is full.
levels ==
    [x \in Limiters \X Clients |->
        IF Of(x[1], x[2]) = {} THEN Burst[x[1]] * Minute
        ELSE Level(CHOOSE e \in Of(x[1], x[2]) : TRUE)]

requests ==
    [p \in Procs |->
        IF call[p].at = "idle" THEN [answer |-> call[p].answer, chain |-> <<>>]
        ELSE [client |-> call[p].client, chain |-> call[p].chain]]

Buckets == INSTANCE RateLimits WITH level <- levels, request <- requests

\* The map of buckets with its eviction answers every request as buckets that
\* last for ever would: dropping an idle client's bucket, also while a request
\* is between lookup and Allow(), gives nobody a token.
ImplementsBuckets == Buckets!Spec

\* What the proofs add.  A client has one entry in a limiter; its bucket was used
\* at most MaxStall after the entry was last seen.
BucketsAreSound ==
    /\ \A e, f \in entries : e.limiter = f.limiter /\ e.client = f.client => e = f
    /\ \A e \in entries : /\ e.level <= Burst[e.limiter] * Minute
                          /\ e.seen <= now /\ e.last <= now
                          /\ e.last <= e.seen + MaxStall

\* The entry whose bucket a request holds is still in the map: it was seen less
\* than TTL ago.
HeldBucketsStay ==
    \A p \in Procs : call[p].at = "allow" =>
        /\ call[p].since <= now /\ now <= call[p].since + MaxStall
        /\ \E e \in Of(Head(call[p].chain), call[p].client) : call[p].since <= e.seen

\* A bucket is as it was made, or was last used when the client passed last.
PassesAreKnown ==
    \A e \in entries :
        \/ e.level = Burst[e.limiter] * Minute
        \/ passed[<<e.limiter, e.client>>] # Never /\ e.last = passed[<<e.limiter, e.client>>]

IInv ==
    /\ TypeOK
    /\ BucketsAreSound
    /\ HeldBucketsStay
    /\ PassesAreKnown
=============================================================================
