----------------------------- MODULE RateLimits -----------------------------
(***************************************************************************)
(* What per-client rate limiting promises: every limiter has one token     *)
(* bucket per client, for ever.  It starts full, fills at a steady rate,   *)
(* and a request passes if it finds a whole token in the bucket of each    *)
(* limiter on its route.  RateLimiter implements this with a map of        *)
(* buckets that are made on demand and evicted when idle.                  *)
(***************************************************************************)
EXTENDS Naturals, Sequences

CONSTANTS Clients, Procs, Limiters, Chains, Minute, RPM, Burst

VARIABLES
    level,    \* level[l, c]: what the bucket holds, in 1/Minute tokens
    request   \* request[p]: a client and the limiters still ahead, or an answer

vars == <<level, request>>

Answer(a) == [answer |-> a, chain |-> <<>>]
Full(l) == Burst[l] * Minute

Init ==
    /\ level = [x \in Limiters \X Clients |-> Full(x[1])]
    /\ request = [p \in Procs |-> Answer("none")]

Arrive(p, c, chain) ==
    /\ request[p].chain = <<>>
    /\ request' = [request EXCEPT ![p] = [client |-> c, chain |-> chain]]
    /\ UNCHANGED level

\* The limiter request p is at, and its client.
At(p) == <<Head(request[p].chain), request[p].client>>

Pass(p) ==
    /\ request[p].chain # <<>>
    /\ level[At(p)] >= Minute
    /\ level' = [level EXCEPT ![At(p)] = @ - Minute]
    /\ request' = [request EXCEPT ![p] =
           IF Len(@.chain) = 1 THEN Answer("passed")
           ELSE [client |-> @.client, chain |-> Tail(@.chain)]]

Refuse(p) ==
    /\ request[p].chain # <<>>
    /\ level[At(p)] < Minute
    /\ request' = [request EXCEPT ![p] = Answer("refused")]
    /\ UNCHANGED level

\* Any time may pass: every bucket fills by its rate, and never overflows.
Fill ==
    /\ level' = [x \in Limiters \X Clients |->
                   LET sum == level[x] + RPM[x[1]]
                   IN IF sum > Full(x[1]) THEN Full(x[1]) ELSE sum]
    /\ UNCHANGED request

Next ==
    \/ \E p \in Procs, c \in Clients, chain \in Chains : Arrive(p, c, chain)
    \/ \E p \in Procs : Pass(p) \/ Refuse(p)
    \/ Fill

Spec == Init /\ [][Next]_vars
=============================================================================
