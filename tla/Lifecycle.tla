----------------------------- MODULE Lifecycle -----------------------------
(***************************************************************************)
(* The processes of the system from start to end: configuration, start-up  *)
(* checks, listeners, requests in flight from one service to the next,     *)
(* database connections, graceful shutdown, crash and restart.             *)
(*                                                                         *)
(* A request is a stack of frames: a handler of myaccount-bff that waits   *)
(* for a handler of identity-service has its frame below that one's.  What *)
(* the handlers do is in the other modules; here a handler has some work   *)
(* left, statements or transactions in the services with a database and    *)
(* calls to identity-service in myaccount-bff.                             *)
(***************************************************************************)
EXTENDS Integers, FiniteSets, Sequences

CONSTANTS
    Clients,       \* browsers and services, one request each at a time
    Unset, Junk,   \* a setting that is empty, or not a number
    Environments,  \* the environments a deployment may have
    MaxWork,       \* bound: work of a handler
    MaxFaults      \* bound: outages, signals and crashes

VARIABLES
    env,     \* env[s]: the environment variables of process s
    at,      \* at[s]: the phase of s, and the step it is at in that phase
    open,    \* the servers that accept requests
    up,      \* the dependencies that can be reached
    calls,   \* calls[c]: the frames of the request of c
    lent,    \* lent[s]: the connections the pool of s counts as in use
    faults   \* how often something went wrong

lifecycle == <<env, at, open, up, calls, lent, faults>>

Processes == {"identity", "bff", "blob"}
Dependencies == {"db", "google", "redis", "blobdb"}
Servers == {<<"identity", "grpc">>, <<"identity", "http">>, <<"bff", "http">>, <<"blob", "grpc">>}
Pools == {"identity", "blob"}
Store == [identity |-> "db", bff |-> "redis", blob |-> "blobdb"]

-----------------------------------------------------------------------------
(***************************************************************************)
(* Configuration: a process whose environment does not load never starts.  *)
(* The settings are those the model tells apart: whether every variable    *)
(* that is required is there and valid, the identity providers, and the    *)
(* size of the connection pool.                                            *)
(***************************************************************************)
Invalid == Junk

\* 0 stands for the default.
LoadBoundedInt(raw, default, min, max) ==
    LET val == IF raw \in {Unset, 0} THEN default ELSE raw
    IN  IF raw = Junk \/ val \notin min..max THEN Invalid ELSE val

\* blob-service: no bounds, and 0 is 0.
LoadInt(raw, default) ==
    IF raw = Unset THEN default ELSE IF raw = Junk THEN Invalid ELSE raw

Settings == [complete : BOOLEAN, idps : SUBSET {"google", "github"}, conns : Int \cup {Unset, Junk}]

ASSUME LifecycleAssumption ==
    /\ {MaxWork, MaxFaults} \subseteq Nat
    /\ Unset \notin Int /\ Junk \notin Int /\ Unset # Junk
    /\ Environments \subseteq [Processes -> Settings]

IdentityLoads(e) ==
    /\ e.complete /\ e.idps # {}
    /\ LoadBoundedInt(e.conns, 25, 1, 500) # Invalid
BFFLoads(e) == e.complete
BlobLoads(e) == e.complete /\ LoadInt(e.conns, 25) # Invalid

Loads(s) ==
    CASE s = "identity" -> IdentityLoads(env[s])
      [] s = "bff"      -> BFFLoads(env[s])
      [] s = "blob"     -> BlobLoads(env[s])

PoolSize(s) ==
    IF s = "identity" THEN LoadBoundedInt(env[s].conns, 25, 1, 500) ELSE LoadInt(env[s].conns, 25)

-----------------------------------------------------------------------------
(***************************************************************************)
(* Start-up and shutdown, step by step.                                    *)
(***************************************************************************)
Need(d) == <<"need", d>>
Open(l) == <<"open", l>>

\* A start-up that discovers its own issuer before it serves it.
SelfDiscovery ==
    << Need("db"), Need("identity"), Open("grpc") >>
        \o (IF "google" \in env["identity"].idps THEN << Need("google") >> ELSE << >>)
        \o << Open("http") >>

\* The database answers, gRPC is served, Google (where it is configured) is
\* discovered, HTTP is served.
IdentityStartup ==
    << Need("db"), Open("grpc") >>
        \o (IF "google" \in env["identity"].idps THEN << Need("google") >> ELSE << >>)
        \o << Open("http") >>

\* Redis answers and the issuer is discovered; the connection to its gRPC is
\* made when it is used.
BFFStartup == << Need("redis"), Need("identity"), Open("http") >>

BlobStartup == << Need("identity"), Need("blobdb"), Open("grpc") >>

Startup(s) ==
    CASE s = "identity" -> IdentityStartup
      [] s = "bff"      -> BFFStartup
      [] s = "blob"     -> BlobStartup

\* The servers a process stops, in this order.
Shutdown == [identity |-> <<"grpc", "http">>, bff |-> <<"http">>, blob |-> <<"grpc">>]

Available(d) == IF d = "identity" THEN <<"identity", "http">> \in open ELSE d \in up

Phase == {"off", "start", "serve", "stop"}

\* A handler: the server it runs in, what it has to do, the connections it holds.
Frame == [server : Servers, work : 0..MaxWork, conns : 0..1]

Process(f) == f.server[1]
Top(c) == calls[c][Len(calls[c])]
Below(c) == SubSeq(calls[c], 1, Len(calls[c]) - 1)
Frames == UNION {{<<c, i>> : i \in DOMAIN calls[c]} : c \in Clients}
InServer(l) == {x \in Frames : calls[x[1]][x[2]].server = l}
Holders(s) == {x \in Frames : Process(calls[x[1]][x[2]]) = s /\ calls[x[1]][x[2]].conns > 0}

\* database/sql: a connection is asked for, and is given back.
PoolHasOne(s) == PoolSize(s) > 0 => lent[s] < PoolSize(s)
Lend(s)       == lent' = [lent EXCEPT ![s] = @ + 1]
TakeBack(s)   == lent' = [lent EXCEPT ![s] = @ - 1]

LifecycleTypeOK ==
    /\ env \in [Processes -> Settings]
    /\ at \in [Processes -> [phase : Phase, step : 0..5]]
    /\ open \subseteq Servers
    /\ up \subseteq Dependencies
    /\ calls \in [Clients -> Seq(Frame)]
    /\ lent \in [Pools -> Int]
    /\ faults \in 0..MaxFaults

Phased(phase, step) == [phase |-> phase, step |-> step]

LifecycleInit ==
    /\ env \in Environments
    /\ at = [s \in Processes |-> Phased("off", 0)]
    /\ open = {}
    /\ up = Dependencies
    /\ calls = [c \in Clients |-> << >>]
    /\ lent = [s \in Pools |-> 0]
    /\ faults = 0

\* A supervisor starts the process (again).
Launch(s) ==
    /\ at[s].phase = "off"
    /\ Loads(s)
    /\ at' = [at EXCEPT ![s] = Phased("start", 0)]
    /\ UNCHANGED <<env, open, up, calls, lent, faults>>

StartStep(s) ==
    LET next == at[s].step + 1 IN
    /\ at[s].phase = "start"
    /\ LET step == Startup(s)[next] IN
       /\ step[1] = "need" => Available(step[2])
       /\ open' = open \cup (IF step[1] = "open" THEN {<<s, step[2]>>} ELSE {})
    /\ at' = [at EXCEPT ![s] = IF next = Len(Startup(s)) THEN Phased("serve", 0)
                               ELSE Phased("start", next)]
    /\ UNCHANGED <<env, up, calls, lent, faults>>

\* What the end of s leaves of a request: nothing, if s had accepted it, or the
\* handlers that were waiting for s, which get an error.
Remains(c, s) ==
    LET own == {i \in DOMAIN calls[c] : Process(calls[c][i]) = s}
        k   == (CHOOSE i \in own : \A j \in own : i <= j) - 1
    IN  IF own = {} THEN calls[c]
        ELSE IF k = 0 THEN << >>
        ELSE [SubSeq(calls[c], 1, k) EXCEPT ![k].work = 0]

\* The pool of s goes with it.  A handler whose caller was in s is cancelled and has
\* its transaction rolled back.
Exit(s) ==
    /\ at' = [at EXCEPT ![s] = Phased("off", 0)]
    /\ open' = {l \in open : l[1] # s}
    /\ calls' = [c \in Clients |-> Remains(c, s)]
    /\ lent' = [t \in Pools |->
                   IF t = s THEN 0
                   ELSE lent[t] - Cardinality({x \in Holders(t) : x[2] > Len(Remains(x[1], s))})]
    /\ UNCHANGED <<env, up>>

\* os.Exit(1), with the gRPC server running already perhaps.
StartFails(s) ==
    /\ at[s].phase = "start"
    /\ LET step == Startup(s)[at[s].step + 1] IN step[1] = "need" /\ ~Available(step[2])
    /\ Exit(s)
    /\ UNCHANGED faults

\* A shutdown that waits for the requests of a server it has not closed.
StopLeavingOpen(s, k) ==
    /\ at' = [at EXCEPT ![s] = Phased("stop", k)]
    /\ UNCHANGED open

\* GracefulStop and Shutdown close the listener and then wait.
StopServer(s, k) ==
    /\ at' = [at EXCEPT ![s] = Phased("stop", k)]
    /\ open' = open \ {<<s, Shutdown[s][k]>>}

\* SIGTERM, once the process listens for it.
Signal(s) ==
    /\ faults < MaxFaults
    /\ at[s].phase = "serve"
    /\ StopServer(s, 1)
    /\ faults' = faults + 1
    /\ UNCHANGED <<env, up, calls, lent>>

\* The server's last request has been answered.
Drained(s) ==
    /\ at[s].phase = "stop"
    /\ InServer(<<s, Shutdown[s][at[s].step]>>) = {}
    /\ IF at[s].step < Len(Shutdown[s])
         THEN StopServer(s, at[s].step + 1) /\ UNCHANGED <<env, up, calls, lent>>
         ELSE Exit(s)
    /\ UNCHANGED faults

\* A shutdown without a deadline.
ExitWhenIdle(s) ==
    /\ at[s].phase = "stop"
    /\ Shutdown[s][at[s].step] = "http"
    /\ InServer(<<s, "http">>) = {}
    /\ Exit(s)
    /\ UNCHANGED faults

\* An HTTP server has 15 seconds; GracefulStop has no limit.
ForcedExit(s) ==
    /\ at[s].phase = "stop"
    /\ Shutdown[s][at[s].step] = "http"
    /\ InServer(<<s, "http">>) # {}
    /\ Exit(s)
    /\ UNCHANGED faults

\* A panic, SIGKILL, or SIGTERM during start-up.
Crash(s) ==
    /\ faults < MaxFaults
    /\ at[s].phase # "off"
    /\ Exit(s)
    /\ faults' = faults + 1

Outage(d) ==
    /\ faults < MaxFaults
    /\ d \in up
    /\ up' = up \ {d}
    /\ faults' = faults + 1
    /\ UNCHANGED <<env, at, open, calls, lent>>

Recover(d) ==
    /\ d \notin up
    /\ up' = up \cup {d}
    /\ UNCHANGED <<env, at, open, calls, lent, faults>>

-----------------------------------------------------------------------------
(***************************************************************************)
(* Requests.                                                               *)
(***************************************************************************)
Push(c, stack, l) ==
    /\ l \in open
    /\ \E w \in 0..MaxWork :
          calls' = [calls EXCEPT ![c] = Append(stack, [server |-> l, work |-> w, conns |-> 0])]

SetTop(c, f) == calls' = [calls EXCEPT ![c] = Append(Below(c), f)]

\* The gRPC API of identity-service is used by myaccount-bff only.
Arrive(c, l) ==
    /\ calls[c] = << >>
    /\ l # <<"identity", "grpc">>
    /\ Push(c, << >>, l)
    /\ UNCHANGED <<env, at, open, up, lent, faults>>

\* A request of myaccount-bff refreshes its tokens (HTTP) or uses the account API
\* (gRPC), without a deadline of its own.
CallIdentity(c, l) ==
    /\ calls[c] # << >>
    /\ Process(Top(c)) = "bff" /\ Top(c).work > 0
    /\ IF <<"identity", l>> \in open
         THEN Push(c, Append(Below(c), [Top(c) EXCEPT !.work = @ - 1]), <<"identity", l>>)
         ELSE SetTop(c, [Top(c) EXCEPT !.work = 0])
    /\ UNCHANGED <<env, at, open, up, lent, faults>>

\* A statement or transaction waits for a connection of the pool.
Begin(c) ==
    /\ calls[c] # << >>
    /\ Top(c).work > 0 /\ Top(c).conns = 0
    /\ LET s == Process(Top(c)) IN s \in Pools /\ PoolHasOne(s) /\ Lend(s)
    /\ SetTop(c, [Top(c) EXCEPT !.conns = 1])
    /\ UNCHANGED <<env, at, open, up, faults>>

\* A transaction that runs a query outside itself, on a second connection.
EndWithSecond(c) ==
    /\ calls[c] # << >>
    /\ Top(c).conns = 1
    /\ LET s == Process(Top(c)) IN Store[s] \in up /\ PoolHasOne(s) /\ TakeBack(s)
    /\ SetTop(c, [Top(c) EXCEPT !.conns = 0, !.work = @ - 1])
    /\ UNCHANGED <<env, at, open, up, faults>>

\* It commits and gives the connection back; the deferred Rollback then finds the
\* transaction done and gives nothing back.
End(c) ==
    /\ calls[c] # << >>
    /\ Top(c).conns = 1
    /\ LET s == Process(Top(c)) IN Store[s] \in up /\ TakeBack(s)
    /\ SetTop(c, [Top(c) EXCEPT !.conns = 0, !.work = @ - 1])
    /\ UNCHANGED <<env, at, open, up, faults>>

\* An early return that leaves the transaction open.
ReturnWithoutRollback(c) ==
    /\ calls[c] # << >>
    /\ Top(c).conns = 1
    /\ SetTop(c, [Top(c) EXCEPT !.conns = 0, !.work = 0])
    /\ UNCHANGED <<env, at, open, up, lent, faults>>

\* A statement fails or finds what ends the transaction with an error: the deferred
\* Rollback gives the connection back.
Rollback(c) ==
    /\ calls[c] # << >>
    /\ Top(c).conns = 1
    /\ TakeBack(Process(Top(c)))
    /\ SetTop(c, [Top(c) EXCEPT !.conns = 0, !.work = 0])
    /\ UNCHANGED <<env, at, open, up, faults>>

\* A store that cannot be reached makes the handler fail, or hang: no statement
\* has a deadline.
StoreFails(c) ==
    /\ calls[c] # << >>
    /\ Top(c).work > 0 /\ Top(c).conns = 0
    /\ Store[Process(Top(c))] \notin up
    /\ SetTop(c, [Top(c) EXCEPT !.work = 0])
    /\ UNCHANGED <<env, at, open, up, lent, faults>>

\* The answer goes to the client, or to the handler below.
Reply(c) ==
    /\ calls[c] # << >>
    /\ Top(c).work = 0 /\ Top(c).conns = 0
    /\ calls' = [calls EXCEPT ![c] = Below(c)]
    /\ UNCHANGED <<env, at, open, up, lent, faults>>

\* The client goes away: the contexts of all its handlers are cancelled, and their
\* transactions rolled back.
Abandon(c) ==
    /\ calls[c] # << >>
    /\ calls' = [calls EXCEPT ![c] = << >>]
    /\ lent' = [s \in Pools |-> lent[s] - Cardinality({x \in Holders(s) : x[1] = c})]
    /\ UNCHANGED <<env, at, open, up, faults>>

-----------------------------------------------------------------------------
LifecycleNext ==
    \/ \E s \in Processes :
          Launch(s) \/ StartStep(s) \/ StartFails(s) \/ Signal(s) \/ Drained(s)
            \/ ForcedExit(s) \/ Crash(s)
    \/ \E d \in Dependencies : Outage(d) \/ Recover(d)
    \/ \E c \in Clients :
          \/ \E l \in Servers : Arrive(c, l)
          \/ \E l \in {"http", "grpc"} : CallIdentity(c, l)
          \/ Begin(c) \/ End(c) \/ Rollback(c) \/ StoreFails(c) \/ Reply(c) \/ Abandon(c)

LifecycleSpec == LifecycleInit /\ [][LifecycleNext]_lifecycle

\* What a process does by itself, and a handler.
Run(s) == Launch(s) \/ StartStep(s) \/ StartFails(s) \/ Drained(s) \/ ForcedExit(s)
Work(c) ==
    (\E l \in {"http", "grpc"} : CallIdentity(c, l)) \/ Begin(c) \/ End(c) \/ Reply(c)

\* Processes are restarted, run, and let the deadline of a shutdown pass; handlers
\* run while their store can be reached, and a pool serves whoever waits in turn
\* (hence SF).  Nothing makes a dependency recover.
FairSpec ==
    /\ LifecycleSpec
    /\ \A s \in Processes : WF_lifecycle(Run(s))
    /\ \A c \in Clients : SF_lifecycle(Work(c))

-----------------------------------------------------------------------------
(***************************************************************************)
(* Properties.                                                             *)
(***************************************************************************)
AllUp == up = Dependencies

\* What a pool counts as in use is in the hands of a handler that runs: a connection
\* goes back once, however its transaction ends (commit, error, cancelled by the client
\* or by the end of the calling process), and none is left behind.
PoolsGetBackWhatTheyLend ==
    \A s \in Pools : lent[s] = Cardinality(Holders(s))

\* A shutdown that is not forced loses no request, of whichever server: the one
\* drained first accepts none while the next is drained (main, GracefulStop before
\* Shutdown).
DrainLosesNothing ==
    [][\A s \in Processes : Drained(s) => calls' = calls]_lifecycle

\* Once the HTTP server is being shut down the process ends, even if handlers
\* hang on a store that never answers again.
HTTPShutdownEnds ==
    \A s \in {"identity", "bff"} :
        at[s] = Phased("stop", Len(Shutdown[s])) ~> at[s].phase = "off"

\* While the dependencies stay up every request ends, however many compete for
\* however small a pool, and whichever process is restarted meanwhile: no handler
\* holds one connection and waits for another, or for a process that waits for it.
EveryRequestEnds ==
    \A c \in Clients : calls[c] # << >> ~> calls[c] = << >> \/ ~AllUp

\* While the dependencies stay up every process comes to serve if its environment
\* loads and that of identity-service, which the others discover: in whatever order
\* they are started or ended, no start-up waits for itself.
EveryProcessServes ==
    \A s \in Processes :
        Loads(s) /\ Loads("identity") ~> at[s].phase = "serve" \/ ~AllUp

(***************************************************************************)
(* The invariant the proofs use (ServiceProofs).                           *)
(***************************************************************************)

\* A handler of myaccount-bff may wait for one of identity-service, which waits for
\* no other handler; who holds a connection has work to do with it.
StackOK(stack) ==
    /\ Len(stack) <= 2
    /\ Len(stack) = 2 => Process(stack[1]) = "bff" /\ Process(stack[2]) = "identity"
    /\ \A i \in DOMAIN stack :
          /\ stack[i].conns > 0 => stack[i].work > 0
          /\ Process(stack[i]) = "bff" => stack[i].conns = 0

\* The phase of a process and the step it is at.
Stages ==
    \A s \in Processes :
        /\ at[s].phase # "off" => Loads(s)
        /\ at[s].phase = "start" => at[s].step < Len(Startup(s))
        /\ at[s].phase = "stop" => at[s].step \in 1..Len(Shutdown[s])

Vacant(l) == \A c \in Clients : \A i \in DOMAIN calls[c] : calls[c][i].server # l

\* A process that is off accepts and handles nothing.
OffIsSilent ==
    \A s \in Processes, l \in Servers :
        at[s].phase = "off" /\ l[1] = s => l \notin open /\ Vacant(l)

\* A process that stops has closed the servers up to the one it is at, and those
\* before it are empty: none is opened again.
ClosedInOrder ==
    \A s \in Processes :
        at[s].phase = "stop" =>
            \A j \in 1..at[s].step :
                /\ <<s, Shutdown[s][j]>> \notin open
                /\ j < at[s].step => Vacant(<<s, Shutdown[s][j]>>)

LifecycleInv ==
    /\ LifecycleTypeOK
    /\ \A c \in Clients : StackOK(calls[c])
    /\ Stages
    /\ OffIsSilent
    /\ ClosedInOrder
    /\ \A s \in Pools : IsFiniteSet(Holders(s))
    /\ PoolsGetBackWhatTheyLend
=============================================================================
