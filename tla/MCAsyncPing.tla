---------------------------- MODULE MCAsyncPing -----------------------------
(* The two ends of the PING protocol of the async programs, each on its own:  *)
(* the profiler of the proxy, and the tasks of the server.                    *)
EXTENDS Profiler

CONSTANTS left, mid, right, PingIps, Clients, BadIp, NAsks

ASSUME PingAssumption == BadIp \notin PingIps /\ NAsks \in Nat

VARIABLES part, script, stream, reqs, cached, senders, checks, results

S == INSTANCE APing WITH Ips <- PingIps

server == <<script, stream, reqs, cached, senders, checks, results>>
all == <<part, vars, server>>

\* The map's order: the middle address, which is not to be bypassed, parts the other
\* two into groups of their own.
Parted == <<left, mid, right>>

MCInit ==
    /\ part \in {"server", "profiler"} /\ Init /\ S!Init
    /\ part # "profiler" => conn = "up"
    /\ part # "server" => \A c \in Clients, k \in 1 .. NAsks : script[c][k] = CHOOSE i \in PingIps : TRUE

MCNext ==
    \/ part = "server" /\ S!Next /\ UNCHANGED <<part, vars>>
    \/ part = "profiler" /\ Next /\ UNCHANGED <<part, server>>

MCSpec == MCInit /\ [][MCNext]_all

-----------------------------------------------------------------------------
(* Properties: the components' *)

\* The ping task of the async server (APing): one check runs for each address
\* somebody waits for, however many clients ask and whatever the cache holds, and
\* every request a stream has brought is answered, on the way or waiting, once.
AsksAnswered == S!OneCheckEach /\ S!EveryAskAnswered

\* The profiler of the async proxy (Profiler): a lost connection always has somebody
\* left who will report it, and there are as many local results to come as entries
\* to decide on, so that a turn for each is still to come.
ProfilerGoesOn == ClosedNoticed /\ UndecidedHaveTurns
=============================================================================
