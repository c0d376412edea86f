------------------------------- MODULE MCPing -------------------------------
(* The two ends of the PING protocol of the mio programs, each on its own:    *)
(* the profiler of the proxy, and a connection of the server.                 *)
EXTENDS NetProfiler

CONSTANTS i1, i2, MaxAsk, SockCap

ASSUME BoundsAssumption ==
    {MaxAsk, SockCap} \subseteq Nat \ {0} /\ Ips \cap {"stop", "badType", "unspecified"} = {}

VARIABLES part, c, asked, cend, edge, turn, gone, routine, checks, got

S == INSTANCE PingConn

server == <<c, asked, cend, edge, turn, gone, routine, checks, got>>
all == <<part, vars, server>>

ServerTurn(A) == part = "server" /\ A /\ UNCHANGED <<part, vars>>
NetTurn(A) == part = "net" /\ A /\ UNCHANGED <<part, server>>

\* The order in which the profiler's map iterates.
FirstSecond == <<i1, i2>>

Ends(i) == i \in checking /\ LocalResult /\ i \notin checking'
Ages(i) == set[i].known /\ Age /\ set'[i] # set[i]

MCInit == part \in {"server", "net"} /\ Init /\ S!Init
MCNext == ServerTurn(S!Next) \/ NetTurn(Next)

\* The fairness of FairSpec and S!FairSpec.  The part never changes, so that one
\* condition can speak for an action of each.
MCSpec ==
    /\ MCInit /\ [][MCNext]_all
    /\ []<><<S!LoopMoves>>_all \/ []<>(part = "net" \/ S!LoopRests)
    /\ WF_all(ServerTurn(S!Routine) \/ NetTurn(Ends(i1)))
    /\ WF_all(ServerTurn(S!RoutineStarts) \/ NetTurn(Ends(i2)))
    /\ WF_all(ServerTurn(S!ClientRead) \/ NetTurn(Ages(i1)))
    /\ WF_all(NetTurn(Ages(i2)))
    /\ WF_all(NetTurn(Update)) /\ WF_all(NetTurn(Ready)) /\ SF_all(NetTurn(ServerAnswer))

-----------------------------------------------------------------------------
(* Properties: the components' *)

\* The ping backend of the server (PingConn): while both ends are open every address
\* that do_send has taken is on its way through the check thread's channels or
\* answered, once each; a backend that is shut down has told its thread to stop.
PingAccounted == S!EveryRequestAccounted /\ S!RoutineTold

\* Requests that the ping backend has taken are all answered again and again,
\* although poll_ping only runs after the loop's other work and answers are cached
\* while the session is full; a dead check thread and a closing end set aside.
PingAnswered == part = "server" => S!Answered

\* The proxy's profiler (NetProfiler): an address that check asks about is decided on
\* in the end, although requests and answers are lost with their connection and one
\* update handles the last group of each kind only.
PingDecided == part = "net" => AskedIsDecided
=============================================================================
