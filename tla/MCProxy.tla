------------------------------ MODULE MCProxy ------------------------------
(* The three users of TLS connections in the proxy's loop, each on its own:  *)
(* a TCP connection, the UDP server, the idle pool.  The UDP server is       *)
(* followed in two scenes: "one" source over connections in every stage of   *)
(* their handshakes, whose server answers; "two" sources that share a target *)
(* over connections that are ready.                                          *)
EXTENDS ProxyUdp

CONSTANTS
    s1, s2, d1, d2, i1, i2,
    MaxUp, MaxDown,                                 \* ProxyTcp
    Size, MaxIndex, Addrs, MaxMoves, MaxLookups     \* IdlePool

ASSUME BoundsAssumption ==
    /\ {MaxUp, MaxDown, MaxMoves, MaxIndex} \subseteq Nat /\ IsFiniteSet(Addrs)
    /\ {Size, MaxLookups} \subseteq Nat \ {0} /\ MaxIndex > 2 * Size

VARIABLES
    part,
    conn, tcpEv, tcpBatch, tcpPolling, tcpRemoved, gone, timedOut,
    upSent, downSent, clientGot, serverGot,
    pool, addr, real, moves, asked, looked, answers, poolEv, poolBatch, poolPolling

T == INSTANCE ProxyTcp WITH
        c <- conn, ev <- tcpEv, batch <- tcpBatch, polling <- tcpPolling, removed <- tcpRemoved
P == INSTANCE IdlePool WITH ev <- poolEv, batch <- poolBatch, polling <- poolPolling

tcp == <<conn, tcpEv, tcpBatch, tcpPolling, tcpRemoved, gone, timedOut,
         upSent, downSent, clientGot, serverGot>>
idle == <<pool, addr, real, moves, asked, looked, answers, poolEv, poolBatch, poolPolling>>
all == <<part, vars, tcp, idle>>

TcpTurn(A) == part = "tcp" /\ A /\ UNCHANGED <<part, vars, idle>>
PoolTurn(A) == part = "pool" /\ A /\ UNCHANGED <<part, vars, tcp>>
UdpTurn(A) == (part = "one" \/ part = "two") /\ A /\ UNCHANGED <<part, tcp, idle>>
OneTurn(A) == part = "one" /\ UdpTurn(A)

\* The scenes of the UDP server.
Scene ==
    /\ part = "one" => table \subseteq {i1} /\ \A k \in 1 .. Len(inq) : inq[k][1] = s1
    /\ part = "two" => /\ \A i \in table : c[i].tls = "done" /\ c[i].sin = <<>>
                       /\ \A k \in 1 .. Len(inq) : inq[k][2] = d1

MCInit ==
    /\ part \in {"tcp", "pool", "one", "two"} /\ Init /\ T!Init /\ P!Init
    /\ part # "tcp" => conn.tls = "done"
    /\ part # "pool" => addr = CHOOSE a \in Addrs : TRUE

MCNext == TcpTurn(T!Next) \/ PoolTurn(P!Next) \/ (UdpTurn(Next) /\ Scene')

\* As in LoopRuns of the three modules: only a loop changes these, and it always
\* has a step to take, but for those of TCP and UDP without an event.
loops == <<tcpPolling, tcpBatch, polling, batch, poolPolling, poolBatch>>
NoEvents ==
    \/ part = "tcp" /\ tcpPolling /\ tcpEv = {}
    \/ part = "one" /\ polling /\ ev = {}
    \/ part = "two"

\* The fairness of T!FairSpec, P!FairSpec and SendingSpec.  The part never
\* changes, so that one condition can speak for an action of each.
MCSpec ==
    /\ MCInit /\ [][MCNext]_all
    /\ []<><<loops' # loops>>_all \/ []<>NoEvents
    /\ WF_all(TcpTurn(T!ServerConnect) \/ OneTurn(ServerConnect(i1)) \/ PoolTurn(P!SendAnswer))
    /\ WF_all(TcpTurn(T!ServerHello) \/ OneTurn(ServerHello(i1)))
    /\ WF_all(TcpTurn(T!ServerRecv) \/ OneTurn(ServerRecv(i1)))
    /\ WF_all(TcpTurn(T!ClientRecv) \/ OneTurn(Quiet(i1)))
    /\ WF_all(OneTurn(ClientSend(s1)) /\ Scene')
    /\ SF_all(PoolTurn(P!LookUp /\ looked'[real] > looked[real]))

-----------------------------------------------------------------------------
(* Properties: the components' *)

\* A TCP connection passes both streams on in order, the request head first, through
\* partial writes and a handshake that may still be under way; a side that closes
\* after its last byte loses nothing.
TcpInOrder == T!StreamsInOrder /\ T!Flushed

\* The UDP server sends a datagram to the source that owns the connection and in the
\* name of the address in its frame, however the frame is cut; the socket it uses is
\* not dropped from the cache while a connection answers through it.
UdpInName == AnsweredInName /\ SocketsShared

\* The idle pool never holds, and so never hands out, a connection it knows to be
\* closed, whatever order check_timeout removes them in, and no more than its size.
PoolNoneClosed == P!NoneClosed

\* Edges are reported once.  Whatever a handler of the three leaves unread or unsent
\* has an event to come that resumes it.
NoLostWakeup == NoStall /\ T!NoStall /\ P!NoStall

\* A TCP connection delivers, and is removed once a side has closed; a source that
\* goes on sending gets rid of a dead connection.
NothingStuck ==
    /\ part = "tcp" => T!UpDelivered /\ T!ClosedIsRemoved
    /\ part = "one" => DeadEndLeft

\* If the server moves and connects to its old address keep failing at once, the pool
\* finds the new one, although look-ups overtake each other and an older answer may be
\* applied last.  A connect that fails later, with an event, asks for no address.
PoolFollows == part = "pool" => P!AddrFollows
=============================================================================
