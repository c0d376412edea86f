------------------------------ MODULE MCWinTun ------------------------------
(* The two servers of the wintun proxy, which share nothing but the loop: TCP  *)
(* on its own, or UDP on its own.                                              *)
EXTENDS WinTunTcp

CONSTANTS Sources, Targets, HeaderLen, BodyLen, UdpSess, UdpSock, UdpRx, NPackets, MaxConns

ASSUME UdpAssumption ==
    HeaderLen \in Nat /\ BodyLen \in Nat /\ UdpSess \in Nat /\ UdpSock \in Nat /\ MaxConns \in Nat

VARIABLES part, at, rx, waiting, events, cur, handles, conns, byAddr, removed, counts

U == INSTANCE WinTunUdp WITH SessLimit <- UdpSess, SockCap <- UdpSock, RxCap <- UdpRx

udp == <<at, rx, waiting, events, cur, handles, conns, byAddr, removed, counts>>
all == <<part, vars, udp>>

TcpTurn(A) == part = "tcp" /\ A /\ UNCHANGED <<part, udp>>

MCInit == part \in {"tcp", "udp"} /\ Init /\ U!UInit
MCNext == TcpTurn(Next) \/ (part = "udp" /\ U!UNext /\ UNCHANGED <<part, vars>>)

MCSpec ==
    /\ MCInit /\ [][MCNext]_all
    /\ WF_all(TcpTurn(LoopStep)) /\ WF_all(TcpTurn(Ages)) /\ SF_all(TcpTurn(CheckTimeout))

-----------------------------------------------------------------------------
(* Properties: the components', with those of WinTunTcp *)

\* A socket of UdpServer outlives the connections that answer through it, as its
\* reference count says, and addr_map and conns name the same connections.
SocketsInUse == U!SocketOutlivesConns /\ U!UdpMapsAgree

\* local_to_remote logs how many bytes are left and caches them: after a partial
\* write it caches what the session has not taken, neither more nor less.
CacheIsRemaining == U!CacheIsRemaining
=============================================================================
