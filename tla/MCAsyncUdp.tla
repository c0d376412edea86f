----------------------------- MODULE MCAsyncUdp -----------------------------
(* The UDP of the two async proxies, each on its own: that of the transparent *)
(* proxy, and that of the wintun proxy.                                       *)
EXTENDS AProxyUdp

CONSTANTS Sources, Targets, ChanCap, DataCap, CloseCap, NPackets, NAnswers, MaxSocks, MaxConns

ASSUME TunAssumption == ChanCap \in Nat \ {0}

VARIABLES
    part, main, dev, fresh, tunLocals, reqs, busy, socks, tunRemotes,
    dataCh, sockCh, closeCh, respCh, tally

W == INSTANCE AWinTunUdp WITH locals <- tunLocals, remotes <- tunRemotes

tun == <<main, dev, fresh, tunLocals, reqs, busy, socks, tunRemotes,
         dataCh, sockCh, closeCh, respCh, tally>>
all == <<part, vars, tun>>

ProxyTurn(A) == part = "proxy" /\ A /\ UNCHANGED <<part, tun>>
TunTurn(A) == part = "tun" /\ A /\ UNCHANGED <<part, vars>>

MCInit ==
    /\ part \in {"proxy", "tun"} /\ Init /\ W!WInit
    /\ part # "proxy" => \A c \in Ids : conn[c].src = CHOOSE s \in Srcs : TRUE
MCNext == ProxyTurn(Next) \/ TunTurn(W!WNext)

\* Nothing is fair but the tasks: as FairSpec of AProxyUdp, and for the wintun proxy
\* alike.  The dispatcher's select! does not pass over a notice for ever.
MCSpec ==
    /\ MCInit /\ [][MCNext]_all
    /\ WF_all(ProxyTurn(SendDone) \/ TunTurn(W!DispatchStep))
    /\ SF_all(ProxyTurn(HandleNotice) \/ TunTurn(W!DispatchClose))
    /\ \A c \in Ids :
        /\ WF_all(ProxyTurn(Connected(c) \/ ConnectFails(c)))
        /\ WF_all(ProxyTurn(Forward(c) \/ WriteFails(c))) /\ WF_all(ProxyTurn(QueueEnds(c)))
        /\ WF_all(ProxyTurn(FailedNotice(c))) /\ WF_all(ProxyTurn(ReaderNotice(c)))
    /\ WF_all(TunTurn(W!MainStep))
    /\ \A n \in 1 .. MaxSocks : WF_all(TunTurn(n \in DOMAIN socks /\ W!SocketStep(n)))
    /\ \A c \in 1 .. MaxConns :
        /\ WF_all(TunTurn(c \in DOMAIN tunRemotes /\ W!UpStep(c)))
        /\ WF_all(TunTurn(c \in DOMAIN tunRemotes /\ W!DownStep(c)))

-----------------------------------------------------------------------------
(* Properties: the components' *)

\* A task that ends tells its loop the source only.  When the loop reads the notice the
\* source's entry is still the connection that has ended, in run_udp of aproxy
\* (NoticeIsCurrent) as in run_udp_dispatch of awintun (RemoteNoticeIsCurrent).
NoticesAreCurrent == NoticeIsCurrent /\ W!RemoteNoticeIsCurrent

\* run_udp and run_udp_dispatch await room in a connection's channel, and every
\* source waits with them.  The wait ends, unless the channel of notices is full.
LoopsUnblock == (part = "proxy" => LoopUnblocks) /\ (part = "tun" => W!DispatchUnblocks)

\* The notice of a connection that is over is heard in the end: no source keeps a
\* connection whose tasks have stopped and that swallows its packets.
DeadAreForgotten == (part = "proxy" => EndedIsForgotten) /\ (part = "tun" => W!DeadIsForgotten)
=============================================================================
