----------------------------- MODULE AWinTunUdp -----------------------------
(***************************************************************************)
(* UDP of the asynchronous wintun proxy: the main task, which polls the    *)
(* device and hands its new sockets over (src/src/awintun/mod.rs, and the  *)
(* UDP part of async_smoltcp/src/device.rs and udp.rs); a task for each    *)
(* socket, start_udp; the dispatcher, which finds or makes the connection  *)
(* of a packet's source; and two tasks for each connection                 *)
(* (src/src/awintun/udp.rs).  All of them meet in bounded channels, and    *)
(* every send waits for room.                                              *)
(*                                                                         *)
(* Sockets and connections are numbered as they are made; a packet is its  *)
(* source.                                                                 *)
(***************************************************************************)
EXTENDS Naturals, Sequences, SequencesExt

CONSTANTS
    Sources, Targets,   \* addresses of applications, and those that they send to
    ChanCap,            \* packets in a socket's buffer, in its channel and in a connection's
    DataCap, CloseCap,  \* the channels data and close of the dispatcher, and the device's
    NPackets,           \* bound: packets of all applications
    NAnswers,           \* bound: answers of all servers
    MaxSocks, MaxConns  \* bound: sockets and connections that are made

None == 0

VARIABLES
    main,       \* the main task: "poll", or "hand" while it has new sockets to hand over
    dev,        \* udp_ip2handle and udp_req_senders: target -> [sock, rx]
    fresh,      \* sockets to hand over, in order
    locals,     \* locals of the dispatcher: target -> socket
    reqs,       \* req_senders of the dispatcher: source -> connection
    busy,       \* <<connection, target>> that the dispatcher waits to send to, or None
    socks,      \* start_udp: [target, chan, st]
    remotes,    \* connections: [src, target, chan, up, down]
    dataCh,     \* <<source, target>>
    sockCh,     \* sockets
    closeCh,    \* <<"local", target, socket>> and <<"remote", source, connection>>
    respCh,     \* the device's: <<target, whether there is data>>
    tally       \* [packets, answers]: for the bounds

wvars == <<main, dev, fresh, locals, reqs, busy, socks, remotes, dataCh, sockCh, closeCh, respCh, tally>>

WInit ==
    /\ main = "poll" /\ dev = [t \in Targets |-> [sock |-> None, rx |-> <<>>]] /\ fresh = <<>>
    /\ locals = [t \in Targets |-> None] /\ reqs = [s \in Sources |-> None] /\ busy = None
    /\ socks = <<>> /\ remotes = <<>> /\ dataCh = <<>> /\ sockCh = <<>> /\ closeCh = <<>> /\ respCh = <<>>
    /\ tally = [packets |-> 0, answers |-> 0]

NoSocket == [sock |-> None, rx |-> <<>>]
Least(a, b) == IF a <= b THEN a ELSE b

-----------------------------------------------------------------------------
(* The device and the main task *)

\* A packet arrives; preprocess_packet has made a socket for its target.
Arrives(s, t) ==
    /\ main = "poll" /\ tally.packets < NPackets
    /\ tally' = [tally EXCEPT !.packets = @ + 1]
    /\ \/ /\ dev[t].sock # None
          /\ dev' = [dev EXCEPT ![t].rx = IF Len(@) < ChanCap THEN Append(@, s) ELSE @]
          /\ UNCHANGED <<fresh, socks>>
       \/ /\ dev[t].sock = None /\ Len(socks) < MaxSocks
          /\ dev' = [dev EXCEPT ![t] = [sock |-> Len(socks) + 1, rx |-> <<s>>]]
          /\ socks' = Append(socks, [target |-> t, chan |-> <<>>, st |-> "new"])
          /\ fresh' = Append(fresh, Len(socks) + 1)
    /\ UNCHANGED <<main, locals, reqs, busy, remotes, dataCh, sockCh, closeCh, respCh>>

\* process_ingress: what a socket's channel has room for; a socket whose task has
\* closed the channel is removed when there is something to send.
Shut(n) == socks[n].st \in {"told", "done"}
Moved(t) == IF dev[t].sock = None THEN 0 ELSE Least(Len(dev[t].rx), ChanCap - Len(socks[dev[t].sock].chan))
Refused(t) == dev[t].sock # None /\ Shut(dev[t].sock) /\ dev[t].rx # <<>>
\* process_egress: empty data removes the socket of its target, whichever it is.
Ended(t) == dev[t].sock # None /\ <<t, FALSE>> \in ToSet(respCh)

PollUdp ==
    /\ main = "poll" /\ (respCh # <<>> \/ fresh # <<>> \/ \E t \in Targets : Refused(t) \/ Moved(t) > 0)
    /\ dev' = [t \in Targets |->
                IF Refused(t) \/ Ended(t) THEN NoSocket ELSE [dev[t] EXCEPT !.rx = SubSeq(@, Moved(t) + 1, Len(@))]]
    /\ socks' = [n \in DOMAIN socks |->
                    LET t == socks[n].target
                    IN IF dev[t].sock = n /\ ~Shut(n) THEN [socks[n] EXCEPT !.chan = @ \o SubSeq(dev[t].rx, 1, Moved(t))]
                       ELSE socks[n]]
    /\ respCh' = <<>> /\ main' = IF fresh = <<>> THEN "poll" ELSE "hand"
    /\ UNCHANGED <<fresh, locals, reqs, busy, remotes, dataCh, sockCh, closeCh, tally>>

\* Its writer goes to the dispatcher, then start_udp is spawned.
HandOver ==
    /\ main = "hand" /\ Len(sockCh) < DataCap
    /\ sockCh' = Append(sockCh, Head(fresh)) /\ fresh' = Tail(fresh)
    /\ socks' = [socks EXCEPT ![Head(fresh)].st = "read"]
    /\ main' = IF Tail(fresh) = <<>> THEN "poll" ELSE "hand"
    /\ UNCHANGED <<dev, locals, reqs, busy, remotes, dataCh, closeCh, respCh, tally>>

-----------------------------------------------------------------------------
(* start_udp *)

LocalRecv(n) ==
    /\ socks[n].st = "read" /\ socks[n].chan # <<>> /\ Len(dataCh) < DataCap
    /\ dataCh' = Append(dataCh, <<Head(socks[n].chan), socks[n].target>>)
    /\ socks' = [socks EXCEPT ![n].chan = Tail(@)]
    /\ UNCHANGED <<main, dev, fresh, locals, reqs, busy, remotes, sockCh, closeCh, respCh, tally>>

\* 120 seconds without a packet, or the device has dropped the channel:
\* UdpSocket::close sends empty data, then it closes the channel.
LocalEnds(n) ==
    /\ socks[n].st = "read" /\ socks[n].chan = <<>> /\ Len(respCh) < DataCap
    /\ respCh' = Append(respCh, <<socks[n].target, FALSE>>)
    /\ socks' = [socks EXCEPT ![n].st = "told"]
    /\ UNCHANGED <<main, dev, fresh, locals, reqs, busy, remotes, dataCh, sockCh, closeCh, tally>>
LocalTells(n) ==
    /\ socks[n].st = "told" /\ Len(closeCh) < CloseCap
    /\ closeCh' = Append(closeCh, <<"local", socks[n].target, n>>)
    /\ socks' = [socks EXCEPT ![n].st = "done", ![n].chan = <<>>]
    /\ UNCHANGED <<main, dev, fresh, locals, reqs, busy, remotes, dataCh, sockCh, respCh, tally>>

-----------------------------------------------------------------------------
(* run_udp_dispatch *)

\* sender.send waits for room, or fails when the connection's task is over.
SendTo(r, c, s) ==
    IF r[c].up = "done" THEN remotes' = r /\ busy' = None
    ELSE IF Len(r[c].chan) < ChanCap THEN remotes' = [r EXCEPT ![c].chan = Append(@, s)] /\ busy' = None
    ELSE remotes' = r /\ busy' = c

DispatchData ==
    /\ busy = None /\ dataCh # <<>> /\ dataCh' = Tail(dataCh)
    /\ LET s == Head(dataCh)[1]
           t == Head(dataCh)[2]
           new == [src |-> s, target |-> t, chan |-> <<>>, up |-> "connect", down |-> "none"]
       IN \/ locals[t] = None /\ UNCHANGED <<reqs, remotes, busy>>
          \/ locals[t] # None /\ reqs[s] # None /\ UNCHANGED reqs /\ SendTo(remotes, reqs[s], s)
          \/ /\ locals[t] # None /\ reqs[s] = None /\ Len(remotes) < MaxConns
             /\ reqs' = [reqs EXCEPT ![s] = Len(remotes) + 1]
             /\ SendTo(Append(remotes, new), Len(remotes) + 1, s)
    /\ UNCHANGED <<main, dev, fresh, locals, socks, sockCh, closeCh, respCh, tally>>
DispatchGoesOn ==
    /\ busy # None /\ (remotes[busy].up = "done" \/ Len(remotes[busy].chan) < ChanCap)
    /\ SendTo(remotes, busy, remotes[busy].src)
    /\ UNCHANGED <<main, dev, fresh, locals, reqs, socks, dataCh, sockCh, closeCh, respCh, tally>>
DispatchSocket ==
    /\ busy = None /\ sockCh # <<>> /\ sockCh' = Tail(sockCh)
    /\ locals' = [locals EXCEPT ![socks[Head(sockCh)].target] = Head(sockCh)]
    /\ UNCHANGED <<main, dev, fresh, reqs, busy, socks, remotes, dataCh, closeCh, respCh, tally>>
DispatchClose ==
    /\ busy = None /\ closeCh # <<>> /\ closeCh' = Tail(closeCh)
    /\ LET addr == Head(closeCh)[2]
       IN \/ Head(closeCh)[1] = "remote" /\ reqs' = [reqs EXCEPT ![addr] = None] /\ UNCHANGED locals
          \/ Head(closeCh)[1] = "local" /\ locals' = [locals EXCEPT ![addr] = None] /\ UNCHANGED reqs
    /\ UNCHANGED <<main, dev, fresh, busy, socks, remotes, dataCh, sockCh, respCh, tally>>

-----------------------------------------------------------------------------
(* local_to_remote and remote_to_local *)

Conn(c, r) == remotes' = [remotes EXCEPT ![c] = r]
Tell(c) == Len(closeCh) < CloseCap /\ closeCh' = Append(closeCh, <<"remote", remotes[c].src, c>>)
Others == UNCHANGED <<main, dev, fresh, locals, reqs, busy, socks, dataCh, sockCh, tally>>

RemoteConnects(c) ==
    /\ remotes[c].up = "connect" /\ Conn(c, [remotes[c] EXCEPT !.up = "run", !.down = "run"])
    /\ UNCHANGED <<closeCh, respCh>> /\ Others
\* The connection or its request fails: the dispatcher is told before the task,
\* and with it its channel, is over.
RemoteFails(c) ==
    /\ remotes[c].up = "connect" /\ Conn(c, [remotes[c] EXCEPT !.up = "fail"])
    /\ UNCHANGED <<closeCh, respCh>> /\ Others
RemoteFailTells(c) ==
    /\ remotes[c].up = "fail" /\ Tell(c) /\ Conn(c, [remotes[c] EXCEPT !.up = "done", !.chan = <<>>])
    /\ UNCHANGED respCh /\ Others
RemoteSends(c) ==
    /\ remotes[c].up = "run" /\ remotes[c].chan # <<>> /\ Conn(c, [remotes[c] EXCEPT !.chan = Tail(@)])
    /\ UNCHANGED <<closeCh, respCh>> /\ Others

\* Mutant: the dispatcher is told by the end of either task.
RemoteUpEndsTells(c) ==
    /\ remotes[c].up = "run" /\ (remotes[c].chan # <<>> \/ reqs[remotes[c].src] # c) /\ Tell(c)
    /\ Conn(c, [remotes[c] EXCEPT !.up = "done", !.chan = <<>>]) /\ UNCHANGED respCh /\ Others
\* A write fails, or the dispatcher has dropped the channel.
RemoteUpEnds(c) ==
    /\ remotes[c].up = "run" /\ (remotes[c].chan # <<>> \/ reqs[remotes[c].src] # c)
    /\ Conn(c, [remotes[c] EXCEPT !.up = "done", !.chan = <<>>])
    /\ UNCHANGED <<closeCh, respCh>> /\ Others

\* An answer goes to the socket of the first target, as the source's; an empty one
\* removes the socket.
RemoteAnswers(c, some) ==
    /\ remotes[c].down = "run" /\ tally.answers < NAnswers /\ Len(respCh) < DataCap
    /\ respCh' = Append(respCh, <<remotes[c].target, some>>) /\ tally' = [tally EXCEPT !.answers = @ + 1]
    /\ UNCHANGED <<main, dev, fresh, locals, reqs, busy, socks, remotes, dataCh, sockCh, closeCh>>

\* Mutant: the task of a connection ends without a word when the server is silent.
RemoteDownEndsSilent(c) ==
    /\ remotes[c].down = "run" /\ Conn(c, [remotes[c] EXCEPT !.down = "done"])
    /\ UNCHANGED <<closeCh, respCh>> /\ Others
\* The server's end, an error, or 120 seconds without an answer.
RemoteDownEnds(c) ==
    /\ remotes[c].down = "run" /\ Tell(c) /\ Conn(c, [remotes[c] EXCEPT !.down = "done"])
    /\ UNCHANGED respCh /\ Others

-----------------------------------------------------------------------------

MainStep == PollUdp \/ HandOver
SocketStep(n) == LocalRecv(n) \/ LocalEnds(n) \/ LocalTells(n)
DispatchStep == DispatchData \/ DispatchGoesOn \/ DispatchSocket \/ DispatchClose
UpStep(c) == RemoteConnects(c) \/ RemoteFails(c) \/ RemoteFailTells(c) \/ RemoteSends(c) \/ RemoteUpEnds(c)
DownStep(c) == RemoteDownEnds(c)

WNext ==
    \/ \E s \in Sources, t \in Targets : Arrives(s, t)
    \/ MainStep \/ DispatchStep
    \/ \E n \in DOMAIN socks : SocketStep(n)
    \/ \E c \in DOMAIN remotes : UpStep(c) \/ DownStep(c) \/ \E some \in BOOLEAN : RemoteAnswers(c, some)

WSpec == WInit /\ [][WNext]_wvars

-----------------------------------------------------------------------------
(* Properties *)

WTypeOK ==
    /\ main \in {"poll", "hand"} /\ busy \in {None} \cup DOMAIN remotes
    /\ \A t \in Targets : dev[t].sock \in {None} \cup DOMAIN socks /\ locals[t] \in {None} \cup DOMAIN socks
    /\ \A n \in DOMAIN socks : socks[n].st \in {"new", "read", "told", "done"} /\ Len(socks[n].chan) <= ChanCap
    /\ \A c \in DOMAIN remotes : remotes[c].up \in {"connect", "fail", "run", "done"} /\ Len(remotes[c].chan) <= ChanCap

\* A notice of a connection names a source only: the dispatcher has no other
\* connection for the source by then, and takes leave of the one that is over.
RemoteNoticeIsCurrent ==
    /\ WTypeOK
    /\ \A i \in DOMAIN closeCh : closeCh[i][1] = "remote" => reqs[closeCh[i][2]] = closeCh[i][3]
    /\ \A c \in DOMAIN remotes : remotes[c].up = "connect" => reqs[remotes[c].src] = c

\* The circle of waiting that the channels allow: the dispatcher waits for room in
\* the channel of a connection whose task waits for room in the dispatcher's.
Circle == busy # None /\ remotes[busy].up = "fail" /\ Len(closeCh) = CloseCap

\* The dispatcher, and with it all UDP, never waits for ever for a connection's
\* channel, the circle set aside.
DispatchUnblocks == []<>(busy = None \/ Circle)

\* A source is not left with a connection that is over: the packets that it takes
\* are lost without a word.
DeadIsForgotten ==
    \A s \in Sources : []<>(reqs[s] = None \/ Circle \/ remotes[reqs[s]].up # "done")
=============================================================================
