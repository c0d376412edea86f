------------------------------ MODULE TunDevice ------------------------------
(***************************************************************************)
(* TCP of the asynchronous wintun proxy: the device of async_smoltcp       *)
(* (device.rs, tcp.rs), whose poll one task calls over and over, and the   *)
(* two tasks of each stream (src/src/awintun/tcp.rs), which run beside it. *)
(*                                                                         *)
(* A SYN of a new source makes a socket that listens at the target.  The   *)
(* requests of a socket go to the channel that is found by the socket's    *)
(* remote endpoint; the responses of a stream go to the socket that was    *)
(* made for the stream's source.  The two need not be the same socket: one *)
(* whose handshake is reset listens again, and takes the SYN of another    *)
(* source, with the same target.  All sources here have one target.        *)
(*                                                                         *)
(* Connections are numbered by their SYN; a stream has the number of the   *)
(* SYN that made its socket.  Bytes are <<connection or stream, index>>.   *)
(***************************************************************************)
EXTENDS Naturals, Sequences, SequencesExt

CONSTANTS
    Sources,            \* addresses of applications
    NSyns,              \* bound: SYNs of all applications
    NBytes,             \* bound: bytes of all applications and servers
    RxCap, TxCap,       \* buffers of a TCP socket
    ChanCap, RespCap    \* requests of one stream, and responses of all, in channels

None == 0
ASSUME DeviceAssumption == NSyns \in Nat /\ None \notin Sources

Ids == 1 .. NSyns
Handles == 1 .. NSyns

VARIABLES
    stage,      \* poll: "net" is interface.poll, then "egress", or "panic"
    apps,       \* the applications' connections, in the order of their SYNs
    socks,      \* sockets: handle -> socket, of the handles in use
    ip2handle,  \* tcp_ip2handle
    handle2ip,  \* tcp_handle2ip
    newTcp,     \* new_tcp: the SYNs that made a socket since the last poll
    senders,    \* tcp_req_senders: source -> stream
    queued,     \* tcp_response: source -> responses that the socket had no room for
    responses,  \* the channel from all streams to the device: <<stream, index>>, index 0 ends it
    streams     \* the tasks of each stream

dvars == <<stage, apps, socks, ip2handle, handle2ip, newTcp, senders, queued, responses, streams>>

\* own tells whether the socket of the connection was made for its source.
App == [src: Sources, own: BOOLEAN, st: {"syn", "open", "fin", "gone"}, out: 0 .. NBytes, got: Seq(Ids \X (1 .. NBytes))]

\* conn is the connection of the socket's remote endpoint.  In finwait and
\* closing the FIN is still to be sent.
States == {"listen", "synrcvd", "est", "closewait", "finwait", "finwait2", "closing", "lastack", "timewait", "closed"}
Socket == [st: States, conn: Ids \cup {None}, rx: Seq(Ids \X (1 .. NBytes)), tx: Seq(Ids \X (1 .. NBytes))]

Stream ==
    [ src: Sources, chan: Seq(Seq(Ids \X (1 .. NBytes))), up: {"copy", "done"}, down: {"copy", "done"},
       fed: Seq(Ids \X (1 .. NBytes)), sent: 0 .. NBytes ]

DInit ==
    /\ stage = "net" /\ apps = <<>> /\ socks = <<>> /\ newTcp = <<>> /\ responses = <<>> /\ streams = <<>>
    /\ ip2handle = [s \in Sources |-> None] /\ handle2ip = [h \in Handles |-> None]
    /\ senders = [s \in Sources |-> None] /\ queued = [s \in Sources |-> <<>>]

Put(f, x, v) == [y \in DOMAIN f \cup {x} |-> IF y = x THEN v ELSE f[y]]
\* Whether the bound on bytes leaves room for one more.
MoreBytes ==
    LET n[id \in 0 .. Len(apps)] ==
            IF id = 0 THEN 0
            ELSE n[id - 1] + apps[id].out + (IF id \in DOMAIN streams THEN streams[id].sent ELSE 0)
    IN n[Len(apps)] < NBytes

-----------------------------------------------------------------------------
(* smoltcp's socket *)

\* Socket::close
Closed(k) ==
    [k EXCEPT !.st = CASE k.st = "listen" -> "closed"
                       [] k.st \in {"synrcvd", "est"} -> "finwait"
                       [] k.st = "closewait" -> "lastack"
                       [] OTHER -> k.st]
MaySend(k) == k.st \in {"est", "closewait"}
Remote(k) == apps[k.conn].src

-----------------------------------------------------------------------------
(* interface.poll *)

\* Mutant: the handle of a socket that is removed keeps its source.
RegisterOnce(h, s) == IF handle2ip[h] = None THEN [handle2ip EXCEPT ![h] = s] ELSE handle2ip
Register(h, s) == [handle2ip EXCEPT ![h] = s]

\* preprocess_packet and ensure_tcp_socket: the new socket takes the first free
\* handle.
FreeHandle == CHOOSE h \in Handles \ DOMAIN socks : \A g \in Handles \ DOMAIN socks : h <= g
Syn(s) ==
    /\ stage = "net" /\ Len(apps) < NSyns
    /\ \A n \in DOMAIN apps : apps[n].src = s => apps[n].st = "gone"
    /\ LET id == Len(apps) + 1
           new == ip2handle[s] = None
           all == IF new THEN Put(socks, FreeHandle, [st |-> "listen", conn |-> None, rx |-> <<>>, tx |-> <<>>]) ELSE socks
           takers == {h \in DOMAIN all :
                        all[h].st = "listen" \/ (all[h].conn # None /\ apps[all[h].conn].src = s)}
           taker == CHOOSE h \in takers : \A g \in takers : h <= g
           taken == takers # {} /\ all[taker].st = "listen"
           handles == IF new THEN Register(FreeHandle, s) ELSE handle2ip
       IN /\ ip2handle' = IF new THEN [ip2handle EXCEPT ![s] = FreeHandle] ELSE ip2handle
          /\ handle2ip' = handles
          /\ newTcp' = IF new THEN Append(newTcp, id) ELSE newTcp
          /\ socks' = IF taken THEN [all EXCEPT ![taker] = [@ EXCEPT !.st = "synrcvd", !.conn = id]] ELSE all
          /\ apps' = Append(apps, [src |-> s, own |-> taken /\ handles[taker] = s, st |-> IF taken THEN "syn" ELSE "gone",
                                 out |-> 0, got |-> <<>>])
    /\ UNCHANGED <<stage, senders, queued, responses, streams>>

\* A packet between the socket h and the application of its connection.
Packet(h, k, a) ==
    /\ stage = "net" /\ socks' = [socks EXCEPT ![h] = k] /\ apps' = [apps EXCEPT ![socks[h].conn] = a]
    /\ UNCHANGED <<stage, ip2handle, handle2ip, newTcp, senders, queued, responses, streams>>

Peer(h) == apps[socks[h].conn]
Connected(h) == socks[h].conn # None

Ack(h) ==
    /\ Connected(h) /\ socks[h].st = "synrcvd"
    /\ Packet(h, [socks[h] EXCEPT !.st = "est"], [Peer(h) EXCEPT !.st = "open"])
AppSends(h) ==
    /\ Connected(h) /\ Peer(h).st = "open" /\ Len(socks[h].rx) < RxCap /\ MoreBytes
    /\ Packet(h, [socks[h] EXCEPT !.rx = Append(@, <<socks[h].conn, Peer(h).out + 1>>)], [Peer(h) EXCEPT !.out = @ + 1])
AppCloses(h) ==
    /\ Connected(h) /\ Peer(h).st = "open"
    /\ Packet(h, [socks[h] EXCEPT !.st = CASE @ = "est" -> "closewait" [] @ = "finwait" -> "closing" [] @ = "finwait2" -> "timewait"],
              [Peer(h) EXCEPT !.st = IF socks[h].st = "finwait2" THEN "gone" ELSE "fin"])
\* A reset in the handshake makes the socket listen again.
AppResets(h) ==
    /\ Connected(h) /\ Peer(h).st # "gone"
    /\ Packet(h, [socks[h] EXCEPT !.st = IF @ = "synrcvd" THEN "listen" ELSE "closed", !.conn = None, !.tx = <<>>],
              [Peer(h) EXCEPT !.st = "gone"])
Egress(h) ==
    /\ Connected(h) /\ socks[h].tx # <<>> /\ Peer(h).st # "gone"
    /\ Packet(h, [socks[h] EXCEPT !.tx = Tail(@)], [Peer(h) EXCEPT !.got = Append(@, Head(socks[h].tx))])
EgressFin(h) ==
    /\ Connected(h) /\ socks[h].tx = <<>>
    /\ \/ socks[h].st = "finwait" /\ Packet(h, [socks[h] EXCEPT !.st = "finwait2"], [Peer(h) EXCEPT !.st = IF @ = "syn" THEN "open" ELSE @])
       \/ socks[h].st = "closing" /\ Packet(h, [socks[h] EXCEPT !.st = "timewait"], [Peer(h) EXCEPT !.st = "gone"])
       \/ socks[h].st = "lastack" /\ Packet(h, [socks[h] EXCEPT !.st = "closed", !.conn = None], [Peer(h) EXCEPT !.st = "gone"])
TimeWaitEnds(h) ==
    /\ socks[h].st = "timewait"
    /\ Packet(h, [socks[h] EXCEPT !.st = "closed", !.conn = None, !.rx = <<>>], Peer(h))

-----------------------------------------------------------------------------
(* accept_tcp and process_ingress, which poll calls one after the other *)

\* Every SYN that made a socket gets a stream, and the requests of its source go
\* there from now on.
Opened(id) ==
    [src |-> apps[id].src, chan |-> <<>>, up |-> "copy", down |-> "copy", fed |-> <<>>, sent |-> 0]
StreamOf(id) == IF id \in DOMAIN streams THEN streams[id] ELSE Opened(id)
Accepted(s) ==
    LET made == {id \in ToSet(newTcp) : apps[id].src = s}
    IN IF made = {} THEN senders[s] ELSE CHOOSE id \in made : TRUE

CanRecv(h) == socks[h].rx # <<>>
Dispatched(h) == CanRecv(h) /\ Connected(h)
\* Mutant: what has been dispatched stays in the receive buffer.
KeptRx(k) == k.rx
\* recv_slice empties the receive buffer.
EmptiedRx(k) == <<>>

\* One socket's turn: what it has received goes to the channel of its remote
\* endpoint if there is room, and its end after it.  k is the socket, r the stream
\* as the turns before have left it.
Dispatch(k, r) ==
    LET open == r.up # "done"
        room == Len(r.chan) < ChanCap
        a == IF ~room THEN k ELSE LET b == [k EXCEPT !.rx = EmptiedRx(k)] IN IF open THEN b ELSE Closed(b)
        taken == IF room /\ open THEN Append(r.chan, k.rx) ELSE r.chan
        ends == a.st = "closewait" /\ a.tx = <<>>
    IN [sock |-> IF ends THEN Closed(a) ELSE a,
        chan |-> IF ends /\ open /\ Len(taken) < ChanCap THEN Append(taken, <<>>) ELSE taken]

\* The streams before the turn of each socket, in the order of their handles.
Receiver(h) == Accepted(Remote(socks[h]))
Ingress ==
    LET f[h \in 1 .. NSyns + 1] ==
            IF h = 1 THEN [id \in DOMAIN streams \cup ToSet(newTcp) |-> StreamOf(id)]
            ELSE IF h - 1 \in DOMAIN socks /\ Dispatched(h - 1)
            THEN [f[h - 1] EXCEPT ![Receiver(h - 1)].chan = Dispatch(socks[h - 1], f[h - 1][Receiver(h - 1)]).chan]
            ELSE f[h - 1]
    IN f

\* remove_tcp by the remote endpoint of a socket that is no longer active, and
\* remove_tcp_handle of one that has no remote endpoint, which alone clears
\* tcp_handle2ip.
Unconnected == {h \in DOMAIN socks : CanRecv(h) /\ ~Connected(h)}
ToRemove ==
    {Remote(socks[h]) : h \in {g \in DOMAIN socks : Dispatched(g) /\ socks[g].st = "timewait"}}
      \cup {handle2ip[h] : h \in Unconnected}
\* The sockets that remove_tcp leaves.
Remaining == DOMAIN socks \ {ip2handle[s] : s \in ToRemove}

ProcessIngress ==
    /\ stage = "net" /\ stage' = "egress" /\ newTcp' = <<>>
    /\ \A h \in DOMAIN socks : Dispatched(h) => Receiver(h) # None
    /\ LET x == Ingress
       IN /\ streams' = x[NSyns + 1]
          /\ socks' = [h \in Remaining |->
                          IF Dispatched(h) THEN Dispatch(socks[h], x[h][Receiver(h)]).sock ELSE socks[h]]
    /\ ip2handle' = [s \in Sources |-> IF s \in ToRemove THEN None ELSE ip2handle[s]]
    /\ senders' = [s \in Sources |-> IF s \in ToRemove THEN None ELSE Accepted(s)]
    /\ queued' = [s \in Sources |-> IF s \in ToRemove THEN <<>> ELSE queued[s]]
    /\ handle2ip' = [h \in Handles |-> IF h \in Unconnected THEN None ELSE handle2ip[h]]
    /\ UNCHANGED <<apps, responses>>

\* tcp_req_senders.get(&source).unwrap()
IngressPanics ==
    /\ stage = "net" /\ stage' = "panic"
    /\ \E h \in DOMAIN socks : Dispatched(h) /\ Receiver(h) = None
    /\ UNCHANGED <<apps, socks, ip2handle, handle2ip, newTcp, senders, queued, responses, streams>>

-----------------------------------------------------------------------------
(* process_egress *)

\* The responses of a source up to the one that ends them, how many of them the
\* socket takes, and what stays for the next poll.
Answers(s) == queued[s] \o SelectSeq(responses, LAMBDA r : streams[r[1]].src = s)
BeforeEnd(q) ==
    LET ends == {i \in DOMAIN q : q[i][2] = 0}
    IN IF ends = {} THEN q ELSE SubSeq(q, 1, (CHOOSE i \in ends : \A j \in ends : i <= j) - 1)
Fitting(k, q) ==
    LET room == TxCap - Len(k.tx)
        data == BeforeEnd(q)
    IN IF Len(data) <= room THEN data ELSE SubSeq(data, 1, room)
Fits(k, q) == Len(BeforeEnd(q)) <= TxCap - Len(k.tx)

Left(k, q) == IF ~MaySend(k) \/ Fits(k, q) THEN <<>> ELSE SubSeq(q, Len(Fitting(k, q)) + 1, Len(q))

\* Empty data closes the socket, and so does data that it does not take.
Sent(k, q) ==
    IF q = <<>> THEN k
    ELSE IF ~MaySend(k) THEN Closed(k)
    ELSE LET a == [k EXCEPT !.tx = @ \o Fitting(k, q)]
         IN IF Fits(k, q) /\ BeforeEnd(q) # q THEN Closed(a) ELSE a

ProcessEgress ==
    /\ stage = "egress" /\ stage' = "net" /\ responses' = <<>>
    /\ socks' = [h \in DOMAIN socks |-> IF ip2handle[handle2ip[h]] = h THEN Sent(socks[h], Answers(handle2ip[h])) ELSE socks[h]]
    /\ queued' = [s \in Sources |-> IF ip2handle[s] = None THEN <<>> ELSE Left(socks[ip2handle[s]], Answers(s))]
    /\ UNCHANGED <<apps, ip2handle, handle2ip, newTcp, senders, streams>>

-----------------------------------------------------------------------------
(* start_tcp, local_to_remote and remote_to_local *)

\* A step of a task.  The device meets the tasks only in the channels: what a task
\* does in the middle of a poll it could do just before it or just after it.
Task(id, r) ==
    /\ stage = "net" /\ streams' = [streams EXCEPT ![id] = r]
    /\ UNCHANGED <<stage, apps, socks, ip2handle, handle2ip, newTcp, senders, queued>>

\* init_tls_conn has no result that the tasks read; when it fails, both ends of
\* the local stream are dropped, and nothing ends the socket.
ConnectFails(id) ==
    /\ streams[id].up = "copy" /\ streams[id].down = "copy" /\ streams[id].fed = <<>> /\ streams[id].sent = 0
    /\ UNCHANGED responses /\ Task(id, [streams[id] EXCEPT !.up = "done", !.down = "done", !.chan = <<>>])

\* copy_stream: empty data is not the end for poll_read.
ReadLocal(id) ==
    /\ streams[id].up = "copy" /\ streams[id].chan # <<>> /\ UNCHANGED responses
    /\ Task(id, [streams[id] EXCEPT !.chan = Tail(@), !.fed = @ \o Head(streams[id].chan)])
UpEnds(id) == UNCHANGED responses /\ Task(id, [streams[id] EXCEPT !.up = "done", !.chan = <<>>])
ReadEnd(id) ==
    /\ streams[id].up = "copy" /\ streams[id].chan = <<>> /\ senders[streams[id].src] # id /\ id \notin ToSet(newTcp)
    /\ UpEnds(id)
ReadTimeout(id) == streams[id].up = "copy" /\ streams[id].chan = <<>> /\ UpEnds(id)
WriteFails(id) == streams[id].up = "copy" /\ UpEnds(id)

Respond(id, i) == Len(responses) < RespCap /\ responses' = Append(responses, <<id, i>>)
ReadRemote(id) ==
    /\ streams[id].down = "copy" /\ Len(responses) < RespCap /\ MoreBytes
    /\ Respond(id, streams[id].sent + 1) /\ Task(id, [streams[id] EXCEPT !.sent = @ + 1])
\* The server's end, an error or the idle time, and the shutdown of the local stream.
RemoteEnd(id) ==
    /\ streams[id].down = "copy" /\ Respond(id, 0) /\ Task(id, [streams[id] EXCEPT !.down = "done"])

-----------------------------------------------------------------------------

Poll == ProcessIngress \/ IngressPanics \/ ProcessEgress
DNext ==
    \/ \E s \in Sources : Syn(s)
    \/ \E h \in DOMAIN socks :
        Ack(h) \/ AppSends(h) \/ AppCloses(h) \/ AppResets(h) \/ Egress(h) \/ EgressFin(h) \/ TimeWaitEnds(h)
    \/ Poll
    \/ \E id \in DOMAIN streams :
        ConnectFails(id) \/ ReadLocal(id) \/ ReadEnd(id) \/ ReadTimeout(id) \/ WriteFails(id) \/ ReadRemote(id) \/ RemoteEnd(id)

DSpec == DInit /\ [][DNext]_dvars

-----------------------------------------------------------------------------
(* Properties *)

DTypeOK ==
    /\ stage \in {"net", "egress", "panic"}
    /\ apps \in Seq(App) /\ responses \in Seq(Ids \X (0 .. NBytes))
    /\ \A h \in DOMAIN socks : socks[h] \in Socket
    /\ \A id \in DOMAIN streams : streams[id] \in Stream

\* Sockets and maps agree, although remove_tcp leaves tcp_handle2ip as it is and
\* handles are used again: a socket has the one source that it was made for, by
\* which remove_tcp_handle finds and forgets it.
DeviceMapsAgree ==
    /\ \A h \in DOMAIN socks : handle2ip[h] # None /\ ip2handle[handle2ip[h]] = h
    /\ \A s \in Sources : ip2handle[s] # None => ip2handle[s] \in DOMAIN socks
    /\ stage = "egress" => \A s \in Sources : (ip2handle[s] = None) <=> (senders[s] = None)

\* Whether the bytes of every connection, or stream, in q are in order and without
\* a hole.
NoHole(q) ==
    \A i, j \in DOMAIN q :
        i < j /\ q[i][1] = q[j][1] /\ (\A x \in i + 1 .. j - 1 : q[x][1] # q[i][1])
          => q[j][2] = q[i][2] + 1

\* A stream sends to its server what connections of its source have sent, each in
\* order and without a hole, also when a port is used again or a socket serves
\* another source than its own.  Connections on sockets of their own are sent from
\* their first byte and one after the other; of the others, a part may have gone to
\* another stream of the source.
UpInOrder ==
    \A id \in DOMAIN streams :
        LET up == streams[id].fed \o FlattenSeq(streams[id].chan)
            own(i) == apps[up[i][1]].own
        IN /\ NoHole(up)
           /\ \A i \in DOMAIN up : apps[up[i][1]].src = streams[id].src
           /\ \A i \in DOMAIN up : own(i) /\ up[i][2] # 1 => \E j \in 1 .. i - 1 : up[j] = <<up[i][1], 1>>
           /\ \A i, j \in DOMAIN up : i < j /\ own(i) /\ own(j) => up[i][1] <= up[j][1]

\* What a connection gets of a stream it gets in order and without a hole, however
\* often the socket has no room and the rest waits in tcp_response.
DownInOrder == \A n \in DOMAIN apps : NoHole(apps[n].got)

\* The device passes the bytes of both directions on in order.
StreamsInOrder == DTypeOK /\ UpInOrder /\ DownInOrder

\* process_ingress unwraps the channel of a socket's remote endpoint: there is one
\* for every socket that has received something.
SenderFound == stage # "panic"
=============================================================================
