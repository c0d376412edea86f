------------------------------ MODULE ProxyUdp ------------------------------
(***************************************************************************)
(* The UDP half of the mio proxy (src/src/proxy/udp_server.rs, with        *)
(* udp_cache.rs and TlsConn): every source address has one TLS connection  *)
(* to the trojan server, found through src_map; answers come back as       *)
(* framed packets on that connection and are sent to the source through a  *)
(* socket bound to the address the packet came from.                       *)
(*                                                                         *)
(* A frame is two halves, <<a, 1>> and <<a, 2>> for a packet from a, so    *)
(* that a read may end inside one; <<a, 0>> is a half no parser accepts.   *)
(* Upward data is only counted.  ev and batch are as in ServerConn.        *)
(***************************************************************************)
EXTENDS ConnStatus, Sequences, FiniteSets

CONSTANTS
    Src,        \* client addresses
    Dst,        \* target addresses
    Index,      \* indexes of connections
    Handover,   \* the states of the connections the idle pool hands out
    MaxQueue,   \* packets the listening socket holds
    MaxIn,      \* halves in flight from the server on one connection
    SockCap,    \* units a kernel send buffer holds
    SessLimit   \* units a rustls session queues before write_all fails

None == "none"
Listener == "listener"

ASSUME ConstAssumption ==
    /\ None \notin Index /\ Listener \notin Index
    /\ MaxQueue \in Nat /\ MaxIn \in Nat
    /\ SockCap \in Nat \ {0} /\ SessLimit \in Nat \ {0}
    /\ Handover \subseteq {"cold", "hello", "warm"}

VARIABLES
    table,      \* the keys of UdpServer.conns
    c,          \* the connections; Blank outside table
    srcMap,     \* UdpServer.src_map
    removed,    \* UdpServer.removed
    cache,      \* the keys of UdpSvrCache.conns
    inq,        \* packets in the listening socket: <<source, target>>
    ev, batch, polling,
    out,        \* datagrams the last step sent: <<source, socket, frame>>
    garbled     \* a parser was given a frame from its middle

vars == <<table, c, srcMap, removed, cache, inq, ev, batch, polling, out, garbled>>

Half == Dst \X (0 .. 2)

\* own, server: the two ConnStatus values; dst: the address of the socket in
\* use; sendBuffer: the front of a frame; idle: last_active is more than 120
\* seconds ago.  The rest is the TLS connection as in ProxyTcp, with the
\* numbers of units queued before (plain) and after the handshake (session)
\* and in the socket (sout).
ConnState ==
    [ src: Src \cup {None}, dst: Dst \cup {None}, own: Status, server: Status,
      sendBuffer: Seq(Half), idle: BOOLEAN, writable: BOOLEAN,
      tls: {"start", "sent", "done"}, plain: Nat, session: Nat, sout: Nat, sblk: BOOLEAN,
      sin: Seq(Half), hin: BOOLEAN, scon: {"connecting", "up"}, send: {"open", "fin", "rst"} ]

\* TlsConn as the pool hands it out, and setup's request head.
NewConn(s, d, h) ==
    [ src |-> s, dst |-> d, own |-> "Established",
      server |-> IF h = "cold" THEN "Connecting" ELSE "Established",
      sendBuffer |-> <<>>, idle |-> FALSE, writable |-> TRUE,
      tls |-> CASE h = "cold" -> "start" [] h = "hello" -> "sent" [] OTHER -> "done",
      plain |-> IF h = "warm" THEN 0 ELSE 1, session |-> IF h = "warm" THEN 1 ELSE 0,
      sout |-> 0, sblk |-> FALSE, sin |-> <<>>, hin |-> FALSE,
      scon |-> IF h = "cold" THEN "connecting" ELSE "up", send |-> "open" ]

Blank == [NewConn(None, None, "warm") EXCEPT !.session = 0]

Init ==
    /\ table = {} /\ c = [i \in Index |-> Blank] /\ srcMap = [s \in Src |-> None]
    /\ removed = {} /\ cache = {} /\ inq = <<>>
    /\ ev = {} /\ batch = [x \in Index \cup {Listener} |-> {}] /\ polling = TRUE
    /\ out = <<>> /\ garbled = FALSE

-----------------------------------------------------------------------------
(* TlsConn *)

WantsWrite(r) == r.tls = "start" \/ r.session > 0

ServerWritable(r) == r.writable /\ Alive(r.server)

\* do_send
DoSend(r) ==
    LET n == IF r.session <= SockCap - r.sout THEN r.session ELSE SockCap - r.sout IN
    IF r.server = "Connecting" THEN r
    ELSE IF ~WantsWrite(r) THEN [r EXCEPT !.writable = TRUE]
    ELSE IF IsShutdown(r.server) \/ r.send = "rst"
         THEN [r EXCEPT !.writable = TRUE, !.server = Shutdown(@)]
    ELSE [r EXCEPT !.tls = IF @ = "start" THEN "sent" ELSE @,
                   !.sout = @ + n, !.session = @ - n,
                   !.writable = (n = r.session), !.sblk = @ \/ n < r.session]

\* do_read, without the buffer it returns: the handshake may complete.
DoRead(r) ==
    [r EXCEPT !.sin = <<>>, !.hin = FALSE,
              !.tls = IF r.hin THEN "done" ELSE @,
              !.session = IF r.hin THEN @ + r.plain ELSE @,
              !.plain = IF r.hin THEN 0 ELSE @,
              !.server = IF r.send # "open" THEN Shutdown(@) ELSE @]

\* The two write_session calls of send_request; a full session shuts down.
WriteSession(r) ==
    IF r.plain + r.session >= SessLimit THEN [r EXCEPT !.server = Shutdown(@)]
    ELSE IF r.tls = "done" THEN [r EXCEPT !.session = @ + 1]
    ELSE [r EXCEPT !.plain = @ + 1]

-----------------------------------------------------------------------------
(* Connection *)

DoStatus(r) ==
    LET v == IF IsShutdown(r.own) THEN PeerClosed(r.server) ELSE r.server
        o == IF IsShutdown(v) THEN PeerClosed(r.own) ELSE r.own
    IN [r EXCEPT !.own = CheckStatus(o, r.sendBuffer = <<>>),
                 !.server = CheckStatus(v, ~WantsWrite(r))]

\* Mutant: no idle check, a dead connection is used for ever.
SendRequestNoIdle(r) ==
    IF r.server # "Connecting" /\ ~ServerWritable(r) THEN r
    ELSE DoStatus(DoSend(WriteSession(r)))

SendRequest(r) ==
    IF r.idle THEN DoStatus([r EXCEPT !.own = Shutdown(@)])
    ELSE IF r.server # "Connecting" /\ ~ServerWritable(r) THEN r
    ELSE DoStatus(DoSend(WriteSession(r)))

Destroyed(r) == r.own = "Deregistered" /\ r.server = "Deregistered"

\* do_send_client's loop: how many whole frames a buffer starts with.
Frames(buf) ==
    CHOOSE n \in 0 .. Len(buf) \div 2 :
        /\ \A k \in 1 .. n : buf[2 * k - 1][2] = 1 /\ buf[2 * k] = <<buf[2 * k - 1][1], 2>>
        /\ 2 * n + 2 <= Len(buf) => (buf[2 * n + 1][2] # 1 \/ buf[2 * n + 2] # <<buf[2 * n + 1][1], 2>>)

\* UdpParseResult::InvalidProtocol for what is left of the buffer
Invalid(rest) == rest # <<>> /\ (rest[1][2] # 1 \/ Len(rest) > 1)

\* Mutant: the socket is not changed with the target.
DoSendUdpSameSocket(x, a, ok) ==
    [x EXCEPT !.sent = Append(@, <<x.dst, a>>)]

\* do_send_udp and UdpSvrCache::get_socket; ok tells whether a new socket can
\* be bound.
DoSendUdp(x, a, ok) ==
    IF a = x.dst \/ a \in x.cache \/ ok
    THEN [dst |-> a, cache |-> x.cache \cup {a}, sent |-> Append(x.sent, <<a, a>>)]
    ELSE x

\* The frames of a buffer, one after the other.
Deliver(d, buf, ok) ==
    LET f[k \in 0 .. Frames(buf)] ==
            IF k = 0 THEN [dst |-> d, cache |-> cache, sent |-> <<>>]
            ELSE DoSendUdp(f[k - 1], buf[2 * k][1], ok)
    IN f[Frames(buf)]

\* The buffer of do_send_client: what an earlier read left, then the new data.
Received(r) == r.sendBuffer \o r.sin

\* try_read_server with try_send_client; x is what Deliver made of the buffer.
TryReadServer(r, x) ==
    LET buf == Received(r)
        rest == SubSeq(buf, 2 * Frames(buf) + 1, Len(buf))
        t == [DoRead(r) EXCEPT !.dst = x.dst]
    IN IF r.sin = <<>> THEN t
       ELSE IF Invalid(rest) THEN [t EXCEPT !.sendBuffer = <<>>, !.server = Shutdown(@)]
       ELSE [t EXCEPT !.sendBuffer = rest]

\* Mutant: established() comes after the send.
ReadyLate(r, flags, x) ==
    LET q == [r EXCEPT !.idle = FALSE]
        t == IF "r" \in flags THEN DoSend(TryReadServer(q, x)) ELSE q
    IN DoStatus(IF "w" \in flags THEN [DoSend(t) EXCEPT !.server = Established(@)] ELSE t)

\* Connection::ready
Ready(r, flags, x) ==
    LET q == [r EXCEPT !.idle = FALSE]
        t == IF "r" \in flags THEN DoSend(TryReadServer(q, x)) ELSE q
    IN DoStatus(IF "w" \in flags THEN DoSend([t EXCEPT !.server = Established(@)]) ELSE t)

-----------------------------------------------------------------------------
(* The event loop *)

Registered(i) == i \in table /\ c[i].server # "Deregistered"

Flags(x) ==
    IF x = Listener THEN {"r"}
    ELSE (IF c[x].sin # <<>> \/ c[x].hin \/ c[x].send # "open" \/ IsShutdown(c[x].server)
          THEN {"r"} ELSE {})
         \cup (IF (c[x].scon = "up" /\ c[x].sout < SockCap) \/ c[x].send = "rst"
               THEN {"w"} ELSE {})

Fetch ==
    /\ polling /\ ev # {}
    /\ batch' = [x \in Index \cup {Listener} |-> IF x \in ev THEN Flags(x) ELSE {}]
    /\ c' = [i \in Index |-> [c[i] EXCEPT !.sblk = @ \/ (i \in ev /\ c[i].sout = SockCap)]]
    /\ ev' = {} /\ polling' = FALSE /\ out' = <<>>
    /\ UNCHANGED <<table, srcMap, removed, cache, inq, garbled>>

\* The listener's event is done when recv would block.
NextPacket ==
    /\ inq' = Tail(inq)
    /\ batch' = IF Len(inq) = 1 THEN [batch EXCEPT ![Listener] = {}] ELSE batch

\* One step of a connection, from accept_once or from ready.
Update(i, r) ==
    /\ c' = [c EXCEPT ![i] = r]
    /\ removed' = IF Destroyed(r) THEN removed \cup {i} ELSE removed

Accepting == ~polling /\ batch[Listener] # {} /\ inq # <<>>

\* accept_once, the source is known.
AcceptKnown ==
    LET i == srcMap[Head(inq)[1]] IN
    /\ Accepting /\ i # None
    /\ Update(i, SendRequest(c[i]))
    /\ NextPacket
    /\ ev' = { x \in ev : x = Listener \/ c'[x].server # "Deregistered" } /\ out' = <<>>
    /\ UNCHANGED <<table, srcMap, cache, polling, garbled>>

Insert(i, s) == table' = table \cup {i} /\ srcMap' = [srcMap EXCEPT ![s] = i]

\* accept_once, a new source: a connection of the pool is registered under a
\* fresh index, which raises its edge, and carries the packet.
AcceptNew ==
    \E i \in Index \ table, h \in Handover :
    LET s == Head(inq)[1]
        d == Head(inq)[2]
    IN /\ Accepting /\ srcMap[s] = None
       /\ Insert(i, s)
       /\ cache' = cache \cup {d}
       /\ Update(i, SendRequest(NewConn(s, d, h)))
       /\ ev' = IF h = "cold" \/ c'[i].server = "Deregistered" THEN ev ELSE ev \cup {i}
       /\ NextPacket /\ out' = <<>>
       /\ UNCHANGED <<polling, garbled>>

\* The pool has no connection to give or the target's socket cannot be bound:
\* the packet is dropped.
AcceptFails ==
    LET s == Head(inq)[1] IN
    /\ Accepting /\ srcMap[s] = None
    /\ NextPacket /\ out' = <<>>
    /\ UNCHANGED <<table, c, srcMap, removed, cache, ev, polling, garbled>>

\* UdpServer::ready.  Connections leave the table between two batches only, so
\* an event always finds its connection.
HandleConn ==
    \E i \in table, ok \in BOOLEAN :
    LET x == Deliver(c[i].dst, Received(c[i]), ok)
        read == "r" \in batch[i]
    IN /\ ~polling /\ batch[i] # {}
       /\ Update(i, Ready(c[i], batch[i], x))
       /\ cache' = IF read THEN x.cache ELSE cache
       /\ out' = IF read THEN [k \in 1 .. Len(x.sent) |-> <<c[i].src>> \o x.sent[k]] ELSE <<>>
       /\ garbled' = (garbled \/ (read /\ Received(c[i]) # <<>> /\ Received(c[i])[1][2] = 2))
       /\ ev' = IF c'[i].server = "Deregistered" THEN ev \ {i} ELSE ev
       /\ batch' = [batch EXCEPT ![i] = {}]
       /\ UNCHANGED <<table, srcMap, inq, polling>>

\* Mutant: the source keeps its entry.
ForgetIndexOnly(dead) == table' = table \ dead /\ UNCHANGED srcMap

\* Both maps lose the connection.
Forget(dead) ==
    /\ table' = table \ dead
    /\ srcMap' = [s \in Src |-> IF \E i \in dead : c[i].src = s THEN None ELSE srcMap[s]]

RemoveClosed ==
    /\ ~polling /\ \A x \in DOMAIN batch : batch[x] = {}
    /\ Forget(removed \cap table)
    /\ c' = [i \in Index |-> IF i \in removed THEN Blank ELSE c[i]]
    /\ removed' = {} /\ polling' = TRUE /\ out' = <<>>
    /\ ev' = ev \ removed
    /\ UNCHANGED <<cache, inq, batch, garbled>>

\* Mutant: the cache forgets every socket.
UnusedAll == cache

\* Rc::strong_count(socket) == 1: only the cache holds it.
Unused == { d \in cache : \A i \in table : c[i].dst # d }

\* UdpSvrCache::check_timeout
CheckTimeout ==
    /\ polling /\ cache' = cache \ Unused /\ out' = <<>>
    /\ UNCHANGED <<table, c, srcMap, removed, inq, ev, batch, polling, garbled>>

-----------------------------------------------------------------------------
(* Time, the clients, the kernel and the server *)

\* 120 seconds without an event of the connection
Quiet(i) ==
    /\ i \in table /\ ~c[i].idle
    /\ c' = [c EXCEPT ![i].idle = TRUE] /\ out' = <<>>
    /\ UNCHANGED <<table, srcMap, removed, cache, inq, ev, batch, polling, garbled>>

ClientSend(s) ==
    \E d \in Dst :
       /\ Len(inq) < MaxQueue
       /\ inq' = Append(inq, <<s, d>>)
       /\ ev' = ev \cup {Listener} /\ out' = <<>>
       /\ UNCHANGED <<table, c, srcMap, removed, cache, batch, polling, garbled>>

\* The kernel or the server does something to a registered socket.
Outside(i, r) ==
    /\ c' = [c EXCEPT ![i] = r]
    /\ ev' = IF Registered(i) THEN ev \cup {i} ELSE ev
    /\ out' = <<>>
    /\ UNCHANGED <<table, srcMap, removed, cache, inq, batch, polling, garbled>>

ServerConnect(i) ==
    /\ Registered(i) /\ c[i].scon = "connecting" /\ c[i].send = "open"
    /\ \/ Outside(i, [c[i] EXCEPT !.scon = "up"])
       \/ Outside(i, [c[i] EXCEPT !.send = "rst"])

ServerHello(i) ==
    /\ Registered(i) /\ c[i].tls = "sent" /\ ~c[i].hin /\ c[i].send = "open"
    /\ Outside(i, [c[i] EXCEPT !.hin = TRUE])

\* The server continues a frame, starts one, or breaks the protocol between
\* two frames.
InFlight(r) == r.sendBuffer \o r.sin
ServerSend(i) ==
    LET q == InFlight(c[i]) IN
    /\ Registered(i) /\ c[i].tls = "done" /\ c[i].send = "open" /\ Alive(c[i].server)
    /\ Len(q) < MaxIn
    /\ \E h \in Half :
        /\ IF q # <<>> /\ q[Len(q)][2] = 1 THEN h = <<q[Len(q)][1], 2>> ELSE h[2] # 2
        /\ Outside(i, [c[i] EXCEPT !.sin = Append(@, h)])

ServerClose(i) ==
    /\ Registered(i) /\ c[i].scon = "up" /\ c[i].send = "open" /\ ~IsShutdown(c[i].server)
    /\ \E how \in {"fin", "rst"} : Outside(i, [c[i] EXCEPT !.send = how])

ServerRecv(i) ==
    /\ Registered(i) /\ c[i].sout > 0 /\ c[i].send # "rst"
    /\ IF c[i].sblk THEN Outside(i, [c[i] EXCEPT !.sout = @ - 1, !.sblk = FALSE])
       ELSE /\ c' = [c EXCEPT ![i].sout = @ - 1] /\ out' = <<>>
            /\ UNCHANGED <<table, srcMap, removed, cache, inq, ev, batch, polling, garbled>>

Loop == Fetch \/ AcceptKnown \/ AcceptNew \/ AcceptFails \/ HandleConn \/ RemoveClosed

Next ==
    \/ Loop \/ CheckTimeout
    \/ \E s \in Src : ClientSend(s)
    \/ \E i \in Index : \/ Quiet(i) \/ ServerConnect(i) \/ ServerHello(i)
                        \/ ServerSend(i) \/ ServerClose(i) \/ ServerRecv(i)

Spec == Init /\ [][Next]_vars

\* Weak fairness of Loop, spelled out: only Loop changes polling or batch.
LoopRuns == []<><<polling' # polling \/ batch' # batch>>_vars \/ []<>(polling /\ ev = {})

\* The loop runs, the kernel completes connects, the server answers a hello
\* and reads.
FairSpec ==
    /\ Spec /\ LoopRuns
    /\ \A i \in Index : WF_vars(ServerConnect(i)) /\ WF_vars(ServerHello(i)) /\ WF_vars(ServerRecv(i))

\* Time passes and every source goes on sending.
SendingSpec ==
    /\ FairSpec
    /\ \A i \in Index : WF_vars(Quiet(i))
    /\ \A s \in Src : WF_vars(ClientSend(s))

-----------------------------------------------------------------------------
(* Properties *)

\* Every variable keeps its type; no session and no socket buffer overflows.
TypeOK ==
    /\ table \subseteq Index /\ removed \subseteq Index /\ cache \subseteq Dst
    /\ c \in [Index -> ConnState] /\ srcMap \in [Src -> Index \cup {None}]
    /\ \A i \in Index : c[i].sout <= SockCap /\ c[i].plain + c[i].session <= SessLimit
    /\ inq \in Seq(Src \X Dst) /\ polling \in BOOLEAN /\ garbled \in BOOLEAN
    /\ ev \subseteq Index \cup {Listener}
    /\ batch \in [Index \cup {Listener} -> SUBSET {"r", "w"}]
    /\ out \in Seq(Src \X Dst \X Dst)

\* conns and src_map describe the same connections, whatever was accepted,
\* closed or put twice on the removed list within one batch: a source is never
\* mapped to a connection that is gone or belongs to another source.
MapsAgree ==
    /\ \A s \in Src : srcMap[s] # None => srcMap[s] \in table /\ c[srcMap[s]].src = s
    /\ \A i \in table : c[i].src \in Src /\ srcMap[c[i].src] = i

\* A socket some connection answers through is never dropped from the cache:
\* the cache never binds a second socket to the address of one still in use.
SocketsShared == \A i \in table : c[i].dst \in cache

\* A datagram goes to the source that owns the connection, in the name of the
\* address its frame carries, and frames split over reads are put together
\* again, and no buffer overflows.
AnsweredInName ==
    /\ TypeOK
    /\ \A k \in 1 .. Len(out) : out[k][2] = out[k][3]
    /\ ~garbled

Pending(x) == x \in ev \/ batch[x] # {}

\* No lost wake-up: unread data has an event pending (nothing here postpones a
\* read), and unsent records have an event pending or a full socket.
NoStall ==
    \A i \in table :
        (~IsShutdown(c[i].server) /\ ~Pending(i) /\ c[i].scon = "up")
            => /\ c[i].sin = <<>> /\ ~c[i].hin /\ c[i].send = "open"
               /\ WantsWrite(c[i]) => c[i].sblk /\ c[i].sout = SockCap

\* A source whose connection to the server has died gets rid of it as long as
\* it keeps sending: the 120 second rule of send_request frees the entry even
\* where do_status never could.
DeadEndLeft == \A i \in Index : []<>(i \notin table \/ ~IsShutdown(c[i].server))
=============================================================================
