------------------------------ MODULE ProxyTcp ------------------------------
(***************************************************************************)
(* One TCP connection of the mio proxy (src/src/proxy/tcp_server.rs): the  *)
(* intercepted client, the TLS connection to the trojan server taken from  *)
(* the idle pool, and the proxy's event loop.                              *)
(*                                                                         *)
(* The TLS handshake matters here: until the server's answer has been read *)
(* rustls keeps plaintext back (plain) and has no record to write.  As in  *)
(* ServerConn the methods are operators on the record c, ev holds epoll    *)
(* edges nobody has fetched and batch the events of the current poll.      *)
(* Unit 0 of the upward stream is the trojan request head.                 *)
(***************************************************************************)
EXTENDS ConnStatus, Sequences

CONSTANTS
    MaxUp,      \* units the client may send
    MaxDown,    \* units the server may send
    SockCap,    \* units a kernel send buffer holds
    SessLimit,  \* units a rustls session queues before write_all fails
    Handover    \* the states of the connections the idle pool hands out

VARIABLES
    c,          \* the connection, see ConnState
    ev,         \* edges raised and not fetched
    batch,      \* fetched events: source -> readiness, {} when none
    polling,    \* TRUE between two batches
    removed,    \* the index is in TcpServer.removed
    gone,       \* the index is no longer in TcpServer.conns
    timedOut,   \* check_timeout closed it
    upSent,     \* units the client has sent
    downSent,   \* units the server has sent
    clientGot, serverGot

env  == <<upSent, downSent, clientGot, serverGot>>
sys  == <<batch, polling, removed, gone, timedOut>>
vars == <<c, ev, batch, polling, removed, gone, timedOut,
          upSent, downSent, clientGot, serverGot>>

Source == {"client", "server"}

\* client, server: the two ConnStatus values; tls: the handshake as this side
\* sees it ("start": the ClientHello is not written); plain, session: what
\* write_session accepted before and after the handshake; sendBuffer: for the
\* client; cin, cout, sin, sout: kernel buffers, cblk, sblk: a write met a full
\* one; hin: the server's handshake answer is in the kernel; cend, send: how
\* the peer has closed; scon: the connect to the server; broken: the session
\* was full; unflushed: the handshake was completed by an event of the client.
ConnState ==
    [ client: Status, server: Status, writable: BOOLEAN,
      tls: {"start", "sent", "done"}, plain: Seq(Nat), session: Seq(Nat),
      sendBuffer: Seq(Nat), readClient: BOOLEAN, readServer: BOOLEAN,
      cin: Seq(Nat), cout: Seq(Nat), cblk: BOOLEAN, cend: {"open", "fin", "rst"},
      sin: Seq(Nat), sout: Seq(Nat), sblk: BOOLEAN, send: {"open", "fin", "rst", "bad"},
      hin: BOOLEAN, scon: {"connecting", "up"}, broken: BOOLEAN, unflushed: BOOLEAN ]

Empty == <<>>
Smaller(a, b) == IF a <= b THEN a ELSE b
Take(q, n) == SubSeq(q, 1, n)
Drop(q, n) == SubSeq(q, n + 1, Len(q))

\* accept_once: reset_index has registered the pool's connection again, which
\* raises its edge, and setup has queued the request head.
NewConn(h) ==
    [ client |-> "Connecting", server |-> IF h = "cold" THEN "Connecting" ELSE "Established",
      writable |-> TRUE,
      tls |-> CASE h = "cold" -> "start" [] h = "hello" -> "sent" [] OTHER -> "done",
      plain |-> IF h = "warm" THEN Empty ELSE <<0>>,
      session |-> IF h = "warm" THEN <<0>> ELSE Empty,
      sendBuffer |-> Empty, readClient |-> FALSE, readServer |-> FALSE,
      cin |-> Empty, cout |-> Empty, cblk |-> FALSE, cend |-> "open",
      sin |-> Empty, sout |-> Empty, sblk |-> FALSE, send |-> "open",
      hin |-> FALSE, scon |-> IF h = "cold" THEN "connecting" ELSE "up",
      broken |-> FALSE, unflushed |-> FALSE ]

Init ==
    /\ \E h \in Handover : c = NewConn(h) /\ ev = IF h = "cold" THEN {"client"} ELSE Source
    /\ batch = [x \in Source |-> {}]
    /\ polling = TRUE /\ removed = FALSE /\ gone = FALSE /\ timedOut = FALSE
    /\ upSent = 0 /\ downSent = 0 /\ clientGot = Empty /\ serverGot = Empty

-----------------------------------------------------------------------------
(* The TLS connection to the server *)

WantsWrite(s) == s.tls = "start" \/ s.session # Empty

ServerWritable(s) == s.writable /\ Alive(s.server)

\* do_send
DoSend(s) ==
    LET n == Smaller(Len(s.session), SockCap - Len(s.sout)) IN
    IF s.server = "Connecting" THEN s
    ELSE IF ~WantsWrite(s) THEN [s EXCEPT !.writable = TRUE]
    ELSE IF IsShutdown(s.server) \/ s.send = "rst"
         THEN [s EXCEPT !.writable = TRUE, !.server = Shutdown(@)]
    ELSE [s EXCEPT !.tls = IF @ = "start" THEN "sent" ELSE @,
                   !.sout = @ \o Take(s.session, n), !.session = Drop(s.session, n),
                   !.writable = (n = Len(s.session)), !.sblk = @ \/ n < Len(s.session)]

\* What do_read returns.
ReadBuffer(s) == IF s.send = "bad" THEN Empty ELSE s.sin

\* Mutant: what was read is not processed.
DoReadUnprocessed(s) ==
    [s EXCEPT !.sin = Empty, !.hin = FALSE,
              !.server = IF s.send # "open" THEN Shutdown(@) ELSE @]

\* The rest of do_read: the handshake may complete, which turns the plaintext
\* kept back into records.
DoRead(s) ==
    LET done == s.hin /\ s.send # "bad"
    IN [s EXCEPT !.sin = Empty, !.hin = FALSE,
                 !.tls = IF done THEN "done" ELSE @,
                 !.session = IF done THEN @ \o s.plain ELSE @,
                 !.plain = IF done THEN Empty ELSE @,
                 !.server = IF s.send # "open" THEN Shutdown(@) ELSE @]

-----------------------------------------------------------------------------
(* Connection *)

Writable(s) == s.sendBuffer = Empty /\ Alive(s.client)

\* tcp_read: units move to the session until the client's socket is empty or
\* the session is full, in which case the unit in hand is lost and the TLS
\* connection shut down.
TcpRead(s) ==
    LET used == Len(s.plain) + Len(s.session)
        room == IF SessLimit > used THEN SessLimit - used ELSE 0
        in == Take(s.cin, Smaller(Len(s.cin), room))
        t == [s EXCEPT !.plain = IF s.tls = "done" THEN @ ELSE @ \o in,
                       !.session = IF s.tls = "done" THEN @ \o in ELSE @]
    IN IF Len(s.cin) > room
       THEN [t EXCEPT !.cin = Drop(s.cin, room + 1), !.server = Shutdown(@), !.broken = TRUE]
       ELSE [t EXCEPT !.cin = Empty, !.client = IF s.cend # "open" THEN Shutdown(@) ELSE @]

\* Mutant: no do_send after reading from the client.
TryReadClientNoSend(s) == [TcpRead(s) EXCEPT !.readClient = FALSE]

\* try_read_client, with the do_send that ends it
TryReadClient(s) == DoSend([TcpRead(s) EXCEPT !.readClient = FALSE])

\* try_send_server
TrySendServer(s) ==
    LET t == DoSend(s)
    IN IF ServerWritable(t) /\ t.readClient THEN TryReadClient(t) ELSE t

\* Mutant: what a blocked write leaves is queued with what it took.
DoSendClientRepeats(s, buffer) ==
    LET all == s.sendBuffer \o buffer
        n == Smaller(Len(all), SockCap - Len(s.cout))
    IN IF s.client = "Connecting" THEN [s EXCEPT !.sendBuffer = all]
       ELSE IF all = Empty THEN s
       ELSE IF s.cend = "rst" \/ IsShutdown(s.client)
            THEN [s EXCEPT !.sendBuffer = Empty, !.client = Shutdown(@)]
       ELSE [s EXCEPT !.cout = @ \o Take(all, n),
                      !.sendBuffer = IF n = Len(all) THEN Empty ELSE all,
                      !.cblk = @ \/ n < Len(all)]

\* The first half of try_send_client, with do_send_client and tcp_send.
DoSendClient(s, buffer) ==
    LET all == s.sendBuffer \o buffer
        n == Smaller(Len(all), SockCap - Len(s.cout))
    IN IF s.client = "Connecting" THEN [s EXCEPT !.sendBuffer = all]
       ELSE IF all = Empty THEN s
       ELSE IF s.cend = "rst" \/ IsShutdown(s.client)
            THEN [s EXCEPT !.sendBuffer = Empty, !.client = Shutdown(@)]
       ELSE [s EXCEPT !.cout = @ \o Take(all, n), !.sendBuffer = Drop(all, n),
                      !.cblk = @ \/ n < Len(all)]

\* try_read_server.  The try_send_client it calls could only read the server
\* once more and find nothing.
TryReadServer(s) == DoSendClient(DoRead(s), ReadBuffer(s))

\* try_send_client(&[])
TrySendClient(s) ==
    LET t == DoSendClient(s, Empty)
    IN IF Writable(t) /\ t.readServer
       THEN [TryReadServer(t) EXCEPT !.readServer = FALSE,
                                     !.unflushed = @ \/ (t.hin /\ t.plain # Empty)]
       ELSE t

-----------------------------------------------------------------------------
(* Connection::ready *)

ClientReadable(s) ==
    IF ServerWritable(s) THEN TryReadClient(s) ELSE [s EXCEPT !.readClient = TRUE]

ClientWriteReady(s) == TrySendClient([s EXCEPT !.client = Established(@)])

ServerReadable(s) ==
    DoSend(IF Writable(s) THEN TryReadServer(s) ELSE [s EXCEPT !.readServer = TRUE])

ServerWriteReady(s) == TrySendServer([s EXCEPT !.server = Established(@)])

\* Mutants: a side shuts down as soon as the other has, queued data or not;
\* the client's check_status is left out.
SettleCutsServer(s) ==
    LET v == IF IsShutdown(s.client) THEN Shutdown(s.server) ELSE s.server
        k == IF IsShutdown(v) THEN PeerClosed(s.client) ELSE s.client
    IN [s EXCEPT !.client = CheckStatus(k, s.sendBuffer = Empty),
                 !.server = CheckStatus(v, FALSE)]

SettleNoCheck(s) ==
    LET v == IF IsShutdown(s.client) THEN PeerClosed(s.server) ELSE s.server
        k == IF IsShutdown(v) THEN PeerClosed(s.client) ELSE s.client
    IN [s EXCEPT !.client = k, !.server = CheckStatus(v, ~WantsWrite(s))]

Settle(s) ==
    LET v == IF IsShutdown(s.client) THEN PeerClosed(s.server) ELSE s.server
        k == IF IsShutdown(v) THEN PeerClosed(s.client) ELSE s.client
    IN [s EXCEPT !.client = CheckStatus(k, s.sendBuffer = Empty),
                 !.server = CheckStatus(v, ~WantsWrite(s))]

ReadyClient(s, flags) ==
    LET t == IF "r" \in flags THEN ClientReadable(s) ELSE s
    IN Settle(IF "w" \in flags THEN ClientWriteReady(t) ELSE t)

ReadyServer(s, flags) ==
    LET t == IF "r" \in flags THEN ServerReadable(s) ELSE s
    IN Settle(IF "w" \in flags THEN ServerWriteReady(t) ELSE t)

Destroyed(s) == s.client = "Deregistered" /\ s.server = "Deregistered"

Destroy(s) ==
    [s EXCEPT !.client = CheckStatus(Shutdown(@), FALSE),
              !.server = CheckStatus(Shutdown(@), FALSE)]

-----------------------------------------------------------------------------
(* The event loop *)

Registered(x) == ~gone /\ c[x] # "Deregistered"

Raise(x) == ev' = IF Registered(x) THEN ev \cup {x} ELSE ev

Flags(x) ==
    IF x = "client"
    THEN (IF c.cin # Empty \/ c.cend # "open" \/ IsShutdown(c.client) THEN {"r"} ELSE {})
         \cup (IF Len(c.cout) < SockCap \/ c.cend = "rst" THEN {"w"} ELSE {})
    ELSE (IF c.sin # Empty \/ c.hin \/ c.send # "open" \/ IsShutdown(c.server) THEN {"r"} ELSE {})
         \cup (IF (c.scon = "up" /\ Len(c.sout) < SockCap) \/ c.send = "rst" THEN {"w"} ELSE {})

\* poll.poll.  A socket the kernel finds full is marked, as by a failed write,
\* to raise an edge when there is room again.
Fetch ==
    /\ polling /\ ev # {}
    /\ batch' = [x \in Source |-> IF x \in ev THEN Flags(x) ELSE {}]
    /\ c' = [c EXCEPT !.cblk = @ \/ ("client" \in ev /\ Len(c.cout) = SockCap),
                     !.sblk = @ \/ ("server" \in ev /\ Len(c.sout) = SockCap)]
    /\ ev' = {} /\ polling' = FALSE
    /\ UNCHANGED <<removed, gone, timedOut, env>>

AfterReady(s, x) ==
    /\ c' = s
    /\ removed' = (removed \/ Destroyed(s))
    /\ ev' = { y \in ev : s[y] # "Deregistered" }
    /\ batch' = [batch EXCEPT ![x] = {}]
    /\ UNCHANGED <<polling, gone, timedOut, env>>

HandleClient ==
    /\ ~polling /\ batch["client"] # {}
    /\ AfterReady(ReadyClient(c, batch["client"]), "client")

HandleServer ==
    /\ ~polling /\ batch["server"] # {}
    /\ AfterReady(ReadyServer(c, batch["server"]), "server")

RemoveClosed ==
    /\ ~polling /\ \A x \in Source : batch[x] = {}
    /\ polling' = TRUE /\ removed' = FALSE
    /\ gone' = (gone \/ removed)
    /\ ev' = IF removed THEN {} ELSE ev
    /\ UNCHANGED <<c, batch, timedOut, env>>

CheckTimeout ==
    /\ polling /\ ~gone
    /\ c' = Destroy(c)
    /\ gone' = TRUE /\ timedOut' = TRUE /\ ev' = {}
    /\ UNCHANGED <<batch, polling, removed, env>>

-----------------------------------------------------------------------------
(* The peers and the kernel *)

ClientSend ==
    /\ ~gone /\ c.cend = "open" /\ ~IsShutdown(c.client) /\ upSent < MaxUp
    /\ c' = [c EXCEPT !.cin = Append(@, upSent + 1)]
    /\ upSent' = upSent + 1
    /\ Raise("client")
    /\ UNCHANGED <<sys, downSent, clientGot, serverGot>>

ClientClose ==
    /\ ~gone /\ c.cend = "open" /\ ~IsShutdown(c.client)
    /\ \E how \in {"fin", "rst"} : c' = [c EXCEPT !.cend = how]
    /\ Raise("client")
    /\ UNCHANGED <<sys, env>>

ClientRecv ==
    /\ c.cout # Empty /\ c.cend # "rst"
    /\ clientGot' = Append(clientGot, Head(c.cout))
    /\ c' = [c EXCEPT !.cout = Tail(@), !.cblk = FALSE]
    /\ IF c.cblk THEN Raise("client") ELSE UNCHANGED ev
    /\ UNCHANGED <<sys, upSent, downSent, serverGot>>

\* The kernel completes the connect, one way or the other.
ServerConnect ==
    /\ ~gone /\ c.scon = "connecting" /\ c.send = "open"
    /\ \/ c' = [c EXCEPT !.scon = "up"]
       \/ c' = [c EXCEPT !.send = "rst"]
    /\ Raise("server")
    /\ UNCHANGED <<sys, env>>

\* The server answers the ClientHello.
ServerHello ==
    /\ ~gone /\ c.tls = "sent" /\ ~c.hin /\ c.send = "open"
    /\ c' = [c EXCEPT !.hin = TRUE]
    /\ Raise("server")
    /\ UNCHANGED <<sys, env>>

\* It sends data once it has seen the request head.
ServerSend ==
    /\ ~gone /\ serverGot # Empty /\ c.send = "open" /\ Alive(c.server) /\ downSent < MaxDown
    /\ c' = [c EXCEPT !.sin = Append(@, downSent + 1)]
    /\ downSent' = downSent + 1
    /\ Raise("server")
    /\ UNCHANGED <<sys, upSent, clientGot, serverGot>>

ServerClose ==
    /\ ~gone /\ c.scon = "up" /\ c.send = "open" /\ ~IsShutdown(c.server)
    /\ \E how \in {"fin", "rst", "bad"} : c' = [c EXCEPT !.send = how]
    /\ Raise("server")
    /\ UNCHANGED <<sys, env>>

ServerRecv ==
    /\ c.sout # Empty /\ c.send # "rst"
    /\ serverGot' = Append(serverGot, Head(c.sout))
    /\ c' = [c EXCEPT !.sout = Tail(@), !.sblk = FALSE]
    /\ IF c.sblk THEN Raise("server") ELSE UNCHANGED ev
    /\ UNCHANGED <<sys, upSent, downSent, clientGot>>

Loop == Fetch \/ HandleClient \/ HandleServer \/ RemoveClosed

Next ==
    \/ Loop \/ CheckTimeout
    \/ ClientSend \/ ClientClose \/ ClientRecv
    \/ ServerConnect \/ ServerHello \/ ServerSend \/ ServerClose \/ ServerRecv

Spec == Init /\ [][Next]_vars

\* Weak fairness of Loop, spelled out: only Loop changes polling or batch.
LoopRuns == []<><<polling' # polling \/ batch' # batch>>_vars \/ []<>(polling /\ ev = {})

\* The loop runs, the kernel completes a connect, the server answers a hello,
\* and both peers read what reaches them.
Fairness ==
    /\ LoopRuns /\ WF_vars(ServerConnect) /\ WF_vars(ServerHello)
    /\ WF_vars(ClientRecv) /\ WF_vars(ServerRecv)

FairSpec == Spec /\ Fairness

-----------------------------------------------------------------------------
(* Properties *)

\* Every variable keeps its type and no kernel buffer overflows.
TypeOK ==
    /\ c \in ConnState /\ Len(c.cout) <= SockCap /\ Len(c.sout) <= SockCap
    /\ ev \subseteq Source /\ batch \in [Source -> SUBSET {"r", "w"}]
    /\ polling \in BOOLEAN /\ removed \in BOOLEAN /\ gone \in BOOLEAN /\ timedOut \in BOOLEAN
    /\ upSent \in 0 .. MaxUp /\ downSent \in 0 .. MaxDown
    /\ clientGot \in Seq(Nat) /\ serverGot \in Seq(Nat)

UpStream == [i \in 1 .. upSent + 1 |-> i - 1]
DownStream == [i \in 1 .. downSent |-> i]
IsPrefixOf(p, q) == Len(p) <= Len(q) /\ p = Take(q, Len(p))

\* The server sees the request head first and then the client's units in
\* order, whether they were queued before or after the handshake; the client
\* sees the server's units in order through every partial write, and no buffer
\* overflows.
StreamsInOrder ==
    /\ TypeOK
    /\ IsPrefixOf(serverGot \o c.sout, UpStream)
    /\ IsPrefixOf(clientGot \o c.cout, DownStream)

\* Towards the client: it is shut down only after its socket has taken everything.
FlushedToClient ==
    (c.send = "fin" /\ c.cend = "open" /\ IsShutdown(c.client) /\ ~c.broken /\ ~timedOut)
        => clientGot \o c.cout = DownStream

\* Towards the server, after the handshake.
FlushedToServer ==
    (/\ c.cend = "fin" /\ c.send = "open" /\ c.tls = "done"
     /\ IsShutdown(c.server) /\ ~c.broken /\ ~timedOut)
        => serverGot \o c.sout = UpStream

\* A side that closes after its last byte loses nothing.  (A client that closes
\* before the handshake is over does: finish_send asks wants_write, which does
\* not count the plaintext that rustls keeps back.)
Flushed == FlushedToClient /\ FlushedToServer

Pending(x) == x \in ev \/ batch[x] # {}

\* Data a socket holds without a pending event is remembered
\* in read_client or read_server, and the other socket's event that will
\* resume the reading is still to come.
NoStallRead ==
    /\ (~gone /\ ~IsShutdown(c.client) /\ ~IsShutdown(c.server) /\ ~Pending("client")
          /\ (c.cin # Empty \/ c.cend # "open"))
        => /\ c.readClient
           /\ Pending("server") \/ c.scon = "connecting" \/ Len(c.sout) = SockCap
    /\ (~gone /\ ~IsShutdown(c.client) /\ ~IsShutdown(c.server) /\ ~Pending("server")
          /\ (c.sin # Empty \/ c.hin \/ c.send # "open"))
        => c.readServer /\ (Pending("client") \/ Len(c.cout) = SockCap)

\* Queued data always has a writable event to look forward to; the exception
\* is a handshake completed by an event of the client, after which
\* try_send_client does not flush.
NoStallSend ==
    /\ (~gone /\ Alive(c.client) /\ c.sendBuffer # Empty /\ ~Pending("client"))
        => c.cblk /\ Len(c.cout) = SockCap
    /\ (~gone /\ Alive(c.server) /\ WantsWrite(c) /\ ~Pending("server") /\ ~c.unflushed)
        => c.sblk /\ Len(c.sout) = SockCap

\* No lost wake-up: whatever ready leaves unread or unsent is remembered and
\* has an event to come that resumes it.
NoStall == NoStallRead /\ NoStallSend

\* Once the client or the server has closed, the connection is eventually
\* removed even if no timeout ever strikes.
ClosedIsRemoved == []<>(gone \/ (c.cend = "open" /\ c.send = "open"))

\* Again and again everything the client has sent has reached the server, unless the
\* connection goes away or the handshake was completed by the client's event.
UpDelivered == []<>(gone \/ c.unflushed \/ Len(serverGot) > upSent)
=============================================================================
