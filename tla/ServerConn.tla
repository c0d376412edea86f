----------------------------- MODULE ServerConn -----------------------------
(***************************************************************************)
(* One connection of the mio server (src/src/server): the TLS endpoint     *)
(* towards the trojan client, the TCP or UDP backend towards the target,   *)
(* the DNS query in between, and the event loop that drives them.          *)
(*                                                                         *)
(* The record c holds the fields of Connection, TlsConn and the backend    *)
(* together with the kernel's socket buffers.  A method of the code is an  *)
(* operator from record to record, so a handler is the composition of the  *)
(* methods it calls, in the order it calls them.  Data is a sequence of    *)
(* units; the client's unit 0 is the trojan request head.                  *)
(*                                                                         *)
(* mio registers sockets with edge-triggered epoll: ev holds the edges     *)
(* nobody has fetched, batch the events of the current poll with the       *)
(* readiness they had when they were fetched.                              *)
(***************************************************************************)
EXTENDS ConnStatus, Sequences

CONSTANTS
    MaxUp,      \* payload units the client may send after the head
    MaxDown,    \* units the target may send
    SockCap,    \* units a kernel send buffer holds
    SessLimit,  \* units a rustls session queues before write_all fails
    Requests    \* the kinds of request a client may open the connection with

ASSUME ConstAssumption ==
    /\ MaxUp \in Nat /\ MaxDown \in Nat
    /\ SockCap \in Nat \ {0} /\ SessLimit \in Nat \ {0}
    /\ Requests \subseteq {"ip", "domain", "udp", "udpBad", "none"}

VARIABLES
    req,        \* what TrojanRequest::parse will find in unit 0; after "udpBad"
                \* unit 2 is not a packet the UDP backend accepts
    c,          \* the connection, see ConnState
    dns,        \* the query handed to the resolver thread
    ev,         \* edges raised and not fetched
    batch,      \* fetched events: source -> readiness, {} when none
    polling,    \* TRUE between two batches
    removed,    \* the index is in TlsServer.removed
    gone,       \* the index is no longer in TlsServer.conns
    timedOut,   \* check_timeout closed it
    upSent,     \* units the client has sent
    downSent,   \* units the target has sent
    clientGot, targetGot

env  == <<upSent, downSent, clientGot, targetGot>>
vars == <<req, c, dns, ev, batch, polling, removed, gone, timedOut,
          upSent, downSent, clientGot, targetGot>>

Source == {"proxy", "backend", "resolver"}
Close  == {"open", "fin", "rst", "bad"}

\* proxy, backend: the two ConnStatus values ("None" is Option::None);
\* data, session, sendBuffer: Connection.data, the TLS records not yet
\* written, the backend's send_buffer; cin, cout, tin, tout: kernel buffers
\* of the two sockets; cblk, tblk: a write met a full buffer; cend, tend: how
\* the peer has closed; tcon: the connect to the target; broken: the
\* session was full or the target's socket could not be opened.
ConnState ==
    [ phase: {"HandShake", "DnsWait", "TCPForward", "UDPForward"},
      target: BOOLEAN, proxy: Status, proxyWritable: BOOLEAN,
      backend: Status \cup {"None"},
      data: Seq(Nat), session: Seq(Nat), sendBuffer: Seq(Nat),
      readProxy: BOOLEAN, readBackend: BOOLEAN,
      cin: Seq(Nat), cout: Seq(Nat), cblk: BOOLEAN, cend: Close,
      tin: Seq(Nat), tout: Seq(Nat), tblk: BOOLEAN, tend: {"open", "fin", "rst"},
      tcon: {"no", "connecting", "up"}, broken: BOOLEAN ]

Empty == <<>>

\* Connection::new and TlsConn::new
NewConn ==
    [ phase |-> "HandShake", target |-> FALSE, proxy |-> "Connecting",
      proxyWritable |-> TRUE, backend |-> "None",
      data |-> Empty, session |-> Empty, sendBuffer |-> Empty,
      readProxy |-> FALSE, readBackend |-> FALSE,
      cin |-> Empty, cout |-> Empty, cblk |-> FALSE, cend |-> "open",
      tin |-> Empty, tout |-> Empty, tblk |-> FALSE, tend |-> "open",
      tcon |-> "no", broken |-> FALSE ]

\* accept has registered a connection.
Init ==
    /\ req \in Requests
    /\ c = NewConn
    /\ dns = "idle"
    /\ ev = {"proxy"}                      \* registered: writable at once
    /\ batch = [x \in Source |-> {}]
    /\ polling = TRUE
    /\ removed = FALSE /\ gone = FALSE /\ timedOut = FALSE
    /\ upSent = 0 /\ downSent = 0
    /\ clientGot = Empty /\ targetGot = Empty

-----------------------------------------------------------------------------
(* Helpers on buffers *)

Smaller(a, b) == IF a <= b THEN a ELSE b
Take(q, n) == SubSeq(q, 1, n)
Drop(q, n) == SubSeq(q, n + 1, Len(q))

-----------------------------------------------------------------------------
(* TlsConn *)

ProxyWritable(s) == s.proxyWritable /\ Alive(s.proxy)

\* What do_read returns: everything the socket holds, unless the records do
\* not decrypt.
ReadBuffer(s) == IF s.cend = "bad" THEN Empty ELSE s.cin

\* The rest of do_read: the socket is drained; end of file, an error and a
\* bad record all shut the endpoint down.
DoReadProxy(s) ==
    [s EXCEPT !.cin = Empty,
              !.proxy = IF s.cend # "open" THEN Shutdown(@) ELSE @]

\* do_send: nothing before the socket is connected; otherwise the session is
\* written until it is empty, the socket is full, or the write fails.
DoSendProxy(s) ==
    LET n == Smaller(Len(s.session), SockCap - Len(s.cout)) IN
    IF s.proxy = "Connecting" THEN s
    ELSE IF s.session = Empty THEN [s EXCEPT !.proxyWritable = TRUE]
    ELSE IF IsShutdown(s.proxy) \/ s.cend = "rst"
         THEN [s EXCEPT !.proxyWritable = TRUE, !.proxy = Shutdown(@)]
    ELSE [s EXCEPT !.cout = @ \o Take(s.session, n),
                   !.session = Drop(s.session, n),
                   !.proxyWritable = (n = Len(s.session)),
                   !.cblk = @ \/ n < Len(s.session)]

-----------------------------------------------------------------------------
(* Backends *)

\* Backend::writable; without a backend ready() takes it for granted.
BackendWritable(s) ==
    /\ s.backend # "None" => Alive(s.backend)
    /\ s.phase = "TCPForward" => s.sendBuffer = Empty

\* Mutant: tcp_read pays no attention to the session's limit.
TcpReadNoLimit(s) ==
    [s EXCEPT !.session = @ \o s.tin, !.tin = Empty,
              !.backend = IF s.tend # "open" THEN Shutdown(@) ELSE @]

\* tcp_read: units move to the session until the socket is empty or the
\* session is full, in which case the unit in hand is lost and the proxy
\* endpoint shut down; end of file and errors shut the backend down.
TcpRead(s) ==
    LET room == SessLimit - Len(s.session) IN
    IF Len(s.tin) > room
    THEN [s EXCEPT !.session = @ \o Take(s.tin, room), !.tin = Drop(s.tin, room + 1),
                   !.proxy = Shutdown(@), !.broken = TRUE]
    ELSE [s EXCEPT !.session = @ \o s.tin, !.tin = Empty,
                   !.backend = IF s.tend # "open" THEN Shutdown(@) ELSE @]

TcpDoRead(s) == DoSendProxy(TcpRead(s))

\* UdpBackend::do_read: the same loop with a datagram per turn, a receive
\* error instead of an end of file.
UdpDoRead(s) == DoSendProxy(TcpRead(s))

\* Backend::do_read
DoReadBackend(s) == IF s.phase = "UDPForward" THEN UdpDoRead(s) ELSE TcpDoRead(s)

Room(s) == IF s.tcon = "up" THEN SockCap - Len(s.tout) ELSE 0

\* The write loop of both backends: what the socket does not take is kept.
WriteOut(s, all, n) ==
    [s EXCEPT !.tout = @ \o Take(all, n),
              !.sendBuffer = Drop(all, n),
              !.tblk = @ \/ n < Len(all)]

\* TcpBackend::dispatch: send_buffer and the new data are written together, a
\* failed write drops everything.
TcpDispatch(s, buffer) ==
    LET all == s.sendBuffer \o buffer IN
    IF all = Empty THEN s
    ELSE IF s.tend = "rst" \/ IsShutdown(s.backend)
         THEN [s EXCEPT !.sendBuffer = Empty, !.backend = Shutdown(@)]
    ELSE WriteOut(s, all, Smaller(Len(all), Room(s)))

\* How many packets UdpAssociate::parse accepts at the front of a buffer.
GoodPackets(all) ==
    IF req = "udpBad" /\ \E i \in 1 .. Len(all) : all[i] = 2
    THEN (CHOOSE i \in 1 .. Len(all) : all[i] = 2) - 1
    ELSE Len(all)

\* UdpBackend::dispatch: packet by packet; a packet that cannot be parsed or
\* sent drops the rest.  Shutting the backend down does not close the socket.
UdpDispatch(s, buffer) ==
    LET all == s.sendBuffer \o buffer
        good == GoodPackets(all)
    IN IF all = Empty THEN s
       ELSE IF s.tend = "rst" THEN [s EXCEPT !.sendBuffer = Empty, !.backend = Shutdown(@)]
       ELSE IF good < Len(all) /\ good <= Room(s)
            THEN [s EXCEPT !.tout = @ \o Take(all, good), !.sendBuffer = Empty,
                           !.backend = Shutdown(@), !.broken = TRUE]
       ELSE WriteOut(s, all, Smaller(Len(all), Room(s)))

\* Backend::dispatch
BackendDispatch(s, buffer) ==
    IF s.phase = "UDPForward" THEN UdpDispatch(s, buffer) ELSE TcpDispatch(s, buffer)

-----------------------------------------------------------------------------
(* Connection *)

IsUdp == req \in {"udp", "udpBad"}

\* How the system calls of one handler turn out.
Outcome == [hit: BOOLEAN, open: {"ok", "up", "connectErr", "registerErr"}]

\* try_handshake: the head decides the target; a domain that is not in the
\* DNS cache leaves it open.
TryHandshake(s, o) ==
    [s EXCEPT !.phase = "DnsWait",
              !.target = req \in {"ip", "none"} \/ (req = "domain" /\ o.hit)]

Queries(s, o) == s.phase = "HandShake" /\ req = "domain" /\ ~o.hit

Payload(s, buffer) ==
    IF s.phase = "HandShake" /\ req # "none" THEN Tail(buffer) ELSE buffer

\* Mutant: the data cached during the DNS query is cleared, not dispatched.
SetupTcpForgetsData(s, o) ==
    CASE o.open = "connectErr" -> [s EXCEPT !.proxy = Shutdown(@), !.broken = TRUE]
      [] o.open = "registerErr" ->
            [s EXCEPT !.proxy = Shutdown(@), !.broken = TRUE, !.phase = "TCPForward"]
      [] OTHER -> [s EXCEPT !.backend = "Established", !.data = Empty, !.phase = "TCPForward",
                            !.tcon = IF o.open = "up" THEN "up" ELSE "connecting"]

\* try_setup_tcp_target; the empty dispatch that follows it finds the socket
\* as the first one left it and changes nothing.
SetupTcp(s, o) ==
    CASE o.open = "connectErr" -> [s EXCEPT !.proxy = Shutdown(@), !.broken = TRUE]
      [] o.open = "registerErr" ->
            [s EXCEPT !.proxy = Shutdown(@), !.broken = TRUE, !.phase = "TCPForward"]
      [] OTHER ->
            LET t == [s EXCEPT !.backend = "Established", !.data = Empty,
                               !.tcon = IF o.open = "up" THEN "up" ELSE "connecting"]
            IN [BackendDispatch(t, s.data) EXCEPT !.phase = "TCPForward"]

\* try_setup_udp_target
SetupUdp(s, o) ==
    CASE o.open = "connectErr" -> [s EXCEPT !.proxy = Shutdown(@), !.broken = TRUE]
      [] o.open = "registerErr" ->
            [s EXCEPT !.proxy = Shutdown(@), !.broken = TRUE, !.phase = "UDPForward"]
      [] OTHER -> [s EXCEPT !.backend = "Established", !.tcon = "up",
                            !.phase = "UDPForward"]

\* The last arm of dispatch: without a backend the data is only logged.
Forward(s, buffer) ==
    IF s.backend = "None" THEN s ELSE BackendDispatch(s, buffer)

\* Mutant: new data is put before the data cached earlier.
DispatchDnsWaitFront(s, buffer, o) ==
    IF IsUdp
    THEN LET t == SetupUdp(s, o)
         IN IF t.phase = "UDPForward" THEN Forward(t, buffer) ELSE t
    ELSE LET t == [s EXCEPT !.data = buffer \o @]
         IN IF t.target THEN SetupTcp(t, o) ELSE t

\* The DnsWait arm of dispatch and, by `continue`, the arm after it.
DispatchDnsWait(s, buffer, o) ==
    IF IsUdp
    THEN LET t == SetupUdp(s, o)
         IN IF t.phase = "UDPForward" THEN Forward(t, buffer) ELSE t
    ELSE LET t == [s EXCEPT !.data = @ \o buffer]
         IN IF t.target THEN SetupTcp(t, o) ELSE t

\* Connection::dispatch
Dispatch(s, buffer, o) ==
    CASE s.phase = "HandShake" ->
            DispatchDnsWait(TryHandshake(s, o), Payload(s, buffer), o)
      [] s.phase = "DnsWait" -> DispatchDnsWait(s, buffer, o)
      [] OTHER -> Forward(s, buffer)

\* try_read_proxy
TryReadProxy(s, o) ==
    IF ReadBuffer(s) = Empty THEN DoReadProxy(s)
    ELSE Dispatch(DoReadProxy(s), ReadBuffer(s), o)

-----------------------------------------------------------------------------
(* Connection::ready *)

\* Mutant: read_proxy is not set when the backend is not writable.
ProxyReadableForgets(s, o) ==
    IF BackendWritable(s) THEN TryReadProxy(s, o) ELSE s

ProxyReadable(s, o) ==
    IF BackendWritable(s) THEN TryReadProxy(s, o)
    ELSE [s EXCEPT !.readProxy = TRUE]

ProxyWriteReady(s) ==
    LET t == DoSendProxy([s EXCEPT !.proxy = Established(@)])
    IN IF ProxyWritable(t) /\ t.readBackend
       THEN [(IF t.backend = "None" THEN t ELSE DoReadBackend(t))
                EXCEPT !.readBackend = FALSE]
       ELSE t

BackendReadable(s) ==
    IF ProxyWritable(s) THEN DoReadBackend(s) ELSE [s EXCEPT !.readBackend = TRUE]

BackendWriteReady(s, o) ==
    LET t == BackendDispatch(s, Empty)
    IN IF BackendWritable(t) /\ t.readProxy
       THEN [TryReadProxy(t, o) EXCEPT !.readProxy = FALSE]
       ELSE t

\* Mutants: an endpoint shuts down as soon as its peer has, queued data or
\* not; the backend's check_status is left out.
SettleCutsBackend(s) ==
    LET b == IF s.backend # "None" /\ IsShutdown(s.proxy) THEN Shutdown(s.backend) ELSE s.backend
        p == IF s.backend # "None" /\ IsShutdown(b) THEN PeerClosed(s.proxy) ELSE s.proxy
    IN [s EXCEPT !.proxy = CheckStatus(p, s.session = Empty),
                 !.backend = IF b = "None" THEN b ELSE CheckStatus(b, s.sendBuffer = Empty)]

SettleNoCheck(s) ==
    LET b == IF s.backend # "None" /\ IsShutdown(s.proxy) THEN PeerClosed(s.backend) ELSE s.backend
        p == IF s.backend # "None" /\ IsShutdown(b) THEN PeerClosed(s.proxy) ELSE s.proxy
    IN [s EXCEPT !.proxy = CheckStatus(p, s.session = Empty), !.backend = b]

\* The end of ready: each side learns that the other is closed, then both
\* run check_status.
Settle(s) ==
    LET b == IF s.backend # "None" /\ IsShutdown(s.proxy) THEN PeerClosed(s.backend) ELSE s.backend
        p == IF s.backend # "None" /\ IsShutdown(b) THEN PeerClosed(s.proxy) ELSE s.proxy
    IN [s EXCEPT !.proxy = CheckStatus(p, s.session = Empty),
                 !.backend = IF b = "None" THEN b
                             ELSE CheckStatus(b, s.sendBuffer = Empty)]

ReadyProxy(s, flags, o) ==
    LET t == IF "r" \in flags THEN ProxyReadable(s, o) ELSE s
        u == IF "w" \in flags THEN ProxyWriteReady(t) ELSE t
    IN Settle(u)

ReadyBackend(s, flags, o) ==
    LET t == IF "r" \in flags THEN BackendReadable(s) ELSE s
        u == IF "w" \in flags THEN BackendWriteReady(t, o) ELSE t
    IN Settle(IF s.phase \in {"UDPForward", "TCPForward"} /\ s.backend # "None" THEN u ELSE s)

\* Mutant: the address is kept for the next data of the client.
ReadyDnsLater(s, found, o) ==
    Settle(CASE s.phase = "DnsWait" /\ found -> [s EXCEPT !.target = TRUE]
             [] s.phase = "DnsWait" /\ ~found -> [s EXCEPT !.proxy = Shutdown(@)]
             [] OTHER -> s)

\* try_resolve
ReadyDns(s, found, o) ==
    Settle(CASE s.phase = "DnsWait" /\ found -> Dispatch([s EXCEPT !.target = TRUE], Empty, o)
             [] s.phase = "DnsWait" /\ ~found -> [s EXCEPT !.proxy = Shutdown(@)]
             [] OTHER -> s)

Destroyed(s) == s.proxy = "Deregistered" /\ s.backend \in {"None", "Deregistered"}

\* Connection::destroy
Destroy(s) ==
    [s EXCEPT !.proxy = CheckStatus(Shutdown(@), FALSE),
              !.backend = IF @ = "None" THEN @ ELSE CheckStatus(Shutdown(@), FALSE)]

-----------------------------------------------------------------------------
(* The event loop: run(), do_conn_event, remove_closed, check_timeout *)

Registered(x) ==
    CASE x = "proxy"   -> ~gone /\ c.proxy # "Deregistered"
      [] x = "backend" -> ~gone /\ c.backend \notin {"None", "Deregistered"}
      [] OTHER -> TRUE

Raise(x) == ev' = IF Registered(x) THEN ev \cup {x} ELSE ev

\* The readiness epoll reports for a source it has an edge for.
Flags(x) ==
    CASE x = "proxy" ->
            (IF c.cin # Empty \/ c.cend # "open" \/ IsShutdown(c.proxy) THEN {"r"} ELSE {})
            \cup (IF Len(c.cout) < SockCap \/ c.cend = "rst" \/ IsShutdown(c.proxy) THEN {"w"} ELSE {})
      [] x = "backend" ->
            (IF c.tin # Empty \/ c.tend # "open" \/ IsShutdown(c.backend) THEN {"r"} ELSE {})
            \cup (IF (c.tcon = "up" /\ Len(c.tout) < SockCap) \/ c.tend = "rst" THEN {"w"} ELSE {})
      [] OTHER -> {"r"}

\* poll.poll: the edges become the events of a batch.  A socket the kernel
\* finds full is marked, as by a failed write, to raise an edge when there is
\* room again.
Poll ==
    /\ polling /\ ev # {}
    /\ batch' = [x \in Source |-> IF x \in ev THEN Flags(x) ELSE {}]
    /\ c' = [c EXCEPT !.cblk = @ \/ ("proxy" \in ev /\ Len(c.cout) = SockCap),
                     !.tblk = @ \/ ("backend" \in ev /\ Len(c.tout) = SockCap)]
    /\ ev' = {} /\ polling' = FALSE
    /\ UNCHANGED <<req, dns, removed, gone, timedOut, env>>

\* do_conn_event after ready: a destroyed connection is put on the list, a
\* deregistered socket raises no more edges, a new one raises its first.
AfterReady(s, x) ==
    /\ c' = s
    /\ removed' = (removed \/ Destroyed(s))
    /\ ev' = { y \in ev \cup (IF c.backend = "None" /\ s.tcon = "up" THEN {"backend"} ELSE {}) :
                 /\ y = "proxy" => s.proxy # "Deregistered"
                 /\ y = "backend" => s.backend \notin {"None", "Deregistered"} }
    /\ batch' = [batch EXCEPT ![x] = {}]
    /\ UNCHANGED <<req, polling, gone, timedOut, env>>

HandleProxy ==
    /\ ~polling /\ batch["proxy"] # {} /\ ~gone
    /\ \E o \in Outcome :
        /\ AfterReady(ReadyProxy(c, batch["proxy"], o), "proxy")
        /\ dns' = IF Queries(c, o) /\ c'.phase # "HandShake" THEN "pending" ELSE dns

HandleBackend ==
    /\ ~polling /\ batch["backend"] # {} /\ ~gone
    /\ \E o \in Outcome : AfterReady(ReadyBackend(c, batch["backend"], o), "backend")
    /\ UNCHANGED dns

\* resolver.consume for this connection's answer
HandleDns ==
    /\ ~polling /\ batch["resolver"] # {} /\ ~gone
    /\ \E o \in Outcome : AfterReady(ReadyDns(c, dns = "found", o), "resolver")
    /\ dns' = "done"

\* ... and when the connection is not in the table any more
DnsNotFound ==
    /\ ~polling /\ batch["resolver"] # {} /\ gone
    /\ batch' = [batch EXCEPT !["resolver"] = {}]
    /\ dns' = "done"
    /\ UNCHANGED <<req, c, ev, polling, removed, gone, timedOut, env>>

\* The end of the loop body: remove_closed drops every listed connection.
RemoveClosed ==
    /\ ~polling /\ \A x \in Source : batch[x] = {}
    /\ polling' = TRUE
    /\ gone' = (gone \/ removed)
    /\ removed' = FALSE
    /\ ev' = IF gone \/ removed THEN ev \cap {"resolver"} ELSE ev
    /\ UNCHANGED <<req, c, dns, batch, timedOut, env>>

\* check_timeout after a poll that brought nothing for this connection
CheckTimeout ==
    /\ polling /\ ~gone
    /\ c' = Destroy(c)
    /\ gone' = TRUE /\ timedOut' = TRUE
    /\ ev' = ev \cap {"resolver"}
    /\ UNCHANGED <<req, dns, batch, polling, removed, env>>

\* The rayon thread of DnsResolver::resolve sends its answer and wakes the poll.
ResolverThread ==
    /\ dns = "pending"
    /\ dns' \in {"found", "failed"}
    /\ Raise("resolver")
    /\ UNCHANGED <<req, c, batch, polling, removed, gone, timedOut, env>>

-----------------------------------------------------------------------------
(* The peers and the kernel *)

sys == <<req, dns, batch, polling, removed, gone, timedOut>>

ClientSend ==
    /\ ~gone /\ c.cend = "open" /\ ~IsShutdown(c.proxy) /\ upSent <= MaxUp
    /\ c' = [c EXCEPT !.cin = Append(@, upSent)]
    /\ upSent' = upSent + 1
    /\ Raise("proxy")
    /\ UNCHANGED <<sys, downSent, clientGot, targetGot>>

ClientClose ==
    /\ ~gone /\ c.cend = "open" /\ ~IsShutdown(c.proxy)
    /\ \E how \in Close \ {"open"} : c' = [c EXCEPT !.cend = how]
    /\ Raise("proxy")
    /\ UNCHANGED <<sys, env>>

ClientRecv ==
    /\ c.cout # Empty /\ c.cend # "rst"
    /\ clientGot' = Append(clientGot, Head(c.cout))
    /\ c' = [c EXCEPT !.cout = Tail(@), !.cblk = FALSE]
    /\ IF c.cblk THEN Raise("proxy") ELSE UNCHANGED ev
    /\ UNCHANGED <<sys, upSent, downSent, targetGot>>

TargetAnswer ==
    /\ ~gone /\ c.tcon = "connecting" /\ c.tend = "open"
    /\ \/ c' = [c EXCEPT !.tcon = "up", !.tblk = FALSE]
       \/ c' = [c EXCEPT !.tend = "rst"]
    /\ Raise("backend")
    /\ UNCHANGED <<sys, env>>

TargetSend ==
    /\ ~gone /\ c.tcon = "up" /\ c.tend = "open" /\ Alive(c.backend) /\ downSent < MaxDown
    /\ c' = [c EXCEPT !.tin = Append(@, downSent + 1)]
    /\ downSent' = downSent + 1
    /\ Raise("backend")
    /\ UNCHANGED <<sys, upSent, clientGot, targetGot>>

\* A UDP target has no stream to end: only an error can be reported.
TargetClose ==
    /\ ~gone /\ c.tcon = "up" /\ c.tend = "open" /\ Alive(c.backend)
    /\ \E how \in {"fin", "rst"} :
        /\ IsUdp => how = "rst"
        /\ c' = [c EXCEPT !.tend = how]
    /\ Raise("backend")
    /\ UNCHANGED <<sys, env>>

TargetRecv ==
    /\ c.tout # Empty /\ c.tend # "rst"
    /\ targetGot' = Append(targetGot, Head(c.tout))
    /\ c' = [c EXCEPT !.tout = Tail(@), !.tblk = FALSE]
    /\ IF c.tblk THEN Raise("backend") ELSE UNCHANGED ev
    /\ UNCHANGED <<sys, upSent, downSent, clientGot>>

Loop == Poll \/ HandleProxy \/ HandleBackend \/ HandleDns \/ DnsNotFound \/ RemoveClosed

Next ==
    \/ Loop \/ CheckTimeout \/ ResolverThread
    \/ ClientSend \/ ClientClose \/ ClientRecv
    \/ TargetAnswer \/ TargetSend \/ TargetClose \/ TargetRecv

Spec == Init /\ [][Next]_vars

\* Weak fairness of Loop, with its enabling condition and its steps spelled
\* out (only Loop changes polling or batch) so that TLC need not evaluate
\* ENABLED Loop in every state.
LoopEnabled == ~polling \/ ev # {}
LoopRuns == []<><<polling' # polling \/ batch' # batch>>_vars \/ []<>~LoopEnabled

\* The loop thread and the resolver thread run, the kernel completes a
\* connect one way or the other, and the peers read what reaches them.
Fairness ==
    /\ LoopRuns /\ WF_vars(ResolverThread)
    /\ WF_vars(TargetAnswer) /\ WF_vars(ClientRecv) /\ WF_vars(TargetRecv)

FairSpec == Spec /\ Fairness

-----------------------------------------------------------------------------
(* Properties *)

\* Every variable keeps its type; the kernel buffers and the session stay
\* within their limits.
TypeOK ==
    /\ req \in Requests
    /\ c \in ConnState
    /\ Len(c.cout) <= SockCap /\ Len(c.tout) <= SockCap
    /\ Len(c.session) <= SessLimit
    /\ dns \in {"idle", "pending", "found", "failed", "done"}
    /\ ev \subseteq Source
    /\ batch \in [Source -> SUBSET {"r", "w"}]
    /\ polling \in BOOLEAN /\ removed \in BOOLEAN /\ gone \in BOOLEAN /\ timedOut \in BOOLEAN
    /\ upSent \in 0 .. MaxUp + 1 /\ downSent \in 0 .. MaxDown
    /\ clientGot \in Seq(Nat) /\ targetGot \in Seq(Nat)

Count(a, b) == [i \in 1 .. b - a + 1 |-> a + i - 1]
IsPrefixOf(p, q) == Len(p) <= Len(q) /\ p = Take(q, Len(p))

\* The payload the client has sent: everything, without the request head
\* where there is one.
UpStream == IF req = "none" THEN Count(0, upSent - 1) ELSE Count(1, upSent - 1)
DownStream == Count(1, downSent)

\* Whatever order events, DNS answers and partial writes come in, the target
\* sees a prefix of the client's payload and the client a prefix of the
\* target's data: dispatch, the DNS cache `data` and send_buffer never
\* reorder, repeat or skip a unit.
StreamsInOrder ==
    /\ IsPrefixOf(targetGot \o c.tout, UpStream)
    /\ IsPrefixOf(clientGot \o c.cout, DownStream)

\* While neither side has failed or been closed, every unit is somewhere:
\* received, in a kernel buffer, in send_buffer or session, in the DNS cache
\* or not read yet.
NothingDropped ==
    /\ (c.backend \in {"None", "Established"} /\ c.cend # "bad" /\ ~IsShutdown(c.proxy))
        => targetGot \o c.tout \o c.sendBuffer \o c.data \o
             (IF c.phase = "HandShake" /\ req # "none" /\ c.cin # Empty THEN Tail(c.cin) ELSE c.cin)
           = UpStream
    /\ (~c.broken /\ ~IsShutdown(c.proxy))
        => clientGot \o c.cout \o c.session \o c.tin = DownStream

\* Towards the target: if the target is
\* reachable and the relay was not cut by a timeout or a full session, the
\* backend leaves the poll only when the target's socket has everything.
FlushedToTarget ==
    (c.cend = "fin" /\ c.tend = "open" /\ c.backend = "Deregistered" /\ ~c.broken /\ ~timedOut)
        => targetGot \o c.tout = UpStream

\* Towards the client: the TLS endpoint is shut down
\* only after the client's socket has taken everything the target sent.
FlushedToClient ==
    (c.tend = "fin" /\ c.cend = "open" /\ IsShutdown(c.proxy) /\ ~c.broken /\ ~timedOut)
        => clientGot \o c.cout = DownStream

\* A side that closes after its last byte loses nothing: what it has sent is
\* still passed on before the other side is closed.
Flushed == FlushedToTarget /\ FlushedToClient

\* The relay is faithful in both directions: units arrive in order, none is lost while
\* both sides are open, and none when one of them closes after its last.
RelayFaithful == StreamsInOrder /\ NothingDropped /\ Flushed

Pending(x) == x \in ev \/ batch[x] # {}

\* On the client's socket: edges are reported once, so data
\* left unread without a pending event must be remembered in read_proxy and
\* the backend must be waiting for its own writable event.
NoStallUp ==
    (/\ ~gone /\ ~IsShutdown(c.proxy) /\ ~IsShutdown(c.backend)
     /\ ~Pending("proxy") /\ (c.cin # Empty \/ c.cend # "open"))
        => /\ c.readProxy /\ c.sendBuffer # Empty
           /\ \/ Pending("backend") \/ Len(c.tout) = SockCap \/ c.tcon = "connecting"

\* The same towards the client: a target with unread data is remembered in
\* read_backend, and the TLS socket is full or has an event pending.
NoStallDown ==
    (~gone /\ Alive(c.backend) /\ ~Pending("backend") /\ (c.tin # Empty \/ c.tend # "open"))
        => /\ c.readBackend \/ IsShutdown(c.proxy)
           /\ \/ Pending("proxy") \/ Len(c.cout) = SockCap \/ IsShutdown(c.proxy)

\* Queued data always has a writable event to look forward to.
NoStallSend ==
    /\ (~gone /\ Alive(c.backend) /\ c.sendBuffer # Empty /\ ~Pending("backend"))
        => c.tblk /\ (Len(c.tout) = SockCap \/ c.tcon = "connecting")
    /\ (~gone /\ Alive(c.proxy) /\ c.session # Empty /\ ~Pending("proxy"))
        => c.cblk /\ Len(c.cout) = SockCap

\* No lost wake-up: whatever ready leaves unread or unsent, of either side, is
\* remembered and has an event to come that resumes it.
NoStall == NoStallUp /\ NoStallDown /\ NoStallSend

\* An endpoint's status only moves forward: no late event revives it.
StatusForward ==
    [][/\ Rank(c'.proxy) >= Rank(c.proxy)
       /\ c.backend # "None" => c'.backend # "None" /\ Rank(c'.backend) >= Rank(c.backend)]_vars

\* Once the client has closed, the connection is eventually out of the table
\* even if no timeout ever strikes.
ClosedIsRemoved == []<>(gone \/ c.cend = "open")

\* Again and again every unit the client has sent has reached the target, unless
\* the connection goes away.
UpDelivered == []<>(gone \/ Len(targetGot) + 1 >= upSent)

\* A connection that is not interfered with delivers what it was sent and ends
\* when its client does.
NothingStuck == ClosedIsRemoved /\ UpDelivered
=============================================================================
