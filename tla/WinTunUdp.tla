----------------------------- MODULE WinTunUdp -----------------------------
(***************************************************************************)
(* UDP of the wintun proxy (src/src/wintun/udp.rs, tun.rs, waker.rs and    *)
(* the loop of mod.rs).  A smoltcp socket is made for every address that   *)
(* packets go to.  A source of packets has one TLS connection for all the  *)
(* addresses it sends to, found by its source and by its token; the socket *)
(* that the first of its packets came from counts it, so that the socket   *)
(* is not removed before it.                                               *)
(*                                                                         *)
(* A frame is HeaderLen + BodyLen bytes; buffers are counts of bytes.      *)
(***************************************************************************)
EXTENDS Naturals, Sequences, FiniteSets, Functions

CONSTANTS
    Sources, Targets,   \* addresses of applications, and those that they send to
    HeaderLen, BodyLen, \* of the one kind of frame
    SessLimit, SockCap, \* what the TLS session and the kernel buffer
    RxCap,              \* packets that a UDP socket buffers
    NPackets,           \* bound: packets of all applications
    MaxConns            \* bound: connections that are made

Nobody == 0
Tokens == 1 .. MaxConns

VARIABLES
    at,         \* the loop: "net", "local" or "poll"
    rx,         \* packets of the sockets in udp_set: target -> Seq(Sources)
    waiting,    \* sockets whose receive waker is registered
    events,     \* sockets with an event
    cur,        \* the socket that do_local empties
    handles,    \* handles: target -> [refs, old]
    conns,      \* token2conns: token -> connection
    byAddr,     \* addr2conns
    removed,    \* removed
    counts      \* [packets, made]: steps taken so far, for the bounds

uvars == <<at, rx, waiting, events, cur, handles, conns, byAddr, removed, counts>>

\* One TLS connection with its buffers.  due is what accepted frames still have
\* to send; silent is last_remote more than 120 seconds ago; a cold connection's
\* TCP connect has not been seen to end.
UdpConn ==
    [ src: Sources, local: Targets, rclosed: BOOLEAN, est: BOOLEAN, silent: BOOLEAN, cold: BOOLEAN, hs: BOOLEAN,
      rbuf: Nat, due: Nat, sess: 0 .. SessLimit, sock: 0 .. SockCap,
      rend: {"open", "fin", "rst"}, edge: SUBSET {"r", "w"} ]

Opened(s, t, h) ==
    [ src |-> s, local |-> t, rclosed |-> FALSE, est |-> FALSE, silent |-> FALSE, cold |-> h = "cold",
      hs |-> h = "warm", rbuf |-> 0, due |-> 0, sess |-> 0, sock |-> 0, rend |-> "open",
      edge |-> IF h = "cold" THEN {} ELSE {"w"} ]

UInit ==
    /\ at = "net" /\ rx = <<>> /\ waiting = {} /\ events = {} /\ cur = Nobody /\ handles = <<>>
    /\ conns = <<>> /\ byAddr = [s \in Sources |-> Nobody] /\ removed = {}
    /\ counts = [packets |-> 0, made |-> 0]

Put(f, x, v) == [y \in DOMAIN f \cup {x} |-> IF y = x THEN v ELSE f[y]]
Less(a, b) == IF a <= b THEN a ELSE b

-----------------------------------------------------------------------------
(* Connection *)

CloseRemoteUdp(c) == IF c.rclosed THEN c ELSE [c EXCEPT !.rclosed = TRUE, !.edge = {}]

WriteTls(c) ==
    LET n == IF c.hs THEN Less(c.sess, SockCap - c.sock) ELSE 0
    IN [c EXCEPT !.sess = @ - n, !.sock = @ + n]
FlushRemoteUdp(c) == IF c.rclosed \/ c.rend = "rst" THEN CloseRemoteUdp(c) ELSE WriteTls(c)

\* How much of n bytes a loop over TlsConn::write gets rid of, and what it leaves.
Taken(c, n) == Less(n, SessLimit - c.sess + (IF c.hs THEN SockCap - c.sock ELSE 0))
Written(c, n) ==
    LET m == IF c.hs THEN Less(c.sess + n, SockCap - c.sock) ELSE 0
    IN [c EXCEPT !.sess = @ + n - m, !.sock = @ + m, !.due = @ - Less(n, c.due)]
Blocks(c) == c.hs /\ ~c.rclosed /\ c.rend # "rst"

\* What is cached of a frame of which taken bytes are written: data is what is
\* left of the part, header or body, that the loop was at.
CacheOf(taken) ==
    LET data == IF taken < HeaderLen THEN HeaderLen - taken ELSE HeaderLen + BodyLen - taken
    IN IF taken = HeaderLen + BodyLen THEN 0 ELSE data + (IF data < HeaderLen THEN BodyLen ELSE 0)

\* local_to_remote: first what is cached, then the frame, if there is one.
SendFrame(c, len) ==
    LET n == Taken(c, len)
        w == Written([c EXCEPT !.due = @ + len], n)
    IN IF n < len /\ ~Blocks(c) THEN CloseRemoteUdp(w)
       ELSE FlushRemoteUdp([w EXCEPT !.rbuf = IF len = 0 THEN 0 ELSE CacheOf(n)])
LocalToRemoteUdp(c, len) ==
    LET n == Taken(c, c.rbuf)
        w == Written(c, n)
    IN IF n = c.rbuf THEN SendFrame([w EXCEPT !.rbuf = 0], len)
       ELSE IF Blocks(c) THEN FlushRemoteUdp([w EXCEPT !.rbuf = @ - n])
       ELSE CloseRemoteUdp([w EXCEPT !.rbuf = 0])

DoLocalUdp(c) ==
    LET len == HeaderLen + BodyLen
    IN IF c.silent THEN CloseRemoteUdp(c)
       ELSE IF c.rbuf > 0 THEN c                                                \* discarded
       ELSE IF ~c.est THEN [c EXCEPT !.rbuf = len, !.due = len]
       ELSE LocalToRemoteUdp(c, len)

\* Everything that has arrived is read, the end of the handshake among it;
\* answers go to the source, in the name of the socket.
RemoteToLocalUdp(c) ==
    IF c.rclosed \/ c.rend # "open" THEN CloseRemoteUdp(c) ELSE [c EXCEPT !.hs = TRUE]

\* The request is written first; it takes no room that matters.
DoRemoteUdp(c, edge) ==
    LET a == [c EXCEPT !.silent = FALSE]
        b == IF "w" \in edge THEN LocalToRemoteUdp([a EXCEPT !.est = TRUE, !.cold = FALSE], 0) ELSE a
    IN IF "r" \in edge THEN FlushRemoteUdp(RemoteToLocalUdp(b)) ELSE b

-----------------------------------------------------------------------------
(* interface.poll: packets arrive at the sockets, which preprocess_packet has made *)

Arrive(s, t) ==
    /\ at = "net" /\ counts.packets < NPackets
    /\ LET new == t \notin DOMAIN rx
           q == IF new THEN <<>> ELSE rx[t]
           woken == new \/ t \in waiting
       IN /\ rx' = Put(rx, t, IF Len(q) < RxCap THEN Append(q, s) ELSE q)
          /\ events' = IF woken THEN events \cup {t} ELSE events
          /\ waiting' = waiting \ {t}
    /\ counts' = [counts EXCEPT !.packets = @ + 1]
    /\ UNCHANGED <<at, cur, handles, conns, byAddr, removed>>

PollDone ==
    /\ at = "net" /\ at' = IF events # {} THEN "local" ELSE "poll"
    /\ UNCHANGED <<rx, waiting, events, cur, handles, conns, byAddr, removed, counts>>

-----------------------------------------------------------------------------
(* UdpServer::do_local *)

\* The next event: its socket waits again, and is active now.
NextHandle(t) ==
    /\ at = "local" /\ cur = Nobody /\ t \in events
    /\ events' = events \ {t} /\ waiting' = waiting \cup {t} /\ cur' = t
    /\ handles' = Put(handles, t, [refs |-> IF t \in DOMAIN handles THEN handles[t].refs ELSE 0, old |-> FALSE])
    /\ UNCHANGED <<at, rx, conns, byAddr, removed, counts>>

\* Mutant: every packet counts the connection for its socket.
RefsOfEach(new) == 1
\* info.1 += 1 is part of making the connection.
RefsOf(new) == IF new THEN 1 ELSE 0

\* The next packet of the socket, with a connection that is found or made; the
\* pool gives it away before it is connected, before or after its handshake.
NextPacket(h) ==
    /\ at = "local" /\ cur # Nobody /\ rx[cur] # <<>>
    /\ LET s == Head(rx[cur])
           new == byAddr[s] = Nobody
           tok == IF new THEN counts.made + 1 ELSE byAddr[s]
       IN /\ tok \in Tokens
          /\ \E c \in {DoLocalUdp(IF new THEN Opened(s, cur, h) ELSE conns[tok])} :
                /\ conns' = Put(conns, tok, c)
                /\ removed' = IF c.rclosed THEN removed \cup {tok} ELSE removed
          /\ byAddr' = [byAddr EXCEPT ![s] = tok]
          /\ handles' = [handles EXCEPT ![cur].refs = @ + RefsOf(new)]
          /\ counts' = [counts EXCEPT !.made = IF new THEN @ + 1 ELSE @]
    /\ rx' = [rx EXCEPT ![cur] = Tail(@)]
    /\ UNCHANGED <<at, waiting, events, cur>>

HandleDone ==
    /\ at = "local" /\ cur # Nobody /\ rx[cur] = <<>> /\ cur' = Nobody
    /\ UNCHANGED <<at, rx, waiting, events, handles, conns, byAddr, removed, counts>>

LocalDone ==
    /\ at = "local" /\ cur = Nobody /\ events = {} /\ at' = "poll"
    /\ UNCHANGED <<rx, waiting, events, cur, handles, conns, byAddr, removed, counts>>

-----------------------------------------------------------------------------
(* UdpServer::do_remote, remove_closed and check_timeout *)

NextEvent(tok) ==
    /\ at = "poll" /\ tok \in DOMAIN conns /\ conns[tok].edge # {}
    /\ \E c \in {DoRemoteUdp([conns[tok] EXCEPT !.edge = {}], conns[tok].edge)} :
          /\ conns' = [conns EXCEPT ![tok] = c]
          /\ removed' = IF c.rclosed THEN removed \cup {tok} ELSE removed
    /\ UNCHANGED <<at, rx, waiting, events, cur, handles, byAddr, counts>>

\* Mutant: the source of a removed connection stays in addr2conns.
ForgottenToken(gone) == byAddr
Forgotten(gone) == [s \in Sources |-> IF byAddr[s] \in gone THEN Nobody ELSE byAddr[s]]

RemoveClosed ==
    /\ at = "poll" /\ \A tok \in DOMAIN conns : conns[tok].edge = {} \/ tok \in removed
    /\ LET gone == removed \cap DOMAIN conns
       IN /\ handles' = [t \in DOMAIN handles |->
                            [handles[t] EXCEPT !.refs = @ - Cardinality({n \in gone : conns[n].local = t})]]
          /\ conns' = Restrict(conns, DOMAIN conns \ gone)
          /\ byAddr' = Forgotten(gone)
    /\ removed' = {} /\ at' = "net"
    /\ UNCHANGED <<rx, waiting, events, cur, counts>>

\* Mutant: a socket is removed for its age alone.
UnusedOld == {t \in DOMAIN handles : handles[t].old}
Unused == {t \in DOMAIN handles : handles[t].refs = 0 /\ handles[t].old}

\* Once a minute, before the next interface.poll.
CheckTimeoutUdp ==
    /\ at = "net" /\ events = {} /\ Unused # {}
    /\ handles' = Restrict(handles, DOMAIN handles \ Unused)
    /\ rx' = Restrict(rx, DOMAIN rx \ Unused) /\ waiting' = waiting \ Unused
    /\ UNCHANGED <<at, events, cur, conns, byAddr, removed, counts>>

-----------------------------------------------------------------------------
(* Time, and the server *)

HandleAges(t) ==
    /\ t \in DOMAIN handles /\ ~handles[t].old /\ at = "net"
    /\ handles' = [handles EXCEPT ![t].old = TRUE]
    /\ UNCHANGED <<at, rx, waiting, events, cur, conns, byAddr, removed, counts>>

Change(tok, c) ==
    /\ conns' = [conns EXCEPT ![tok] = c]
    /\ UNCHANGED <<at, rx, waiting, events, cur, handles, byAddr, removed, counts>>

Falls(tok) == at = "net" /\ ~conns[tok].silent /\ Change(tok, [conns[tok] EXCEPT !.silent = TRUE])
Open(tok) == at = "net" /\ ~conns[tok].rclosed
Connected(tok) ==
    /\ Open(tok) /\ conns[tok].cold /\ conns[tok].rend = "open" /\ "w" \notin conns[tok].edge
    /\ Change(tok, [conns[tok] EXCEPT !.edge = @ \cup {"w"}])
ServerReads(tok) ==
    /\ Open(tok) /\ conns[tok].sock > 0
    /\ Change(tok, [conns[tok] EXCEPT !.sock = 0, !.edge = @ \cup {"w"}])
\* The handshake's end, or an answer.
ServerAnswers(tok) ==
    /\ Open(tok) /\ ~conns[tok].cold /\ conns[tok].rend = "open" /\ "r" \notin conns[tok].edge
    /\ Change(tok, [conns[tok] EXCEPT !.edge = @ \cup {"r"}])
\* The end; a reset, or a failed connect, raises both edges.
ServerEnds(tok, how) ==
    /\ Open(tok) /\ conns[tok].rend = "open"
    /\ how = "fin" /\ conns[tok].cold => "w" \in conns[tok].edge
    /\ Change(tok, [conns[tok] EXCEPT !.rend = how, !.edge = @ \cup (IF how = "rst" THEN {"r", "w"} ELSE {"r"})])

-----------------------------------------------------------------------------

UNext ==
    \/ \E s \in Sources, t \in Targets : Arrive(s, t)
    \/ PollDone \/ HandleDone \/ LocalDone \/ RemoveClosed \/ CheckTimeoutUdp
    \/ \E t \in Targets : NextHandle(t) \/ HandleAges(t)
    \/ \E h \in {"cold", "hello", "warm"} : NextPacket(h)
    \/ \E tok \in DOMAIN conns :
        NextEvent(tok) \/ Falls(tok) \/ Connected(tok) \/ ServerReads(tok) \/ ServerAnswers(tok) \/ \E how \in {"fin", "rst"} : ServerEnds(tok, how)

USpec == UInit /\ [][UNext]_uvars

-----------------------------------------------------------------------------
(* Properties *)

UTypeOK ==
    /\ at \in {"net", "local", "poll"} /\ cur \in Targets \cup {Nobody}
    /\ DOMAIN conns \subseteq Tokens /\ \A tok \in DOMAIN conns : conns[tok] \in UdpConn
    /\ \A t \in DOMAIN handles : handles[t].refs \in Nat

\* remove_closed unwraps the entry of a connection's socket, and do_remote asks
\* the socket set for it: a socket and its entry outlive every connection that
\* they count, whatever sockets and sources the packets in between came from.
SocketOutlivesConns ==
    /\ UTypeOK
    /\ \A tok \in DOMAIN conns : conns[tok].local \in DOMAIN handles
    /\ DOMAIN handles \cup events \cup waiting \subseteq DOMAIN rx
    /\ \A t \in DOMAIN handles : handles[t].refs = Cardinality({tok \in DOMAIN conns : conns[tok].local = t})

\* Both maps hold the same connections, so that a source whose connection is
\* closed gets a new one with its next packet.
UdpMapsAgree ==
    /\ \A s \in Sources : byAddr[s] # Nobody => byAddr[s] \in DOMAIN conns /\ conns[byAddr[s]].src = s
    /\ \A tok \in DOMAIN conns : byAddr[conns[tok].src] = tok
    /\ at = "net" => \A tok \in DOMAIN conns : ~conns[tok].rclosed

\* local_to_remote: "sending data {} bytes left, cache now".  What is cached of a
\* frame is what is left of it.
CacheIsRemaining == \A tok \in DOMAIN conns : ~conns[tok].rclosed => conns[tok].rbuf = conns[tok].due
=============================================================================
