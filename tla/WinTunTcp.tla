----------------------------- MODULE WinTunTcp -----------------------------
(***************************************************************************)
(* One TCP connection of the wintun proxy (src/src/wintun/tcp.rs, tun.rs,  *)
(* waker.rs and the loop of mod.rs): an application's connection, caught   *)
(* by a smoltcp socket, is relayed over a TLS connection of the pool.  The *)
(* socket tells of changes by wakers, which fire once and are then to be   *)
(* registered again; the TLS connection by epoll's edges.                  *)
(*                                                                         *)
(* A method of the code is an operator from record to record.  smoltcp,    *)
(* rustls and the kernel are modelled by what the code sees of them.  Data *)
(* are numbers; 0 is the trojan request, Hello the server's handshake,     *)
(* which is no unit of data.                                               *)
(***************************************************************************)
EXTENDS Naturals, Sequences

CONSTANTS
    NUp, NDown,         \* units that the application and the server send
    RxCap, TxCap,       \* buffers of the smoltcp socket, in units
    SessLimit,          \* what a TLS session buffers
    SockCap,            \* what the kernel buffers for sending
    Handover            \* states of pool connections: "warm", "hello", "cold"

ASSUME TcpAssumption ==
    /\ NUp \in Nat /\ NDown \in Nat
    /\ RxCap \in Nat \ {0} /\ TxCap \in Nat \ {0} /\ SessLimit \in Nat \ {0} /\ SockCap \in Nat \ {0}
    /\ Handover \subseteq {"warm", "hello", "cold"}

Request == 0
Hello == NDown + 1

VARIABLES
    pc,     \* the loop: "net" in interface.poll, "poll" in poll.poll
    k,      \* socket, Connection and TLS connection, see Relay
    app,    \* the application: [out, fin, got, end]
    srv     \* the server: [out, fin, got]

vars == <<pc, k, app, srv>>

\* st, rx, tx, wakers, ev: the socket, its registered wakers, and the events they
\* have sent.  on, lbuf, rbuf, lcl, rcl, est, age: Connection and its age (above
\* 120 seconds, 3600 seconds).  hs, sess, sock, in, rend, edge: the TLS connection:
\* handshake done, session and kernel buffers, what arrived, its end, edges.  cold:
\* its TCP connect has not been seen to end, and nothing is written to it yet.
\* cause: what the application's end of stream stands for.
Relay ==
    [ st: {"none", "listen", "synrcvd", "est", "closewait", "finwait", "lastack", "timewait", "closed", "gone"},
      rx: Seq(Nat), tx: Seq(Nat), wakers: SUBSET {"rx", "tx"}, ev: SUBSET {"rx", "tx"},
      on: BOOLEAN, lbuf: Seq(Nat), rbuf: Seq(Nat), lcl: BOOLEAN, rcl: BOOLEAN, est: BOOLEAN, age: 0 .. 2,
      cold: BOOLEAN, hs: BOOLEAN, sess: Seq(Nat), sock: Seq(Nat), in: Seq(Nat), rend: {"open", "fin", "rst"},
      edge: SUBSET {"r", "w"}, removed: BOOLEAN, cause: {"none", "eof", "cut"} ]

Init ==
    /\ pc = "net"
    /\ k = [ st |-> "none", rx |-> <<>>, tx |-> <<>>, wakers |-> {}, ev |-> {},
             on |-> FALSE, lbuf |-> <<>>, rbuf |-> <<>>, lcl |-> FALSE, rcl |-> FALSE, est |-> FALSE,
             age |-> 0, cold |-> FALSE, hs |-> FALSE, sess |-> <<>>, sock |-> <<>>, in |-> <<>>,
             rend |-> "open", edge |-> {}, removed |-> FALSE, cause |-> "none" ]
    /\ app = [out |-> 0, fin |-> "open", got |-> <<>>, end |-> "open"]
    /\ srv = [out |-> 0, fin |-> FALSE, got |-> <<>>]

Take(s, n) == SubSeq(s, 1, n)
Rest(s, n) == SubSeq(s, n + 1, Len(s))
Least(a, b) == IF a <= b THEN a ELSE b

-----------------------------------------------------------------------------
(* smoltcp: wakers, states, and what TcpStreamRef makes of them *)

Wake(r, W) == [r EXCEPT !.ev = @ \cup (W \cap r.wakers), !.wakers = @ \ W]
SetState(r, s) == IF r.st = s THEN r ELSE Wake([r EXCEPT !.st = s], {"rx", "tx"})

MayRecv(r) == r.st \in {"est", "finwait"} \/ r.rx # <<>>
MaySend(r) == r.st \in {"est", "closewait"}
IsActive(r) == r.st \notin {"closed", "timewait", "none", "listen", "gone"}

\* close: a FIN follows what is still to be sent.
Closing(s) ==
    CASE s \in {"est", "synrcvd"} -> "finwait" [] s = "closewait" -> "lastack"
      [] s = "listen" -> "closed" [] OTHER -> s

-----------------------------------------------------------------------------
(* Connection *)

\* Mutant: the waker of the reader stays registered when the stream is closed.
CloseLocalKeeps(r, cause) ==
    IF r.lcl THEN r
    ELSE [SetState(r, Closing(r.st)) EXCEPT !.lcl = TRUE, !.cause = cause]

\* close_stream(true): the dummy wakers take the place of the others first.
CloseLocal(r, cause) ==
    IF r.lcl THEN r
    ELSE [SetState([r EXCEPT !.wakers = {}], Closing(r.st)) EXCEPT !.lcl = TRUE, !.cause = cause]

\* close_stream(false): the socket is shut; what the session holds stays there.
CloseRemote(r) ==
    IF r.rcl THEN r
    ELSE [r EXCEPT !.rcl = TRUE, !.edge = {}, !.in = <<>>]

\* write_tls: as much as the kernel takes.
Flushed(r) ==
    LET n == IF r.hs /\ ~r.rcl THEN Least(SockCap - Len(r.sock), Len(r.sess)) ELSE 0
    IN [r EXCEPT !.sock = @ \o Take(r.sess, n), !.sess = Rest(@, n)]
FlushRemote(r) == IF r.rend = "rst" THEN CloseRemote(r) ELSE Flushed(r)

\* copy_stream from the socket through rbuffer into the session, one unit a read;
\* a session whose socket is shut takes what it has room for.
CopyUp(r) ==
    LET all == r.rbuf \o r.rx
        room == (SessLimit - Len(r.sess)) + (IF r.hs /\ ~r.rcl THEN SockCap - Len(r.sock) ELSE 0)
        n == Least(Len(all), room)
        s == Flushed([r EXCEPT !.sess = @ \o Take(all, n)])
    IN IF n < Len(all)
       THEN LET b == [s EXCEPT !.rbuf = <<all[n + 1]>>, !.rx = Rest(all, n + 1)]
            IN IF r.hs /\ ~r.rcl /\ r.rend # "rst" THEN b            \* TxBlock
               ELSE CloseRemote([b EXCEPT !.rbuf = <<>>])            \* TxBreak
       ELSE LET b == [s EXCEPT !.rbuf = <<>>, !.rx = <<>>]
            IN IF b.st \in {"est", "finwait"} THEN b                 \* RxBlock
               ELSE CloseLocal(b, "cut")                             \* RxBreak

\* local_to_remote: the copy, then the flush.
CopyLocal(r) ==
    IF r.est THEN CopyUp(r) ELSE IF IsActive(r) THEN r ELSE CloseLocal(r, "cut")
FlushCopied(r) == IF r.est /\ ~r.rcl THEN FlushRemote(r) ELSE r

\* copy_stream from the session through lbuffer into the socket.
CopyDown(r) ==
    LET hs == r.hs \/ (r.in # <<>> /\ r.in[1] = Hello)
        in == IF r.in # <<>> /\ r.in[1] = Hello THEN Tail(r.in) ELSE r.in
        all == r.lbuf \o in
        n == IF MaySend(r) THEN Least(Len(all), TxCap - Len(r.tx)) ELSE 0
        s == [r EXCEPT !.hs = hs, !.tx = @ \o Take(all, n)]
    IN IF n < Len(all)
       THEN LET b == [s EXCEPT !.lbuf = <<all[n + 1]>>, !.in = Rest(all, n + 1)]
            IN IF IsActive(r) THEN b                                 \* TxBlock
               ELSE CloseLocal([b EXCEPT !.lbuf = <<>>], "cut")      \* TxBreak
       ELSE LET b == [s EXCEPT !.lbuf = <<>>, !.in = <<>>]
            IN IF r.rend = "open" /\ ~r.rcl THEN b                   \* RxBlock
               ELSE CloseRemote(b)                                   \* RxBreak

Cause(r) == IF r.rend = "fin" THEN "eof" ELSE "cut"

RemoteToLocal(r) ==
    LET s == CopyDown(r)
    IN IF s.rcl /\ ~s.lcl /\ s.lbuf = <<>> /\ s.tx = <<>> THEN CloseLocal(s, Cause(s)) ELSE s

\* Mutant: the local side is closed while lbuffer holds data.
CheckHalfCloseEarly(r) ==
    LET s == IF r.lcl /\ ~r.rcl /\ r.rbuf = <<>> THEN CloseRemote(r) ELSE r
    IN IF (s.rcl \/ s.rend = "fin") /\ ~s.lcl THEN CloseLocal(s, Cause(s)) ELSE s

CheckHalfClose(r) ==
    LET s == IF r.lcl /\ ~r.rcl /\ r.rbuf = <<>> THEN CloseRemote(r) ELSE r
    IN IF s.rcl /\ ~s.lcl /\ s.lbuf = <<>> THEN CloseLocal(s, Cause(s)) ELSE s

\* Mutant: nobody waits for room in the socket.
ReregisterLocalRecv(r) ==
    IF r.lcl THEN r
    ELSE [r EXCEPT !.wakers = @ \cup (IF r.rbuf = <<>> /\ ~r.rcl THEN {"rx"} ELSE {})]

ReregisterLocal(r) ==
    IF r.lcl THEN r
    ELSE [r EXCEPT !.wakers = @ \cup (IF r.lbuf # <<>> THEN {"tx"} ELSE {})
                                \cup (IF r.rbuf = <<>> /\ ~r.rcl THEN {"rx"} ELSE {})]

Settle(r) == ReregisterLocal(CheckHalfClose(r))

\* The records that the steps of do_local lead to, one by one.
DoLocal(r, ev) ==
    { Settle(c) : c \in { IF "tx" \in ev THEN RemoteToLocal(b) ELSE b :
      b \in { IF "rx" \in ev THEN FlushCopied(a) ELSE a :
      a \in { IF "rx" \in ev THEN CopyLocal([r EXCEPT !.age = 0]) ELSE [r EXCEPT !.age = 0] } } } }

\* A connection that is not established sends the request first.  A socket that
\* is closed has no endpoint to ask for.
Established(r) == IF r.est THEN r ELSE [r EXCEPT !.est = TRUE, !.cold = FALSE, !.sess = Append(@, Request)]
DoRemoteEdges(r, edge) ==
    { Settle(c) : c \in { IF "r" \in edge THEN FlushRemote(b) ELSE b :
      b \in { IF "r" \in edge THEN RemoteToLocal(a) ELSE a :
      a \in { IF "w" \in edge THEN FlushCopied(d) ELSE d :
      d \in { IF "w" \in edge THEN CopyLocal(Established(r)) ELSE r } } } } }
DoRemote(r, edge) ==
    IF "w" \in edge /\ ~r.est /\ (r.lcl \/ r.st = "closed")
    THEN {CloseRemote(CloseLocal([r EXCEPT !.age = 0], "cut"))}
    ELSE DoRemoteEdges([r EXCEPT !.age = 0], edge)

IsClosed(r) == r.rcl /\ r.st = "closed"
Marked(r) == [r EXCEPT !.removed = @ \/ IsClosed(r)]

\* remove_closed takes the connection out of both maps and the socket out of the
\* set.
Removed(r) ==
    IF r.removed THEN [r EXCEPT !.on = FALSE, !.st = "gone", !.wakers = {}, !.rx = <<>>, !.tx = <<>>,
                                !.edge = {}, !.removed = FALSE]
    ELSE r

-----------------------------------------------------------------------------
(* The loop *)

Loop(to, R) == pc' = to /\ k' \in R /\ UNCHANGED <<app, srv>>

\* The events of the last interface.poll.  The first makes a connection, with a
\* TLS connection of the pool.  Its registration raises its edges, unless the
\* pool has just begun to connect it.
LocalNew ==
    /\ pc = "net" /\ k.ev # {} /\ ~k.on /\ k.st # "listen"
    /\ \E h \in Handover, arrived \in BOOLEAN :
        /\ arrived => h = "hello"
        /\ Loop("poll", { Marked(r) : r \in DoLocal(
              [k EXCEPT !.on = TRUE, !.ev = {}, !.cold = (h = "cold"), !.hs = (h = "warm"),
                        !.edge = IF h = "cold" THEN {} ELSE {"r", "w"}, !.in = IF arrived THEN <<Hello>> ELSE <<>>], k.ev) })

LocalEvents ==
    /\ pc = "net" /\ k.ev # {} /\ k.on /\ k.st # "listen"
    /\ Loop("poll", { Marked(r) : r \in DoLocal([k EXCEPT !.ev = {}], k.ev) })
\* A socket that is reset before its connection is established listens again.
LocalListening ==
    /\ pc = "net" /\ k.ev # {} /\ k.st = "listen"
    /\ Loop("poll", { [r EXCEPT !.ev = {}, !.removed = TRUE] :
                        r \in {IF k.on THEN CloseRemote(CloseLocal(k, "cut")) ELSE k} })
LocalNone == pc = "net" /\ k.ev = {} /\ k.on /\ Loop("poll", {k})

\* The events of poll.poll, then remove_closed.
RemoteEvents ==
    /\ pc = "poll" /\ k.edge # {}
    /\ Loop("net", { Removed(Marked(r)) : r \in DoRemote([k EXCEPT !.edge = {}], k.edge) })
RemoteNone == pc = "poll" /\ k.edge = {} /\ Loop("net", {Removed(k)})

\* Mutant: only connections whose local side is closed are timed out.
CheckTimeoutLocal ==
    /\ pc = "net" /\ k.on /\ k.ev = {} /\ k.lcl /\ k.age >= 1
    /\ Loop("net", {Removed([CloseRemote(CloseLocal(k, "cut")) EXCEPT !.removed = TRUE])})

\* check_timeout, between two rounds.
CheckTimeout ==
    /\ pc = "net" /\ k.on /\ k.ev = {}
    /\ (k.lcl /\ k.age >= 1) \/ k.age = 2
    /\ Loop("net", {Removed([CloseRemote(CloseLocal(k, "cut")) EXCEPT !.removed = TRUE])})

Ages ==
    /\ k.on /\ k.age < 2 /\ k.ev = {} /\ k.edge = {}
    /\ k' = [k EXCEPT !.age = @ + 1] /\ UNCHANGED <<pc, app, srv>>

-----------------------------------------------------------------------------
(* The application, through the socket *)

Net(r, a) == pc = "net" /\ k' = r /\ app' = a /\ UNCHANGED <<pc, srv>>

\* preprocess_packet: a SYN makes a listening socket, whose waker listen fires,
\* and is then taken by it.
Syn == k.st = "none" /\ Net([k EXCEPT !.st = "synrcvd", !.ev = {"tx"}], app)
Ack == k.st = "synrcvd" /\ Net(SetState(k, "est"), app)

AppSends ==
    /\ k.st \in {"est", "finwait"} /\ app.fin = "open" /\ app.out < NUp /\ Len(k.rx) < RxCap
    /\ Net(Wake([k EXCEPT !.rx = Append(@, app.out + 1)], {"rx"}), [app EXCEPT !.out = @ + 1])

AppCloses ==
    /\ k.st \in {"est", "finwait"} /\ app.fin = "open"
    /\ Net(SetState(k, IF k.st = "est" THEN "closewait" ELSE "timewait"), [app EXCEPT !.fin = "fin"])

AppResets ==
    /\ IsActive(k) /\ app.fin # "rst"
    /\ Net([SetState(k, IF k.st = "synrcvd" THEN "listen" ELSE "closed") EXCEPT !.tx = <<>>],
           [app EXCEPT !.fin = "rst", !.end = IF @ = "open" THEN "cut" ELSE @])

\* A segment is sent and acknowledged.
Egress ==
    /\ k.tx # <<>> /\ k.st \in {"est", "closewait", "finwait", "lastack", "timewait"}
    /\ Net(Wake([k EXCEPT !.tx = Tail(@)], {"tx"}), [app EXCEPT !.got = Append(@, Head(k.tx))])

\* So is the FIN.
EgressFin ==
    /\ k.st \in {"finwait", "timewait", "lastack"} /\ k.tx = <<>> /\ app.end = "open"
    /\ Net(IF k.st = "lastack" THEN SetState(k, "closed") ELSE k, [app EXCEPT !.end = k.cause])

TimeWaitEnds == k.st = "timewait" /\ app.end # "open" /\ Net(SetState(k, "closed"), app)

-----------------------------------------------------------------------------
(* The server *)

Remote(r, s) == k.on /\ ~k.rcl /\ k' = r /\ srv' = s /\ UNCHANGED <<pc, app>>

\* The connection of a cold one is made; that it fails is ServerResets.
TcpConnects ==
    /\ k.cold /\ "w" \notin k.edge /\ k.rend = "open"
    /\ Remote([k EXCEPT !.edge = @ \cup {"w"}], srv)

HelloArrives ==
    /\ ~k.cold /\ ~k.hs /\ k.in = <<>> /\ k.rend = "open"
    /\ Remote([k EXCEPT !.in = <<Hello>>, !.edge = @ \cup {"r"}], srv)

\* What the kernel holds is sent, even after the socket is shut.
ServerGets ==
    /\ k.sock # <<>> /\ k.rend # "rst"
    /\ k' = [k EXCEPT !.sock = Tail(@), !.edge = IF k.on /\ ~k.rcl THEN @ \cup {"w"} ELSE @]
    /\ srv' = [srv EXCEPT !.got = Append(@, Head(k.sock))]
    /\ UNCHANGED <<pc, app>>

ServerSends ==
    /\ srv.got # <<>> /\ srv.out < NDown /\ k.rend = "open"
    /\ Remote([k EXCEPT !.in = Append(@, srv.out + 1), !.edge = @ \cup {"r"}], [srv EXCEPT !.out = @ + 1])

ServerCloses ==
    /\ k.rend = "open" /\ (k.cold => "w" \in k.edge)
    /\ Remote([k EXCEPT !.rend = "fin", !.edge = @ \cup {"r"}], [srv EXCEPT !.fin = TRUE])

ServerResets ==
    /\ k.rend # "rst"
    /\ Remote([k EXCEPT !.rend = "rst", !.in = <<>>, !.sock = <<>>, !.edge = {"r", "w"}], [srv EXCEPT !.fin = TRUE])

-----------------------------------------------------------------------------

LoopStep == LocalNew \/ LocalEvents \/ LocalListening \/ LocalNone \/ RemoteEvents \/ RemoteNone
NetStep == Ack \/ Egress \/ EgressFin \/ TimeWaitEnds \/ ServerGets

Next ==
    \/ LoopStep \/ CheckTimeout \/ Ages \/ NetStep
    \/ Syn \/ AppSends \/ AppCloses \/ AppResets
    \/ TcpConnects \/ HelloArrives \/ ServerSends \/ ServerCloses \/ ServerResets

Spec == Init /\ [][Next]_vars

\* The loop runs, and time passes for a connection without events.  Between two
\* rounds of the loop check_timeout has its turn again and again.
FairSpec ==
    /\ Spec /\ WF_vars(LoopStep) /\ WF_vars(Ages) /\ SF_vars(CheckTimeout)

-----------------------------------------------------------------------------
(* Properties *)

TypeOK ==
    /\ pc \in {"net", "poll"} /\ k \in Relay
    /\ Len(k.rbuf) <= 1 /\ Len(k.lbuf) <= 1 /\ Len(k.sess) <= SessLimit /\ Len(k.sock) <= SockCap
    /\ Len(k.rx) <= RxCap /\ Len(k.tx) <= TxCap

\* Refinement mapping.  The server's end of stream is a cut: the TLS session is
\* never closed, only its socket.
UpGot == IF srv.got = <<>> THEN <<>> ELSE Tail(srv.got)
Up == INSTANCE Pipe WITH
    Items <- 1 .. NUp, sent <- [n \in 1 .. app.out |-> n], closed <- app.fin # "open", got <- UpGot,
    end <- IF k.rcl /\ k.sock = <<>> THEN "cut" ELSE "open"
Down == INSTANCE Pipe WITH
    Items <- 1 .. NDown, sent <- [n \in 1 .. srv.out |-> n], closed <- srv.fin, got <- app.got,
    end <- app.end

\* Both directions are pipes: nothing is repeated or out of order, nothing comes
\* after the end, and an application that sees the end of the stream because the
\* server has closed has got everything first, whatever was blocked at that time.
RelayIsPipes == Up!Spec /\ Down!Spec

\* An open connection whose side can go on is always going to be woken: by a
\* waker that is registered while there is something to wait for, by an event or
\* by an edge.  One that has not sent its request yet is going to be connected, or
\* has the edge that makes it send it.
NoStall ==
    (k.on /\ ~k.lcl /\ ~k.rcl) => IF ~k.est THEN (k.cold /\ k.rend = "open") \/ "w" \in k.edge ELSE
        /\ (k.rx # <<>> \/ k.st = "closewait") => k.ev # {} \/ k.edge # {} \/ k.rbuf # <<>>
        /\ k.rbuf # <<>> => k.sock # <<>> \/ "w" \in k.edge
        /\ k.rx = <<>> /\ k.rbuf = <<>> /\ k.st = "est" => "rx" \in k.wakers \/ k.ev # {}
        /\ k.lbuf # <<>> => ("tx" \in k.wakers /\ k.tx # <<>>) \/ k.ev # {} \/ k.edge # {}
        /\ k.in # <<>> => "r" \in k.edge \/ k.lbuf # <<>>

\* The loop looks a socket up by its handle and panics when it is gone: events
\* and connections do not outlive their socket.
NoStaleHandle == TypeOK /\ (k.st = "gone" => k.ev = {} /\ ~k.on /\ k.wakers = {})

\* When one side has closed, the connection leaves both maps and the socket set:
\* again and again there is none in them with a side closed, and no close is taken
\* back.
ClosedIsRemoved == []<>~(k.on /\ (k.lcl \/ k.rcl))
=============================================================================
