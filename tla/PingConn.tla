------------------------------ MODULE PingConn ------------------------------
(***************************************************************************)
(* A PING connection of the mio server: PingBackend                        *)
(* (src/src/server/ping_backend.rs) behind a TLS endpoint, the thread that *)
(* runs start_check_routine, and the loop body that calls poll_ping.       *)
(*                                                                         *)
(* A request is a type byte with an address; it reaches the server in two  *)
(* pieces, so that recv_buffer can hold half of one.  c is the connection, *)
(* its methods are operators from record to record as in ServerConn.       *)
(***************************************************************************)
EXTENDS ConnStatus, Sequences, FiniteSets

CONSTANTS
    Ips,        \* addresses a client may ask for
    MaxAsk,     \* requests it sends
    SockCap,    \* answers the kernel's send buffer takes
    SessLimit   \* answers that may be queued altogether before write_all fails

VARIABLES
    c,          \* the connection, see ConnState
    asked,      \* the requests the client has begun to send
    cend,       \* how the client has closed
    edge,       \* an epoll edge of the TLS socket nobody has fetched
    turn,       \* "poll", or "end": the events of this round are handled
    gone,       \* removed from TlsServer.conns
    routine,    \* the check thread: "start", "run", "stopped", or "dead"
    checks,     \* address -> do_check tasks under way
    got         \* answers the client has read

vars == <<c, asked, cend, edge, turn, gone, routine, checks, got>>

Request == Ips \cup {"badType", "unspecified"}

\* cin, recv: pieces in the kernel and in recv_buffer; parsed: requests taken
\* from recv_buffer; sendBuffer: results to send; out: what write_session
\* accepted and the client has not read, the kernel's part first; queue: the
\* channel to the check thread; results: the channel back; fresh: addresses
\* with a usable cached_result.
ConnState ==
    [ proxy: Status, backend: Status, cin: Nat, recv: Nat, parsed: Nat,
      sendBuffer: Seq(Ips), out: Seq(Ips), queue: Seq(Ips \cup {"stop"}),
      results: Seq(Ips), fresh: SUBSET Ips ]

\* PingBackend::new, right after the request head
Init ==
    /\ c = [ proxy |-> "Established", backend |-> "Established",
             cin |-> 0, recv |-> 0, parsed |-> 0, sendBuffer |-> <<>>, out |-> <<>>,
             queue |-> <<>>, results |-> <<>>, fresh |-> {} ]
    /\ asked = <<>> /\ cend = "open" /\ edge = FALSE /\ turn = "poll"
    /\ gone = FALSE /\ routine = "start" /\ checks = [ip \in Ips |-> 0] /\ got = <<>>

\* The receiving end of the channel to the thread exists.
Listening == routine \in {"start", "run"}

SessionEmpty(s) == Len(s.out) <= SockCap

-----------------------------------------------------------------------------
(* PingBackend *)

\* Mutant: the check thread is not told.
SetShutdownSilent(s) == [s EXCEPT !.backend = "Shutdown"]

\* set_status(Shutdown): the check thread is told to stop.
SetShutdown(s) ==
    [s EXCEPT !.backend = "Shutdown",
              !.queue = IF Listening THEN Append(@, "stop") ELSE @]

ShutdownBackend(s) == IF IsShutdown(s.backend) THEN s ELSE SetShutdown(s)

\* The pieces the loop of dispatch needs before it looks at request i.
Needed(i) == IF asked[i] = "badType" THEN 2 * i - 1 ELSE 2 * i

\* The addresses of q that are in these, one after the other as the loop meets them.
Picked(q, these) ==
    LET f[k \in 0 .. Len(q)] ==
            IF k = 0 THEN <<>> ELSE IF q[k] \in these THEN Append(f[k - 1], q[k]) ELSE f[k - 1]
    IN f[Len(q)]

\* dispatch: every complete request is answered from the cache or handed to
\* the check thread; a request that is not valid, or a thread that is gone,
\* shuts the backend down and leaves the rest unread.
Dispatch(s, n) ==
    LET have == 2 * s.parsed + s.recv + n
        whole == { i \in s.parsed + 1 .. Len(asked) : Needed(i) <= have }
        usable(i) == asked[i] \in Ips /\ (Listening \/ asked[i] \in s.fresh)
        valid == { i \in whole : \A j \in s.parsed + 1 .. i : usable(j) }
        last == s.parsed + Cardinality(valid)
        new == SubSeq(asked, s.parsed + 1, last)
        t == [s EXCEPT !.recv = have - 2 * last, !.parsed = last,
                       !.sendBuffer = @ \o Picked(new, s.fresh),
                       !.queue = @ \o Picked(new, Ips \ s.fresh)]
    IN IF whole # valid THEN ShutdownBackend(t) ELSE t

\* do_send of the TLS endpoint
DoSend(s) ==
    IF (IsShutdown(s.proxy) \/ cend = "rst") /\ s.out # <<>>
    THEN [s EXCEPT !.proxy = Shutdown(@)] ELSE s

\* The results in the channel are cached and, by send_result, queued.
Collect(s) ==
    [s EXCEPT !.sendBuffer = @ \o s.results, !.results = <<>>,
              !.fresh = @ \cup { s.results[i] : i \in 1 .. Len(s.results) }]

\* Mutant: results in the channel are cached but not sent.
DoReadOnlyCaches(s) ==
    LET t == [s EXCEPT !.results = <<>>,
                       !.fresh = @ \cup { s.results[i] : i \in 1 .. Len(s.results) }]
    IN IF t.sendBuffer = <<>> THEN t
       ELSE DoSend([t EXCEPT !.out = @ \o t.sendBuffer, !.sendBuffer = <<>>])

\* PingBackend::do_read: send_buffer is handed to the session in one piece.
DoRead(s) ==
    LET t == Collect(s)
    IN IF t.sendBuffer = <<>> THEN t
       ELSE IF Len(t.out) + Len(t.sendBuffer) > SessLimit
       THEN [t EXCEPT !.sendBuffer = <<>>, !.proxy = Shutdown(@), !.backend = "PeerClosed"]
       ELSE DoSend([t EXCEPT !.out = @ \o t.sendBuffer, !.sendBuffer = <<>>])

-----------------------------------------------------------------------------
(* Connection::ready and the loop body *)

\* check_status of the backend
CheckBackend(s) ==
    LET t == IF s.backend = "PeerClosed" /\ s.sendBuffer = <<>> THEN SetShutdown(s) ELSE s
    IN [t EXCEPT !.backend = CheckStatus(@, FALSE)]

Settle(s) ==
    LET t == IF IsShutdown(s.proxy) THEN [s EXCEPT !.backend = PeerClosed(@)] ELSE s
        u == IF IsShutdown(t.backend) THEN [t EXCEPT !.proxy = PeerClosed(@)] ELSE t
    IN CheckBackend([u EXCEPT !.proxy = CheckStatus(@, SessionEmpty(u))])

\* The readable half: everything is read, an end of file shuts the endpoint
\* down, and what was read is dispatched all the same.
Read(s) ==
    IF ~Alive(s.backend) THEN s
    ELSE LET t == [s EXCEPT !.cin = 0, !.proxy = IF cend # "open" THEN Shutdown(@) ELSE @]
         IN IF s.cin = 0 THEN t ELSE Dispatch(t, s.cin)

Ready(s) == Settle(DoSend(Read(s)))

Destroyed(s) == s.proxy = "Deregistered" /\ s.backend = "Deregistered"

HandleEvent ==
    /\ turn = "poll" /\ edge /\ ~gone
    /\ c' = Ready(c)
    /\ edge' = FALSE /\ turn' = "end"
    /\ UNCHANGED <<asked, cend, gone, routine, checks, got>>

\* remove_closed, poll_ping and check_timeout; the timeout of a PING
\* connection never comes.  Shutting the endpoint down wakes its socket.
EndOfBody ==
    /\ turn = "end" \/ ~edge
    /\ ~gone
    /\ turn' = "poll"
    /\ IF Destroyed(c) THEN gone' = TRUE /\ UNCHANGED <<c, edge>>
       ELSE /\ c' = DoRead(c)
            /\ edge' = (edge \/ (c'.proxy = "Shutdown" /\ c.proxy # "Shutdown"))
            /\ UNCHANGED gone
    /\ UNCHANGED <<asked, cend, routine, checks, got>>

-----------------------------------------------------------------------------
(* The check thread *)

\* Mutant: an address that is being checked is not checked again.
TakeRequestOnce ==
    /\ routine = "run" /\ c.queue # <<>>
    /\ c' = [c EXCEPT !.queue = Tail(@)]
    /\ IF Head(c.queue) = "stop" THEN routine' = "stopped" /\ UNCHANGED checks
       ELSE checks' = [checks EXCEPT ![Head(c.queue)] = 1] /\ UNCHANGED routine
    /\ UNCHANGED <<asked, cend, edge, turn, gone, got>>

\* start_check_routine
TakeRequest ==
    /\ routine = "run" /\ c.queue # <<>>
    /\ c' = [c EXCEPT !.queue = Tail(@)]
    /\ IF Head(c.queue) = "stop" THEN routine' = "stopped" /\ UNCHANGED checks
       ELSE checks' = [checks EXCEPT ![Head(c.queue)] = @ + 1] /\ UNCHANGED routine
    /\ UNCHANGED <<asked, cend, edge, turn, gone, got>>

\* do_check ends: the result is sent unless resp_receiver is closed.
FinishCheck ==
    \E ip \in Ips :
        /\ checks[ip] > 0
        /\ checks' = [checks EXCEPT ![ip] = @ - 1]
        /\ c' = IF gone \/ IsShutdown(c.backend) THEN c
                ELSE [c EXCEPT !.results = Append(@, ip)]
        /\ UNCHANGED <<asked, cend, edge, turn, gone, routine, got>>

\* The thread comes up; Client::new(..).unwrap() panics without ICMP sockets,
\* and the requests already in the channel are lost with it.
RoutineStarts ==
    /\ routine = "start"
    /\ routine' \in {"run", "dead"}
    /\ UNCHANGED <<c, asked, cend, edge, turn, gone, checks, got>>

CacheExpires ==
    \E ip \in c.fresh :
        /\ ~gone
        /\ c' = [c EXCEPT !.fresh = @ \ {ip}]
        /\ UNCHANGED <<asked, cend, edge, turn, gone, routine, checks, got>>

-----------------------------------------------------------------------------
(* The client *)

Registered == ~gone /\ c.proxy # "Deregistered"
Sent == 2 * c.parsed + c.recv + c.cin

\* The first piece of a new request, or the second of the last one.
ClientAsk ==
    /\ Registered /\ cend = "open" /\ ~IsShutdown(c.proxy) /\ Alive(c.backend)
    /\ \/ /\ Sent = 2 * Len(asked) /\ Len(asked) < MaxAsk
          /\ \E r \in Request : asked' = Append(asked, r)
       \/ Sent < 2 * Len(asked) /\ UNCHANGED asked
    /\ c' = [c EXCEPT !.cin = @ + 1]
    /\ edge' = TRUE
    /\ UNCHANGED <<cend, turn, gone, routine, checks, got>>

ClientClose ==
    /\ cend = "open" /\ Registered
    /\ cend' \in {"fin", "rst"}
    /\ edge' = TRUE
    /\ UNCHANGED <<c, asked, turn, gone, routine, checks, got>>

ClientRead ==
    /\ cend = "open" /\ Registered /\ c.out # <<>>
    /\ got' = Append(got, Head(c.out))
    /\ c' = [c EXCEPT !.out = Tail(@)]
    /\ edge' = (edge \/ ~SessionEmpty(c))
    /\ UNCHANGED <<asked, cend, turn, gone, routine, checks>>

Loop == HandleEvent \/ EndOfBody
Routine == TakeRequest \/ FinishCheck

Next == Loop \/ Routine \/ RoutineStarts \/ CacheExpires
            \/ ClientAsk \/ ClientClose \/ ClientRead

Spec == Init /\ [][Next]_vars

\* Weak fairness of Loop, spelled out: nothing else takes from these queues or
\* changes turn or gone, and Loop has nothing to change where LoopRests.
LoopMoves ==
    \/ turn' # turn \/ gone' # gone
    \/ Len(c'.results) < Len(c.results) \/ Len(c'.sendBuffer) < Len(c.sendBuffer)
LoopRests ==
    \/ gone
    \/ turn = "poll" /\ ~edge /\ ~Destroyed(c) /\ c.results = <<>> /\ c.sendBuffer = <<>>

\* The loop and the check thread run, checks end, and the client reads.
FairSpec ==
    /\ Spec /\ ([]<><<LoopMoves>>_vars \/ []<>LoopRests)
    /\ WF_vars(Routine)
    /\ WF_vars(RoutineStarts) /\ WF_vars(ClientRead)

-----------------------------------------------------------------------------
(* Properties *)

\* Every variable keeps its type and the session stays within its limit.
TypeOK ==
    /\ c \in ConnState /\ Len(c.out) <= SessLimit
    /\ asked \in Seq(Request) /\ cend \in {"open", "fin", "rst"}
    /\ edge \in BOOLEAN /\ turn \in {"poll", "end"} /\ gone \in BOOLEAN
    /\ routine \in {"start", "run", "stopped", "dead"}
    /\ checks \in [Ips -> Nat] /\ got \in Seq(Ips)

Occurrences(q, x) == Cardinality({ i \in 1 .. Len(q) : q[i] = x })

\* While both ends are open every request taken from recv_buffer is somewhere:
\* waiting for the thread, being checked, in the channel back, in send_buffer,
\* in the session or answered.  None is answered twice or forgotten, whatever
\* the cache held when it came in, and no buffer overflows.
EveryRequestAccounted ==
    /\ TypeOK
    /\ (c.backend = "Established" /\ c.proxy = "Established")
        => \A ip \in Ips :
             Occurrences(SubSeq(asked, 1, c.parsed), ip)
               = Occurrences(c.queue, ip) + checks[ip] + Occurrences(c.results, ip)
                   + Occurrences(c.sendBuffer, ip) + Occurrences(c.out, ip) + Occurrences(got, ip)

\* The check thread never outlives its backend unnoticed: once the backend is
\* shut down, the thread has ended or the stop request is in its channel.
RoutineTold ==
    IsShutdown(c.backend)
        => ~Listening \/ \E i \in 1 .. Len(c.queue) : c.queue[i] = "stop"

\* A request that was taken is answered, so that again and again none of the
\* finitely many waits, unless the connection is being closed
\* or the check thread could not start.
Answered ==
    []<>(Len(got) >= c.parsed \/ routine = "dead" \/ {c.proxy, c.backend} # {"Established"})
=============================================================================
