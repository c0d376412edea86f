-------------------------- MODULE ServerConnProofs --------------------------
(***************************************************************************)
(* Proofs about ServerConn, for every value of its constants: the type     *)
(* invariant and the fact that no handler, however it is composed, ever    *)
(* moves an endpoint's status backwards.                                   *)
(*                                                                         *)
(* A handler is a composition of operators from record to record, so both  *)
(* facts are proved together as one relation, Advance(s, t), that every    *)
(* operator establishes between its argument and its result and that is    *)
(* transitive.                                                             *)
(*                                                                         *)
(* The second part proves NoStall.  Awake(s, P, B) says of a connection    *)
(* with the readiness P and B still to be reported for its two sockets     *)
(* that everything unread or unsent has something to wait for; a handler   *)
(* that is given the events F turns Awake for P into Awake for P \ F.      *)
(*                                                                         *)
(* The third part proves RelayFaithful.                                    *)
(* Everything the client sent and the server has read lies on one line:    *)
(* what the target got, what its socket holds, send_buffer, and the data   *)
(* cached during the DNS query, in this order.  The line is a run of       *)
(* consecutive units, and it reaches up to the unit the socket delivers    *)
(* next unless the connection has an excuse to drop data.  The other       *)
(* direction has a line of its own.  The rest of the invariant ties the    *)
(* statuses of the two endpoints to what is left on the lines, which is    *)
(* what makes a close after the last byte lose nothing.                    *)
(***************************************************************************)
EXTENDS ServerConn, SequenceTheorems, TLAPS

\* The part of TypeOK that is about c.
Good(s) ==
    /\ s \in ConnState
    /\ Len(s.cout) <= SockCap /\ Len(s.tout) <= SockCap
    /\ Len(s.session) <= SessLimit

\* What StatusForward says of two successive records.
Onward(s, t) ==
    /\ Rank(t.proxy) >= Rank(s.proxy)
    /\ s.backend # "None" => t.backend # "None" /\ Rank(t.backend) >= Rank(s.backend)

Advance(s, t) == Good(t) /\ Onward(s, t)

\* A connection has no backend before it forwards: without this a second
\* setup could replace a closed backend by an established one.
Waiting(s) == s.phase \in {"HandShake", "DnsWait"} => s.backend = "None"

\* What the operators that only move data establish.
Keep(s, t) ==
    /\ Advance(s, t)
    /\ t.phase = s.phase /\ (t.backend = "None" <=> s.backend = "None")

-----------------------------------------------------------------------------
(* Statuses and buffers *)

\* The methods of StatusProvider keep the type of a status and never move it
\* backwards.
LEMMA StatusLemma ==
    ASSUME NEW st \in Status
    PROVE  /\ Rank(st) \in Nat
           /\ Shutdown(st) \in Status /\ Rank(Shutdown(st)) >= Rank(st)
           /\ PeerClosed(st) \in Status /\ Rank(PeerClosed(st)) >= Rank(st)
           /\ Established(st) \in Status /\ Rank(Established(st)) >= Rank(st)
  BY DEF Status, Rank, Shutdown, PeerClosed, Established

LEMMA CheckStatusLemma ==
    ASSUME NEW st \in Status, NEW b \in BOOLEAN
    PROVE  CheckStatus(st, b) \in Status /\ Rank(CheckStatus(st, b)) >= Rank(st)
  BY DEF Status, Rank, CheckStatus, IsShutdown

\* Splitting a buffer keeps its type and its length.
LEMMA BufferLemma ==
    ASSUME NEW q \in Seq(Nat), NEW n \in 0 .. Len(q)
    PROVE  /\ Take(q, n) \in Seq(Nat) /\ Len(Take(q, n)) = n
           /\ Drop(q, n) \in Seq(Nat) /\ Len(Drop(q, n)) = Len(q) - n
  BY SubSeqProperties DEF Take, Drop

\* tcp_read gives up the unit in hand as well: one more than there was room for.
LEMMA DropLemma ==
    ASSUME NEW q \in Seq(Nat), NEW n \in Nat
    PROVE  Drop(q, n) \in Seq(Nat)
  BY SubSeqProperties DEF Drop

LEMMA RoomLemma ==
    ASSUME NEW m \in Nat, NEW a \in Nat, NEW b \in Nat, a <= m
    PROVE  /\ m - a \in Nat /\ (m - a) + 1 \in Nat /\ a + (m - a) <= m
           /\ b > m - a => m - a \in 0 .. b
           /\ ~(b > m - a) => a + b <= m
           /\ Smaller(b, m - a) \in 0 .. b /\ a + Smaller(b, m - a) <= m
  BY DEF Smaller

\* Appending a piece that fits keeps the type and the bound of a buffer.
LEMMA FitLemma ==
    ASSUME NEW q \in Seq(Nat), NEW p \in Seq(Nat), NEW m \in Nat, Len(q) + Len(p) <= m
    PROVE  q \o p \in Seq(Nat) /\ Len(q \o p) <= m
  <1>1. q \o p \in Seq(Nat) /\ Len(q \o p) = Len(q) + Len(p) BY ConcatProperties
  <1> QED BY <1>1

-----------------------------------------------------------------------------
(* The operators *)

LEMMA EmptyLemma == Empty \in Seq(Nat) /\ Len(Empty) = 0
  BY DEF Empty

LEMMA Fields ==
    ASSUME NEW s, Good(s)
    PROVE  /\ s.proxy \in Status /\ (s.backend # "None" => s.backend \in Status)
           /\ s.backend \in Status \cup {"None"}
           /\ s.data \in Seq(Nat) /\ s.sendBuffer \in Seq(Nat)
           /\ s.session \in Seq(Nat) /\ Len(s.session) \in Nat /\ Len(s.session) <= SessLimit
           /\ s.cin \in Seq(Nat)
           /\ s.cout \in Seq(Nat) /\ Len(s.cout) \in Nat /\ Len(s.cout) <= SockCap
           /\ s.tin \in Seq(Nat) /\ Len(s.tin) \in Nat
           /\ s.tout \in Seq(Nat) /\ Len(s.tout) \in Nat /\ Len(s.tout) <= SockCap
           /\ SockCap \in Nat \ {0} /\ SessLimit \in Nat \ {0}
  <1>1. /\ s.proxy \in Status /\ s.backend \in Status \cup {"None"}
        /\ s.data \in Seq(Nat) /\ s.sendBuffer \in Seq(Nat)
        /\ s.session \in Seq(Nat) /\ s.cin \in Seq(Nat) /\ s.cout \in Seq(Nat)
        /\ s.tin \in Seq(Nat) /\ s.tout \in Seq(Nat)
    BY DEF Good, ConnState
  <1>2. \A q \in Seq(Nat) : Len(q) \in Nat BY LenProperties
  <1> QED BY <1>1, <1>2, ConstAssumption DEF Good

LEMMA AdvanceRefl ==
    ASSUME NEW s, Good(s) PROVE Advance(s, s)
  BY Fields, StatusLemma DEF Advance, Onward

LEMMA AdvanceTrans ==
    ASSUME NEW s, NEW t, NEW u, Good(s), Advance(s, t), Advance(t, u)
    PROVE  Advance(s, u)
  <1>1. Good(t) /\ Good(u) /\ Onward(s, t) /\ Onward(t, u) BY DEF Advance
  <1>2. Rank(s.proxy) \in Nat /\ Rank(t.proxy) \in Nat /\ Rank(u.proxy) \in Nat
    BY <1>1, Fields, StatusLemma
  <1>3. /\ s.backend # "None" => Rank(s.backend) \in Nat
        /\ t.backend # "None" => Rank(t.backend) \in Nat
        /\ u.backend # "None" => Rank(u.backend) \in Nat
    BY <1>1, Fields, StatusLemma
  <1>4. Onward(s, u) BY <1>1, <1>2, <1>3 DEF Onward
  <1> QED BY <1>1, <1>4 DEF Advance

\* A record whose statuses are s's own or shut down is onward of s.
LEMMA ShutdownOnward ==
    ASSUME NEW s, Good(s), NEW t,
           t.proxy \in {s.proxy, Shutdown(s.proxy)},
           t.backend \in {s.backend, Shutdown(s.backend)},
           s.backend = "None" => t.backend = "None"
    PROVE  Onward(s, t)
  <1>1. "None" \notin Status BY DEF Status
  <1>2. Rank(s.proxy) \in Nat /\ Rank(Shutdown(s.proxy)) >= Rank(s.proxy)
    BY Fields, StatusLemma
  <1>3. ASSUME s.backend # "None"
        PROVE  /\ t.backend # "None" /\ Rank(s.backend) \in Nat
               /\ Rank(Shutdown(s.backend)) >= Rank(s.backend)
    BY <1>1, <1>3, Fields, StatusLemma
  <1>4. Rank(t.proxy) >= Rank(s.proxy) BY <1>2
  <1>5. s.backend # "None" => Rank(t.backend) >= Rank(s.backend) BY <1>3
  <1> QED BY <1>3, <1>4, <1>5 DEF Onward

LEMMA KeepTrans ==
    ASSUME NEW s, NEW t, NEW u, Good(s), Keep(s, t), Keep(t, u)
    PROVE  Keep(s, u)
  BY AdvanceTrans DEF Keep

LEMMA DoReadProxyLemma ==
    ASSUME NEW s, Good(s)
    PROVE  Keep(s, DoReadProxy(s)) /\ ReadBuffer(s) \in Seq(Nat)
  <1>2. Shutdown(s.proxy) \in Status BY Fields, StatusLemma
  <1>3. ReadBuffer(s) \in Seq(Nat) BY Fields, EmptyLemma DEF ReadBuffer
  <1>6. DoReadProxy(s) \in ConnState BY <1>2, EmptyLemma DEF Good, ConnState, DoReadProxy
  <1>4. Good(DoReadProxy(s)) BY <1>6 DEF Good, ConnState, DoReadProxy
  <1>5. /\ DoReadProxy(s).proxy \in {s.proxy, Shutdown(s.proxy)}
        /\ DoReadProxy(s).backend = s.backend /\ DoReadProxy(s).phase = s.phase
    BY DEF Good, ConnState, DoReadProxy
  <1> QED BY <1>3, <1>4, <1>5, ShutdownOnward DEF Advance, Keep

LEMMA DoSendProxyLemma ==
    ASSUME NEW s, Good(s)
    PROVE  Keep(s, DoSendProxy(s))
  <1> DEFINE n == Smaller(Len(s.session), SockCap - Len(s.cout))
  <1>2. Shutdown(s.proxy) \in Status BY Fields, StatusLemma
  <1>3. n \in 0 .. Len(s.session) /\ n <= SockCap - Len(s.cout)
    BY Fields DEF Smaller
  <1> HIDE DEF n
  <1>4. /\ Take(s.session, n) \in Seq(Nat) /\ Len(Take(s.session, n)) = n
        /\ Drop(s.session, n) \in Seq(Nat) /\ Len(Drop(s.session, n)) <= SessLimit
    BY SMTT(60), <1>3, BufferLemma, Fields
  <1>5. /\ s.cout \o Take(s.session, n) \in Seq(Nat)
        /\ Len(s.cout \o Take(s.session, n)) <= SockCap
    <2>1. /\ s.cout \in Seq(Nat) /\ Len(s.cout) \in Nat /\ Len(s.session) \in Nat
          /\ SockCap \in Nat
      BY Fields
    <2>2. Len(s.cout) + Len(Take(s.session, n)) <= SockCap BY <2>1, <1>3, <1>4
    <2> QED BY <2>1, <2>2, <1>4, FitLemma
  <1>8. DoSendProxy(s) \in ConnState
    <2>1. [s EXCEPT !.proxyWritable = TRUE] \in ConnState BY DEF Good, ConnState
    <2>2. [s EXCEPT !.proxyWritable = TRUE, !.proxy = Shutdown(@)] \in ConnState
      BY <1>2 DEF Good, ConnState
    <2>3. [s EXCEPT !.cout = @ \o Take(s.session, n), !.session = Drop(s.session, n),
                    !.proxyWritable = (n = Len(s.session)),
                    !.cblk = @ \/ n < Len(s.session)] \in ConnState
      BY ZenonT(60), <1>4, <1>5 DEF Good, ConnState
    <2> QED BY <2>1, <2>2, <2>3 DEF DoSendProxy, n, Good
  <1>6. Good(DoSendProxy(s)) BY <1>8, <1>4, <1>5 DEF Good, ConnState, DoSendProxy, n
  <1>7. /\ DoSendProxy(s).proxy \in {s.proxy, Shutdown(s.proxy)}
        /\ DoSendProxy(s).backend = s.backend /\ DoSendProxy(s).phase = s.phase
    BY DEF Good, ConnState, DoSendProxy
  <1> QED BY <1>6, <1>7, ShutdownOnward DEF Advance, Keep

LEMMA TcpReadLemma ==
    ASSUME NEW s, Good(s), s.backend # "None"
    PROVE  Keep(s, TcpRead(s))
  <1> DEFINE room == SessLimit - Len(s.session)
  <1> DEFINE full == [s EXCEPT !.session = @ \o Take(s.tin, room), !.tin = Drop(s.tin, room + 1),
                               !.proxy = Shutdown(@), !.broken = TRUE]
  <1> DEFINE rest == [s EXCEPT !.session = @ \o s.tin, !.tin = Empty,
                               !.backend = IF s.tend # "open" THEN Shutdown(@) ELSE @]
  <1>0. /\ Len(s.session) \in Nat /\ Len(s.session) <= SessLimit /\ SessLimit \in Nat
        /\ Len(s.tin) \in Nat /\ s.session \in Seq(Nat) /\ s.tin \in Seq(Nat)
    BY Fields
  <1>1. /\ Shutdown(s.proxy) \in Status /\ Shutdown(s.backend) \in Status
        /\ room \in Nat /\ room + 1 \in Nat
    BY <1>0, RoomLemma, Fields, StatusLemma
  <1>4. Shutdown(s.backend) # "None" BY <1>1 DEF Status
  <1>2. CASE Len(s.tin) > room
    <2>1. room \in 0 .. Len(s.tin) /\ Len(s.session) + room <= SessLimit
      BY <1>0, <1>2, RoomLemma
    <2> HIDE DEF room
    <2>2. Take(s.tin, room) \in Seq(Nat) /\ Len(Take(s.tin, room)) = room /\ Drop(s.tin, room + 1) \in Seq(Nat)
      BY <1>1, <2>1, BufferLemma, DropLemma, Fields
    <2>3. Len(s.session) + Len(Take(s.tin, room)) <= SessLimit BY <2>1, <2>2
    <2>4. /\ s.session \o Take(s.tin, room) \in Seq(Nat)
          /\ Len(s.session \o Take(s.tin, room)) <= SessLimit
      BY <1>0, <2>2, <2>3, FitLemma
    <2>5. full \in ConnState BY <1>1, <2>2, <2>4 DEF Good, ConnState
    <2>6. Good(full) BY <2>5, <2>4 DEF Good, ConnState
    <2>7. /\ full.proxy = Shutdown(s.proxy) /\ full.backend = s.backend /\ full.phase = s.phase
      BY DEF Good, ConnState
    <2>8. TcpRead(s) = full BY <1>2 DEF TcpRead, room
    <2> HIDE DEF full
    <2>9. Onward(s, full) BY <2>7, ShutdownOnward
    <2> QED BY <2>6, <2>7, <2>8, <2>9 DEF Advance, Keep
  <1>3. CASE ~(Len(s.tin) > room)
    <2>1. Len(s.session) + Len(s.tin) <= SessLimit BY <1>3, <1>0, RoomLemma
    <2>2. s.session \o s.tin \in Seq(Nat) /\ Len(s.session \o s.tin) <= SessLimit
      BY <1>0, <2>1, FitLemma
    <2>3. rest \in ConnState BY <1>1, <2>2, EmptyLemma DEF Good, ConnState
    <2>4. Good(rest) BY <2>2, <2>3 DEF Good, ConnState
    <2>5. rest.proxy = s.proxy /\ rest.backend \in {s.backend, Shutdown(s.backend)} /\ rest.phase = s.phase
      BY DEF Good, ConnState
    <2>6. TcpRead(s) = rest BY <1>3 DEF TcpRead
    <2> HIDE DEF rest
    <2>7. Onward(s, rest) BY <2>5, ShutdownOnward
    <2> QED BY <1>4, <2>4, <2>5, <2>6, <2>7 DEF Advance, Keep
  <1> QED BY <1>2, <1>3

LEMMA DoReadBackendLemma ==
    ASSUME NEW s, Good(s), s.backend # "None"
    PROVE  Keep(s, DoReadBackend(s))
  <1>1. Keep(s, TcpRead(s)) BY TcpReadLemma
  <1>2. Good(TcpRead(s)) BY <1>1 DEF Keep, Advance
  <1>3. Keep(TcpRead(s), DoSendProxy(TcpRead(s))) BY <1>2, DoSendProxyLemma
  <1>4. DoReadBackend(s) = DoSendProxy(TcpRead(s)) BY DEF DoReadBackend, TcpDoRead, UdpDoRead
  <1> QED BY <1>1, <1>3, <1>4, KeepTrans

LEMMA NoRoom == \A k \in Nat : Smaller(k, 0) = 0
  BY DEF Smaller

\* Taking no more than there is room for keeps the target's buffer bounded.
LEMMA RoomOf ==
    ASSUME NEW s, Good(s), NEW k \in Nat
    PROVE  /\ Room(s) \in Nat /\ Len(s.tout) + Room(s) <= SockCap
           /\ Smaller(k, Room(s)) \in 0 .. k /\ Len(s.tout) + Smaller(k, Room(s)) <= SockCap
  <1>1. Len(s.tout) \in Nat /\ SockCap \in Nat /\ Len(s.tout) <= SockCap BY Fields
  <1>2. CASE s.tcon = "up"
    <2>1. Room(s) = SockCap - Len(s.tout) BY <1>2 DEF Room
    <2> QED BY <1>1, <2>1, RoomLemma
  <1>3. CASE s.tcon # "up"
    <2>1. Room(s) = 0 BY <1>3 DEF Room
    <2>2. Smaller(k, Room(s)) = 0 BY <2>1, NoRoom
    <2> QED BY <1>1, <2>1, <2>2
  <1> QED BY <1>2, <1>3

LEMMA WriteOutLemma ==
    ASSUME NEW s, Good(s), NEW all \in Seq(Nat), NEW n \in 0 .. Len(all),
           Len(s.tout) + n <= SockCap
    PROVE  Keep(s, WriteOut(s, all, n))
  <1> DEFINE t == WriteOut(s, all, n)
  <1>1. /\ Take(all, n) \in Seq(Nat) /\ Len(Take(all, n)) = n /\ Drop(all, n) \in Seq(Nat)
        /\ s.tout \in Seq(Nat) /\ SockCap \in Nat
    BY BufferLemma, Fields
  <1>2. s.tout \o Take(all, n) \in Seq(Nat) /\ Len(s.tout \o Take(all, n)) <= SockCap
    BY <1>1, FitLemma
  <1>3. t \in ConnState BY <1>1, <1>2 DEF Good, ConnState, WriteOut
  <1>4. Good(t) BY <1>2, <1>3 DEF Good, ConnState, WriteOut
  <1>5. t.proxy = s.proxy /\ t.backend = s.backend /\ t.phase = s.phase
    BY DEF Good, ConnState, WriteOut
  <1> HIDE DEF t
  <1>6. Onward(s, t) BY <1>5, ShutdownOnward
  <1>7. Keep(s, t) BY <1>4, <1>5, <1>6 DEF Keep, Advance
  <1> QED BY <1>7 DEF t

\* A failed send drops send_buffer and shuts the backend down.
LEMMA FailedSend ==
    ASSUME NEW s, Good(s), s.backend # "None"
    PROVE  Keep(s, [s EXCEPT !.sendBuffer = Empty, !.backend = Shutdown(@)])
  <1> DEFINE t == [s EXCEPT !.sendBuffer = Empty, !.backend = Shutdown(@)]
  <1>1. Shutdown(s.backend) \in Status /\ Shutdown(s.backend) # "None"
    BY Fields, StatusLemma DEF Status
  <1>2. t \in ConnState BY <1>1, EmptyLemma DEF Good, ConnState
  <1>3. Good(t) BY <1>2 DEF Good, ConnState
  <1>4. t.proxy = s.proxy /\ t.backend = Shutdown(s.backend) /\ t.phase = s.phase
    BY DEF Good, ConnState
  <1> HIDE DEF t
  <1>5. Onward(s, t) BY <1>4, ShutdownOnward
  <1>6. Keep(s, t) BY <1>1, <1>3, <1>4, <1>5 DEF Keep, Advance
  <1> QED BY <1>6 DEF t

LEMMA KeepRefl ==
    ASSUME NEW s, Good(s) PROVE Keep(s, s)
  BY AdvanceRefl DEF Keep

LEMMA TcpDispatchLemma ==
    ASSUME NEW s, Good(s), s.backend # "None", NEW buffer \in Seq(Nat)
    PROVE  Keep(s, TcpDispatch(s, buffer))
  <1> DEFINE all == s.sendBuffer \o buffer
  <1>1. all \in Seq(Nat) BY Fields, ConcatProperties
  <1> HIDE DEF all
  <1>2. Len(all) \in Nat BY <1>1, LenProperties
  <1>3. Keep(s, WriteOut(s, all, Smaller(Len(all), Room(s))))
    BY <1>1, <1>2, RoomOf, WriteOutLemma
  <1> QED BY <1>3, FailedSend, KeepRefl DEF TcpDispatch, all

LEMMA GoodPacketsLemma ==
    ASSUME NEW all \in Seq(Nat)
    PROVE  GoodPackets(all) \in 0 .. Len(all)
  <1>1. Len(all) \in Nat BY LenProperties
  <1>2. CASE req = "udpBad" /\ \E i \in 1 .. Len(all) : all[i] = 2
    <2> DEFINE k == CHOOSE i \in 1 .. Len(all) : all[i] = 2
    <2>1. k \in 1 .. Len(all) BY <1>2
    <2>2. GoodPackets(all) = k - 1 BY <1>2 DEF GoodPackets
    <2> HIDE DEF k
    <2> QED BY <1>1, <2>1, <2>2
  <1>3. CASE ~(req = "udpBad" /\ \E i \in 1 .. Len(all) : all[i] = 2)
    <2>1. GoodPackets(all) = Len(all) BY <1>3 DEF GoodPackets
    <2> QED BY <1>1, <2>1
  <1> QED BY <1>2, <1>3

LEMMA UdpDispatchLemma ==
    ASSUME NEW s, Good(s), s.backend # "None", NEW buffer \in Seq(Nat)
    PROVE  Keep(s, UdpDispatch(s, buffer))
  <1> DEFINE all == s.sendBuffer \o buffer
  <1>1. all \in Seq(Nat) BY Fields, ConcatProperties
  <1> DEFINE good == GoodPackets(all)
  <1> DEFINE cut == [s EXCEPT !.tout = @ \o Take(all, good), !.sendBuffer = Empty,
                              !.backend = Shutdown(@), !.broken = TRUE]
  <1> HIDE DEF all
  <1>2. Len(all) \in Nat /\ good \in 0 .. Len(all) BY <1>1, LenProperties, GoodPacketsLemma
  <1> HIDE DEF good
  <1>3. Keep(s, WriteOut(s, all, Smaller(Len(all), Room(s))))
    BY <1>1, <1>2, RoomOf, WriteOutLemma
  <1>4. ASSUME good <= Room(s) PROVE Keep(s, cut)
    <2>1. /\ Take(all, good) \in Seq(Nat) /\ Len(Take(all, good)) = good
          /\ s.tout \in Seq(Nat) /\ Len(s.tout) \in Nat /\ SockCap \in Nat
          /\ Room(s) \in Nat /\ Len(s.tout) + Room(s) <= SockCap
      BY <1>1, <1>2, BufferLemma, Fields, RoomOf
    <2>2. Len(s.tout) + Len(Take(all, good)) <= SockCap BY <1>2, <1>4, <2>1
    <2>3. s.tout \o Take(all, good) \in Seq(Nat) /\ Len(s.tout \o Take(all, good)) <= SockCap
      BY <2>1, <2>2, FitLemma
    <2>4. Shutdown(s.backend) \in Status /\ Shutdown(s.backend) # "None"
      BY Fields, StatusLemma DEF Status
    <2>5. cut \in ConnState BY <2>3, <2>4, EmptyLemma DEF Good, ConnState
    <2>6. Good(cut) BY <2>3, <2>5 DEF Good, ConnState
    <2>7. cut.proxy = s.proxy /\ cut.backend = Shutdown(s.backend) /\ cut.phase = s.phase
      BY DEF Good, ConnState
    <2> HIDE DEF cut
    <2>8. Onward(s, cut) BY <2>7, ShutdownOnward
    <2> QED BY <2>4, <2>6, <2>7, <2>8 DEF Keep, Advance
  <1> QED BY <1>3, <1>4, FailedSend, KeepRefl DEF UdpDispatch, all, good

LEMMA BackendDispatchLemma ==
    ASSUME NEW s, Good(s), s.backend # "None", NEW buffer \in Seq(Nat)
    PROVE  Keep(s, BackendDispatch(s, buffer))
  BY TcpDispatchLemma, UdpDispatchLemma DEF BackendDispatch

-----------------------------------------------------------------------------
(* Connection *)

\* What every handler establishes, given the same of its argument.
Moves(s, t) == Advance(s, t) /\ Waiting(t)

LEMMA MovesTrans ==
    ASSUME NEW s, NEW t, NEW u, Good(s), Moves(s, t), Moves(t, u)
    PROVE  Moves(s, u)
  BY AdvanceTrans DEF Moves

LEMMA MovesGood ==
    ASSUME NEW s, NEW t, Moves(s, t) PROVE Good(t) /\ Waiting(t)
  BY DEF Moves, Advance

LEMMA KeepMoves ==
    ASSUME NEW s, NEW t, Waiting(s), Keep(s, t) PROVE Moves(s, t)
  BY DEF Keep, Moves, Waiting

LEMMA KeepGood ==
    ASSUME NEW s, NEW t, Keep(s, t)
    PROVE  Good(t) /\ (t.backend = "None" <=> s.backend = "None")
  BY DEF Keep, Advance

\* read_proxy and read_backend only remember an event.
LEMMA FlagLemma ==
    ASSUME NEW s, Good(s), NEW b \in BOOLEAN
    PROVE  /\ Keep(s, [s EXCEPT !.readProxy = b])
           /\ Keep(s, [s EXCEPT !.readBackend = b])
  <1> DEFINE t == [s EXCEPT !.readProxy = b]
  <1> DEFINE u == [s EXCEPT !.readBackend = b]
  <1>1. t \in ConnState /\ u \in ConnState BY DEF Good, ConnState
  <1>2. Good(t) /\ Good(u) BY <1>1 DEF Good, ConnState
  <1>3. /\ t.proxy = s.proxy /\ t.backend = s.backend /\ t.phase = s.phase
        /\ u.proxy = s.proxy /\ u.backend = s.backend /\ u.phase = s.phase
    BY DEF Good, ConnState
  <1> HIDE DEF t, u
  <1>4. Onward(s, t) /\ Onward(s, u) BY <1>3, ShutdownOnward
  <1>5. Keep(s, t) /\ Keep(s, u) BY <1>2, <1>3, <1>4 DEF Keep, Advance
  <1> QED BY <1>5 DEF t, u

\* A failed setup shuts the TLS endpoint down and leaves no backend.
LEMMA FailedSetup ==
    ASSUME NEW s, Good(s), s.backend = "None",
           NEW ph \in {"HandShake", "DnsWait", "TCPForward", "UDPForward"}
    PROVE  Moves(s, [s EXCEPT !.proxy = Shutdown(@), !.broken = TRUE, !.phase = ph])
  <1> DEFINE t == [s EXCEPT !.proxy = Shutdown(@), !.broken = TRUE, !.phase = ph]
  <1>1. Shutdown(s.proxy) \in Status BY Fields, StatusLemma
  <1>2. t \in ConnState BY <1>1 DEF Good, ConnState
  <1>3. Good(t) BY <1>2 DEF Good, ConnState
  <1>4. t.proxy = Shutdown(s.proxy) /\ t.backend = "None" BY DEF Good, ConnState
  <1> HIDE DEF t
  <1>5. Onward(s, t) BY <1>4, ShutdownOnward
  <1>6. Moves(s, t) BY <1>3, <1>4, <1>5 DEF Moves, Advance, Waiting
  <1> QED BY <1>6 DEF t

LEMMA FailedConnect ==
    ASSUME NEW s, Good(s), s.backend = "None"
    PROVE  Moves(s, [s EXCEPT !.proxy = Shutdown(@), !.broken = TRUE])
  <1> DEFINE t == [s EXCEPT !.proxy = Shutdown(@), !.broken = TRUE]
  <1>1. Shutdown(s.proxy) \in Status BY Fields, StatusLemma
  <1>2. t \in ConnState BY <1>1 DEF Good, ConnState
  <1>3. Good(t) BY <1>2 DEF Good, ConnState
  <1>4. t.proxy = Shutdown(s.proxy) /\ t.backend = "None" BY DEF Good, ConnState
  <1> HIDE DEF t
  <1>5. Onward(s, t) BY <1>4, ShutdownOnward
  <1>6. Moves(s, t) BY <1>3, <1>4, <1>5 DEF Moves, Advance, Waiting
  <1> QED BY <1>6 DEF t

LEMMA SetupTcpLemma ==
    ASSUME NEW s, Good(s), s.backend = "None", NEW o \in Outcome
    PROVE  Moves(s, SetupTcp(s, o))
  <1>1. CASE o.open = "connectErr"
    BY <1>1, FailedConnect DEF SetupTcp
  <1>2. CASE o.open = "registerErr"
    BY <1>2, FailedSetup DEF SetupTcp
  <1>3. CASE o.open \notin {"connectErr", "registerErr"}
    <2> DEFINE t == [s EXCEPT !.backend = "Established", !.data = Empty,
                              !.tcon = IF o.open = "up" THEN "up" ELSE "connecting"]
    <2> DEFINE u == BackendDispatch(t, s.data)
    <2> DEFINE v == [u EXCEPT !.phase = "TCPForward"]
    <2>0. SetupTcp(s, o) = v BY <1>3 DEF SetupTcp
    <2>1. t \in ConnState BY EmptyLemma DEF Good, ConnState, Status
    <2>2. Good(t) /\ t.backend # "None" /\ t.proxy = s.proxy BY <2>1 DEF Good, ConnState
    <2>3. s.data \in Seq(Nat) BY Fields
    <2> HIDE DEF t
    <2>4. Keep(t, u) BY <2>2, <2>3, BackendDispatchLemma
    <2> HIDE DEF u
    <2>5. Good(u) /\ Onward(t, u) BY <2>4 DEF Keep, Advance
    <2>6. v \in ConnState BY <2>5 DEF Good, ConnState
    <2>7. Good(v) /\ v.proxy = u.proxy /\ v.phase = "TCPForward" BY <2>5, <2>6 DEF Good, ConnState
    <2> HIDE DEF v
    <2>8. Onward(s, v) BY <2>2, <2>5, <2>7 DEF Onward
    <2>9. Moves(s, v) BY <2>7, <2>8 DEF Moves, Advance, Waiting
    <2> QED BY <2>0, <2>9
  <1> QED BY <1>1, <1>2, <1>3

LEMMA SetupUdpLemma ==
    ASSUME NEW s, Good(s), s.backend = "None", NEW o \in Outcome
    PROVE  Moves(s, SetupUdp(s, o))
  <1>1. CASE o.open = "connectErr"
    BY <1>1, FailedConnect DEF SetupUdp
  <1>2. CASE o.open = "registerErr"
    BY <1>2, FailedSetup DEF SetupUdp
  <1>3. CASE o.open \notin {"connectErr", "registerErr"}
    <2> DEFINE t == [s EXCEPT !.backend = "Established", !.tcon = "up", !.phase = "UDPForward"]
    <2>0. SetupUdp(s, o) = t BY <1>3 DEF SetupUdp
    <2>1. t \in ConnState BY DEF Good, ConnState, Status
    <2>2. Good(t) /\ t.proxy = s.proxy /\ t.phase = "UDPForward" BY <2>1 DEF Good, ConnState
    <2> HIDE DEF t
    <2>3. Rank(s.proxy) \in Nat BY Fields, StatusLemma
    <2>4. Onward(s, t) BY <2>2, <2>3 DEF Onward
    <2>5. Moves(s, t) BY <2>2, <2>4 DEF Moves, Advance, Waiting
    <2> QED BY <2>0, <2>5
  <1> QED BY <1>1, <1>2, <1>3

LEMMA ForwardLemma ==
    ASSUME NEW s, Good(s), Waiting(s), NEW buffer \in Seq(Nat)
    PROVE  Moves(s, Forward(s, buffer))
  <1>1. Keep(s, Forward(s, buffer)) BY BackendDispatchLemma, KeepRefl DEF Forward
  <1> QED BY <1>1, KeepMoves

LEMMA DispatchDnsWaitLemma ==
    ASSUME NEW s, Good(s), s.backend = "None", NEW buffer \in Seq(Nat), NEW o \in Outcome
    PROVE  Moves(s, DispatchDnsWait(s, buffer, o))
  <1>1. CASE IsUdp
    <2> DEFINE t == SetupUdp(s, o)
    <2>1. Moves(s, t) BY SetupUdpLemma
    <2> HIDE DEF t
    <2>2. Moves(t, Forward(t, buffer)) BY <2>1, MovesGood, ForwardLemma
    <2>3. Moves(s, Forward(t, buffer)) BY <2>1, <2>2, MovesTrans
    <2> QED BY <1>1, <2>1, <2>3 DEF DispatchDnsWait, t
  <1>2. CASE ~IsUdp
    <2> DEFINE t == [s EXCEPT !.data = @ \o buffer]
    <2>1. s.data \o buffer \in Seq(Nat) BY Fields, ConcatProperties
    <2>2. t \in ConnState BY <2>1 DEF Good, ConnState
    <2>3. Good(t) /\ t.backend = "None" /\ t.proxy = s.proxy BY <2>2 DEF Good, ConnState
    <2> HIDE DEF t
    <2>4. Onward(s, t) BY <2>3, ShutdownOnward
    <2>5. Moves(s, t) BY <2>3, <2>4 DEF Moves, Advance, Waiting
    <2>6. Moves(t, SetupTcp(t, o)) BY <2>3, SetupTcpLemma
    <2>7. Moves(s, SetupTcp(t, o)) BY <2>5, <2>6, MovesTrans
    <2> QED BY <1>2, <2>5, <2>7 DEF DispatchDnsWait, t
  <1> QED BY <1>1, <1>2

LEMMA TryHandshakeLemma ==
    ASSUME NEW s, Good(s), s.backend = "None", NEW o \in Outcome
    PROVE  Moves(s, TryHandshake(s, o)) /\ TryHandshake(s, o).backend = "None"
  <1> DEFINE t == TryHandshake(s, o)
  <1>1. t \in ConnState BY DEF Good, ConnState, TryHandshake
  <1>2. Good(t) /\ t.backend = "None" /\ t.proxy = s.proxy
    BY <1>1 DEF Good, ConnState, TryHandshake
  <1> HIDE DEF t
  <1>3. Onward(s, t) BY <1>2, ShutdownOnward
  <1>4. Moves(s, t) BY <1>2, <1>3 DEF Moves, Advance, Waiting
  <1> QED BY <1>2, <1>4 DEF t

LEMMA PayloadLemma ==
    ASSUME NEW s, NEW buffer \in Seq(Nat), buffer # Empty
    PROVE  Payload(s, buffer) \in Seq(Nat)
  <1>1. buffer # << >> BY DEF Empty
  <1>2. Tail(buffer) \in Seq(Nat) BY <1>1, HeadTailProperties
  <1> QED BY <1>2 DEF Payload

\* dispatch is called with an empty buffer only once the handshake is over.
LEMMA DispatchLemma ==
    ASSUME NEW s, Good(s), Waiting(s), NEW buffer \in Seq(Nat), NEW o \in Outcome,
           s.phase = "HandShake" => buffer # Empty
    PROVE  Moves(s, Dispatch(s, buffer, o))
  <1>1. CASE s.phase = "HandShake"
    <2> DEFINE t == TryHandshake(s, o)
    <2>0. s.backend = "None" BY <1>1 DEF Waiting
    <2>1. Moves(s, t) /\ t.backend = "None" BY <2>0, TryHandshakeLemma
    <2> HIDE DEF t
    <2>2. Payload(s, buffer) \in Seq(Nat) BY <1>1, PayloadLemma
    <2>3. Moves(t, DispatchDnsWait(t, Payload(s, buffer), o))
      BY <2>1, <2>2, MovesGood, DispatchDnsWaitLemma
    <2>4. Moves(s, DispatchDnsWait(t, Payload(s, buffer), o)) BY <2>1, <2>3, MovesTrans
    <2>5. Dispatch(s, buffer, o) = DispatchDnsWait(t, Payload(s, buffer), o)
      BY <1>1 DEF Dispatch, t
    <2> QED BY <2>4, <2>5
  <1>2. CASE s.phase = "DnsWait"
    <2>1. Dispatch(s, buffer, o) = DispatchDnsWait(s, buffer, o) BY <1>2 DEF Dispatch
    <2>2. s.backend = "None" BY <1>2 DEF Waiting
    <2> QED BY <2>1, <2>2, DispatchDnsWaitLemma
  <1>3. CASE s.phase \notin {"HandShake", "DnsWait"}
    <2>1. Dispatch(s, buffer, o) = Forward(s, buffer) BY <1>3 DEF Dispatch
    <2> QED BY <2>1, ForwardLemma
  <1> QED BY <1>1, <1>2, <1>3

LEMMA TryReadProxyLemma ==
    ASSUME NEW s, Good(s), Waiting(s), NEW o \in Outcome
    PROVE  Moves(s, TryReadProxy(s, o))
  <1> DEFINE t == DoReadProxy(s)
  <1>1. Keep(s, t) /\ ReadBuffer(s) \in Seq(Nat) BY DoReadProxyLemma
  <1> HIDE DEF t
  <1>2. Moves(s, t) BY <1>1, KeepMoves
  <1>3. Good(t) /\ Waiting(t) BY <1>2, MovesGood
  <1>4. ASSUME ReadBuffer(s) # Empty
        PROVE  Moves(s, Dispatch(t, ReadBuffer(s), o))
    <2>1. Moves(t, Dispatch(t, ReadBuffer(s), o)) BY <1>1, <1>3, <1>4, DispatchLemma
    <2> QED BY <1>2, <2>1, MovesTrans
  <1> QED BY <1>2, <1>4 DEF TryReadProxy, t

-----------------------------------------------------------------------------
(* Connection::ready *)

LEMMA ProxyReadableLemma ==
    ASSUME NEW s, Good(s), Waiting(s), NEW o \in Outcome
    PROVE  Moves(s, ProxyReadable(s, o))
  <1>1. Moves(s, [s EXCEPT !.readProxy = TRUE]) BY FlagLemma, KeepMoves
  <1> QED BY <1>1, TryReadProxyLemma DEF ProxyReadable

LEMMA EstablishedLemma ==
    ASSUME NEW s, Good(s)
    PROVE  Keep(s, [s EXCEPT !.proxy = Established(@)])
  <1> DEFINE t == [s EXCEPT !.proxy = Established(@)]
  <1>1. Established(s.proxy) \in Status /\ Rank(Established(s.proxy)) >= Rank(s.proxy)
    BY Fields, StatusLemma
  <1>2. t \in ConnState BY <1>1 DEF Good, ConnState
  <1>3. /\ Good(t) /\ t.phase = s.phase /\ t.backend = s.backend
        /\ t.proxy = Established(s.proxy)
    BY <1>2 DEF Good, ConnState
  <1> HIDE DEF t
  <1>4. s.backend # "None" => Rank(s.backend) \in Nat BY Fields, StatusLemma
  <1>5. Onward(s, t) BY <1>1, <1>3, <1>4 DEF Onward
  <1>6. Keep(s, t) BY <1>3, <1>5 DEF Keep, Advance
  <1> QED BY <1>6 DEF t

LEMMA ProxyWriteReadyLemma ==
    ASSUME NEW s, Good(s)
    PROVE  Keep(s, ProxyWriteReady(s))
  <1> DEFINE e == [s EXCEPT !.proxy = Established(@)]
  <1> DEFINE t == DoSendProxy(e)
  <1> DEFINE u == IF t.backend = "None" THEN t ELSE DoReadBackend(t)
  <1>1. Keep(s, e) BY EstablishedLemma
  <1> HIDE DEF e
  <1>2. Keep(e, t) BY <1>1, KeepGood, DoSendProxyLemma
  <1>3. Keep(s, t) BY <1>1, <1>2, KeepTrans
  <1> HIDE DEF t
  <1>4. Good(t) BY <1>3, KeepGood
  <1>5. Keep(t, u) BY <1>4, KeepRefl, DoReadBackendLemma
  <1> HIDE DEF u
  <1>6. Keep(u, [u EXCEPT !.readBackend = FALSE]) BY <1>5, KeepGood, FlagLemma
  <1>7. Keep(s, [u EXCEPT !.readBackend = FALSE]) BY <1>3, <1>4, <1>5, <1>6, KeepTrans
  <1> QED BY <1>3, <1>7 DEF ProxyWriteReady, e, t, u

LEMMA BackendReadableLemma ==
    ASSUME NEW s, Good(s), s.backend # "None"
    PROVE  Keep(s, BackendReadable(s))
  BY FlagLemma, DoReadBackendLemma DEF BackendReadable

LEMMA BackendWriteReadyLemma ==
    ASSUME NEW s, Good(s), Waiting(s), s.backend # "None", NEW o \in Outcome
    PROVE  Moves(s, BackendWriteReady(s, o))
  <1> DEFINE t == BackendDispatch(s, Empty)
  <1> DEFINE u == TryReadProxy(t, o)
  <1>1. Moves(s, t) BY EmptyLemma, BackendDispatchLemma, KeepMoves
  <1> HIDE DEF t
  <1>2. Moves(t, u) BY <1>1, MovesGood, TryReadProxyLemma
  <1> HIDE DEF u
  <1>3. Moves(u, [u EXCEPT !.readProxy = FALSE]) BY <1>2, MovesGood, FlagLemma, KeepMoves
  <1>4. Moves(t, [u EXCEPT !.readProxy = FALSE]) BY <1>1, <1>2, <1>3, MovesGood, MovesTrans
  <1>5. Moves(s, [u EXCEPT !.readProxy = FALSE]) BY <1>1, <1>4, MovesTrans
  <1> QED BY <1>1, <1>5 DEF BackendWriteReady, t, u

LEMMA RankTrans ==
    ASSUME NEW a \in Status, NEW b \in Status, NEW d \in Status,
           Rank(b) >= Rank(a), Rank(d) >= Rank(b)
    PROVE  Rank(d) >= Rank(a)
  BY StatusLemma

LEMMA SettleLemma ==
    ASSUME NEW s, Good(s), Waiting(s)
    PROVE  Moves(s, Settle(s))
  <1> DEFINE b == IF s.backend # "None" /\ IsShutdown(s.proxy) THEN PeerClosed(s.backend) ELSE s.backend
  <1> DEFINE p == IF s.backend # "None" /\ IsShutdown(b) THEN PeerClosed(s.proxy) ELSE s.proxy
  <1> DEFINE pp == CheckStatus(p, s.session = Empty)
  <1> DEFINE bb == IF b = "None" THEN b ELSE CheckStatus(b, s.sendBuffer = Empty)
  <1> DEFINE t == [s EXCEPT !.proxy = pp, !.backend = bb]
  <1>0. "None" \notin Status BY DEF Status
  <1>1. p \in Status /\ Rank(p) >= Rank(s.proxy) /\ s.proxy \in Status
    <2>1. /\ s.proxy \in Status /\ Rank(s.proxy) >= Rank(s.proxy)
          /\ PeerClosed(s.proxy) \in Status /\ Rank(PeerClosed(s.proxy)) >= Rank(s.proxy)
      BY Fields, StatusLemma
    <2>2. p = s.proxy \/ p = PeerClosed(s.proxy) OBVIOUS
    <2> HIDE DEF p
    <2> QED BY <2>1, <2>2
  <1>2. /\ s.backend = "None" => b = "None"
        /\ s.backend # "None" => b \in Status /\ Rank(b) >= Rank(s.backend) /\ s.backend \in Status
    <2>1. ASSUME s.backend # "None"
          PROVE  /\ s.backend \in Status /\ Rank(s.backend) >= Rank(s.backend)
                 /\ PeerClosed(s.backend) \in Status
                 /\ Rank(PeerClosed(s.backend)) >= Rank(s.backend)
      <3>1. s.backend \in Status BY <2>1, Fields
      <3> QED BY <3>1, StatusLemma
    <2>2. b = s.backend \/ (s.backend # "None" /\ b = PeerClosed(s.backend)) OBVIOUS
    <2> HIDE DEF b
    <2> QED BY <2>1, <2>2
  <1>3. t = Settle(s) BY DEF Settle
  <1> HIDE DEF p, b
  <1>4. pp \in Status /\ Rank(pp) >= Rank(p) BY <1>1, CheckStatusLemma
  <1>5. Rank(pp) >= Rank(s.proxy) BY <1>1, <1>4, RankTrans
  <1>6. /\ s.backend = "None" => bb = "None"
        /\ s.backend # "None" => bb \in Status /\ Rank(bb) >= Rank(b)
    BY <1>0, <1>2, CheckStatusLemma
  <1>7. s.backend # "None" => bb # "None" /\ Rank(bb) >= Rank(s.backend)
    BY <1>0, <1>2, <1>6, RankTrans
  <1> HIDE DEF pp, bb
  <1>8. t \in ConnState BY <1>4, <1>6 DEF Good, ConnState
  <1>9. Good(t) /\ t.proxy = pp /\ t.backend = bb /\ t.phase = s.phase
    BY <1>8 DEF Good, ConnState
  <1> HIDE DEF t
  <1>10. Onward(s, t) BY <1>5, <1>7, <1>9 DEF Onward
  <1>11. Waiting(t) BY <1>6, <1>9 DEF Waiting
  <1> QED BY <1>3, <1>9, <1>10, <1>11 DEF Moves, Advance

LEMMA MovesRefl ==
    ASSUME NEW s, Good(s), Waiting(s) PROVE Moves(s, s)
  BY AdvanceRefl DEF Moves

LEMMA ReadyProxyLemma ==
    ASSUME NEW s, Good(s), Waiting(s), NEW flags, NEW o \in Outcome
    PROVE  Moves(s, ReadyProxy(s, flags, o))
  <1> DEFINE t == IF "r" \in flags THEN ProxyReadable(s, o) ELSE s
  <1> DEFINE u == IF "w" \in flags THEN ProxyWriteReady(t) ELSE t
  <1>1. Moves(s, t) BY ProxyReadableLemma, MovesRefl
  <1> HIDE DEF t
  <1>2. Good(t) /\ Waiting(t) BY <1>1, MovesGood
  <1>3. Moves(t, u) BY <1>2, ProxyWriteReadyLemma, KeepMoves, MovesRefl
  <1> HIDE DEF u
  <1>4. Moves(u, Settle(u)) BY <1>3, MovesGood, SettleLemma
  <1>5. Moves(s, Settle(u)) BY <1>1, <1>2, <1>3, <1>4, MovesTrans
  <1> QED BY <1>5 DEF ReadyProxy, t, u

LEMMA ReadyBackendLemma ==
    ASSUME NEW s, Good(s), Waiting(s), NEW flags, NEW o \in Outcome
    PROVE  Moves(s, ReadyBackend(s, flags, o))
  <1> DEFINE t == IF "r" \in flags THEN BackendReadable(s) ELSE s
  <1> DEFINE u == IF "w" \in flags THEN BackendWriteReady(t, o) ELSE t
  <1>1. Moves(s, Settle(s)) BY SettleLemma
  <1>2. ASSUME s.backend # "None" PROVE Moves(s, Settle(u))
    <2>1. Keep(s, t) BY <1>2, BackendReadableLemma, KeepRefl
    <2> HIDE DEF t
    <2>2. Good(t) /\ t.backend # "None" /\ Moves(s, t) BY <1>2, <2>1, KeepGood, KeepMoves
    <2>3. Waiting(t) BY <2>2, MovesGood
    <2>4. Moves(t, u) BY <2>2, <2>3, BackendWriteReadyLemma, MovesRefl
    <2> HIDE DEF u
    <2>5. Moves(u, Settle(u)) BY <2>4, MovesGood, SettleLemma
    <2> QED BY <2>2, <2>4, <2>5, MovesTrans
  <1> QED BY <1>1, <1>2 DEF ReadyBackend, t, u

LEMMA ReadyDnsLemma ==
    ASSUME NEW s, Good(s), Waiting(s), NEW found \in BOOLEAN, NEW o \in Outcome
    PROVE  Moves(s, ReadyDns(s, found, o))
  <1> DEFINE r == [s EXCEPT !.target = TRUE]
  <1> DEFINE f == [s EXCEPT !.proxy = Shutdown(@)]
  <1>1. Shutdown(s.proxy) \in Status BY Fields, StatusLemma
  <1>2. r \in ConnState /\ f \in ConnState BY <1>1 DEF Good, ConnState
  <1>3. /\ Good(r) /\ r.proxy = s.proxy /\ r.backend = s.backend /\ r.phase = s.phase
        /\ Good(f) /\ f.proxy = Shutdown(s.proxy) /\ f.backend = s.backend /\ f.phase = s.phase
    BY <1>2 DEF Good, ConnState
  <1>0. /\ s.phase = "DnsWait" /\ found => ReadyDns(s, found, o) = Settle(Dispatch(r, Empty, o))
        /\ s.phase = "DnsWait" /\ ~found => ReadyDns(s, found, o) = Settle(f)
        /\ s.phase # "DnsWait" => ReadyDns(s, found, o) = Settle(s)
    BY DEF ReadyDns
  <1> HIDE DEF r, f
  <1>4. Onward(s, r) /\ Onward(s, f) BY <1>3, ShutdownOnward
  <1>5. Moves(s, r) /\ Moves(s, f) BY <1>3, <1>4 DEF Moves, Advance, Waiting
  <1>6. CASE s.phase = "DnsWait" /\ found
    <2> DEFINE d == Dispatch(r, Empty, o)
    <2>1. Moves(r, d) BY <1>3, <1>5, <1>6, MovesGood, EmptyLemma, DispatchLemma
    <2> HIDE DEF d
    <2>2. Moves(s, d) BY <1>5, <2>1, MovesTrans
    <2>3. Moves(d, Settle(d)) BY <2>2, MovesGood, SettleLemma
    <2>4. Moves(s, Settle(d)) BY <2>2, <2>3, MovesTrans
    <2> QED BY <1>0, <1>6, <2>4 DEF d
  <1>7. CASE s.phase = "DnsWait" /\ ~found
    <2>1. Moves(f, Settle(f)) BY <1>5, MovesGood, SettleLemma
    <2>2. Moves(s, Settle(f)) BY <1>5, <2>1, MovesTrans
    <2> QED BY <1>0, <1>7, <2>2
  <1>8. CASE s.phase # "DnsWait"
    BY <1>0, <1>8, SettleLemma
  <1> QED BY <1>6, <1>7, <1>8

LEMMA DestroyLemma ==
    ASSUME NEW s, Good(s), Waiting(s)
    PROVE  Moves(s, Destroy(s))
  <1> DEFINE p == CheckStatus(Shutdown(s.proxy), FALSE)
  <1> DEFINE b == IF s.backend = "None" THEN s.backend ELSE CheckStatus(Shutdown(s.backend), FALSE)
  <1> DEFINE t == [s EXCEPT !.proxy = p, !.backend = b]
  <1>0. "None" \notin Status BY DEF Status
  <1>1. /\ s.proxy \in Status /\ Shutdown(s.proxy) \in Status
        /\ Rank(Shutdown(s.proxy)) >= Rank(s.proxy)
    BY Fields, StatusLemma
  <1>2. p \in Status /\ Rank(p) >= Rank(Shutdown(s.proxy)) BY <1>1, CheckStatusLemma
  <1>3. Rank(p) >= Rank(s.proxy) BY <1>1, <1>2, RankTrans
  <1>4. ASSUME s.backend # "None"
        PROVE  b \in Status /\ b # "None" /\ Rank(b) >= Rank(s.backend)
    <2>1. /\ s.backend \in Status /\ Shutdown(s.backend) \in Status
          /\ Rank(Shutdown(s.backend)) >= Rank(s.backend)
      BY <1>4, Fields, StatusLemma
    <2>2. b \in Status /\ Rank(b) >= Rank(Shutdown(s.backend)) BY <1>4, <2>1, CheckStatusLemma
    <2> QED BY <1>0, <2>1, <2>2, RankTrans
  <1>5. s.backend = "None" => b = "None" OBVIOUS
  <1>6. t = Destroy(s) BY DEF Destroy, Good, ConnState
  <1> HIDE DEF p, b
  <1>7. t \in ConnState BY <1>2, <1>4, <1>5 DEF Good, ConnState
  <1>8. Good(t) /\ t.proxy = p /\ t.backend = b /\ t.phase = s.phase
    BY <1>7 DEF Good, ConnState
  <1> HIDE DEF t
  <1>9. Onward(s, t) BY <1>3, <1>4, <1>8 DEF Onward
  <1>10. Waiting(t) BY <1>5, <1>8 DEF Waiting
  <1> QED BY <1>6, <1>8, <1>9, <1>10 DEF Moves, Advance

-----------------------------------------------------------------------------
(* The peers and the kernel *)

\* A record that differs from s only in what the kernel and the peers own.
LEMMA PeerStep ==
    ASSUME NEW s, Good(s), Waiting(s), NEW t, Good(t),
           t.proxy = s.proxy, t.backend = s.backend, t.phase = s.phase
    PROVE  Moves(s, t)
  <1>1. Onward(s, t) BY ShutdownOnward
  <1> QED BY <1>1 DEF Moves, Advance, Waiting

LEMMA ShorterLemma ==
    ASSUME NEW q \in Seq(Nat), q # Empty, NEW m \in Nat, Len(q) <= m
    PROVE  Head(q) \in Nat /\ Tail(q) \in Seq(Nat) /\ Len(Tail(q)) <= m
  <1>1. q # << >> BY DEF Empty
  <1>2. Head(q) \in Nat /\ Tail(q) \in Seq(Nat) /\ Len(Tail(q)) = Len(q) - 1 /\ Len(q) \in Nat
    BY <1>1, HeadTailProperties, LenProperties
  <1> QED BY <1>2

LEMMA PeerLemma ==
    ASSUME NEW s, Good(s), Waiting(s)
    PROVE  /\ \A n \in Nat : Moves(s, [s EXCEPT !.cin = Append(@, n)])
           /\ \A n \in Nat : Moves(s, [s EXCEPT !.tin = Append(@, n)])
           /\ \A how \in Close : Moves(s, [s EXCEPT !.cend = how])
           /\ \A how \in {"fin", "rst"} : Moves(s, [s EXCEPT !.tend = how])
           /\ Moves(s, [s EXCEPT !.tcon = "up", !.tblk = FALSE])
           /\ \A a, b \in BOOLEAN : Moves(s, [s EXCEPT !.cblk = @ \/ a, !.tblk = @ \/ b])
           /\ s.cout # Empty => Moves(s, [s EXCEPT !.cout = Tail(@), !.cblk = FALSE])
           /\ s.tout # Empty => Moves(s, [s EXCEPT !.tout = Tail(@), !.tblk = FALSE])
  <1>1. ASSUME NEW n \in Nat PROVE Moves(s, [s EXCEPT !.cin = Append(@, n)])
    <2> DEFINE t == [s EXCEPT !.cin = Append(@, n)]
    <2>1. Append(s.cin, n) \in Seq(Nat) BY Fields, AppendProperties
    <2>2. t \in ConnState BY <2>1 DEF Good, ConnState
    <2>3. Good(t) /\ t.proxy = s.proxy /\ t.backend = s.backend /\ t.phase = s.phase
      BY <2>2 DEF Good, ConnState
    <2> HIDE DEF t
    <2>4. Moves(s, t) BY <2>3, PeerStep
    <2> QED BY <2>4 DEF t
  <1>2. ASSUME NEW n \in Nat PROVE Moves(s, [s EXCEPT !.tin = Append(@, n)])
    <2> DEFINE t == [s EXCEPT !.tin = Append(@, n)]
    <2>1. Append(s.tin, n) \in Seq(Nat) BY Fields, AppendProperties
    <2>2. t \in ConnState BY <2>1 DEF Good, ConnState
    <2>3. Good(t) /\ t.proxy = s.proxy /\ t.backend = s.backend /\ t.phase = s.phase
      BY <2>2 DEF Good, ConnState
    <2> HIDE DEF t
    <2>4. Moves(s, t) BY <2>3, PeerStep
    <2> QED BY <2>4 DEF t
  <1>3. ASSUME NEW how \in Close PROVE Moves(s, [s EXCEPT !.cend = how])
    <2> DEFINE t == [s EXCEPT !.cend = how]
    <2>2. t \in ConnState BY DEF Good, ConnState
    <2>3. Good(t) /\ t.proxy = s.proxy /\ t.backend = s.backend /\ t.phase = s.phase
      BY <2>2 DEF Good, ConnState
    <2> HIDE DEF t
    <2>4. Moves(s, t) BY <2>3, PeerStep
    <2> QED BY <2>4 DEF t
  <1>4. ASSUME NEW how \in {"fin", "rst"} PROVE Moves(s, [s EXCEPT !.tend = how])
    <2> DEFINE t == [s EXCEPT !.tend = how]
    <2>2. t \in ConnState BY DEF Good, ConnState
    <2>3. Good(t) /\ t.proxy = s.proxy /\ t.backend = s.backend /\ t.phase = s.phase
      BY <2>2 DEF Good, ConnState
    <2> HIDE DEF t
    <2>4. Moves(s, t) BY <2>3, PeerStep
    <2> QED BY <2>4 DEF t
  <1>5. Moves(s, [s EXCEPT !.tcon = "up", !.tblk = FALSE])
    <2> DEFINE t == [s EXCEPT !.tcon = "up", !.tblk = FALSE]
    <2>2. t \in ConnState BY DEF Good, ConnState
    <2>3. Good(t) /\ t.proxy = s.proxy /\ t.backend = s.backend /\ t.phase = s.phase
      BY <2>2 DEF Good, ConnState
    <2> HIDE DEF t
    <2>4. Moves(s, t) BY <2>3, PeerStep
    <2> QED BY <2>4 DEF t
  <1>8. ASSUME NEW a \in BOOLEAN, NEW b \in BOOLEAN
        PROVE  Moves(s, [s EXCEPT !.cblk = @ \/ a, !.tblk = @ \/ b])
    <2> DEFINE t == [s EXCEPT !.cblk = @ \/ a, !.tblk = @ \/ b]
    <2>2. t \in ConnState BY ZenonT(60) DEF Good, ConnState
    <2>3. Good(t) /\ t.proxy = s.proxy /\ t.backend = s.backend /\ t.phase = s.phase
      BY <2>2 DEF Good, ConnState
    <2> HIDE DEF t
    <2>4. Moves(s, t) BY <2>3, PeerStep
    <2> QED BY <2>4 DEF t
  <1>6. ASSUME s.cout # Empty PROVE Moves(s, [s EXCEPT !.cout = Tail(@), !.cblk = FALSE])
    <2> DEFINE t == [s EXCEPT !.cout = Tail(@), !.cblk = FALSE]
    <2>1. Tail(s.cout) \in Seq(Nat) /\ Len(Tail(s.cout)) <= SockCap
      BY <1>6, Fields, ShorterLemma
    <2>2. t \in ConnState BY <2>1 DEF Good, ConnState
    <2>3. Good(t) /\ t.proxy = s.proxy /\ t.backend = s.backend /\ t.phase = s.phase
      BY <2>1, <2>2 DEF Good, ConnState
    <2> HIDE DEF t
    <2>4. Moves(s, t) BY <2>3, PeerStep
    <2> QED BY <2>4 DEF t
  <1>7. ASSUME s.tout # Empty PROVE Moves(s, [s EXCEPT !.tout = Tail(@), !.tblk = FALSE])
    <2> DEFINE t == [s EXCEPT !.tout = Tail(@), !.tblk = FALSE]
    <2>1. Tail(s.tout) \in Seq(Nat) /\ Len(Tail(s.tout)) <= SockCap
      BY <1>7, Fields, ShorterLemma
    <2>2. t \in ConnState BY <2>1 DEF Good, ConnState
    <2>3. Good(t) /\ t.proxy = s.proxy /\ t.backend = s.backend /\ t.phase = s.phase
      BY <2>1, <2>2 DEF Good, ConnState
    <2> HIDE DEF t
    <2>4. Moves(s, t) BY <2>3, PeerStep
    <2> QED BY <2>4 DEF t
  <1> QED BY <1>1, <1>2, <1>3, <1>4, <1>5, <1>6, <1>7, <1>8

-----------------------------------------------------------------------------
(* The specification *)

\* The part of TypeOK that is not about c.
LoopOK ==
    /\ req \in Requests
    /\ dns \in {"idle", "pending", "found", "failed", "done"}
    /\ ev \subseteq Source
    /\ batch \in [Source -> SUBSET {"r", "w"}]
    /\ polling \in BOOLEAN /\ removed \in BOOLEAN /\ gone \in BOOLEAN /\ timedOut \in BOOLEAN

PeersOK ==
    /\ upSent \in 0 .. MaxUp + 1 /\ downSent \in 0 .. MaxDown
    /\ clientGot \in Seq(Nat) /\ targetGot \in Seq(Nat)

\* The inductive invariant.
IInv == Good(c) /\ Waiting(c) /\ LoopOK /\ PeersOK

LEMMA SplitTypeOK == TypeOK <=> Good(c) /\ LoopOK /\ PeersOK
  BY DEF TypeOK, Good, LoopOK, PeersOK

LEMMA InitLemma == Init => IInv
  <1> SUFFICES ASSUME Init PROVE IInv OBVIOUS
  <1>1. NewConn \in ConnState BY EmptyLemma DEF NewConn, ConnState, Status, Close
  <1>2. Good(NewConn)
    <2>1. Len(NewConn.cout) = 0 /\ Len(NewConn.tout) = 0 /\ Len(NewConn.session) = 0
      BY EmptyLemma DEF NewConn
    <2> QED BY <1>1, <2>1, ConstAssumption DEF Good
  <1>3. Waiting(NewConn) BY DEF Waiting, NewConn
  <1>4. LoopOK BY DEF Init, LoopOK, Source
  <1>5. PeersOK BY EmptyLemma, ConstAssumption DEF Init, PeersOK
  <1> QED BY <1>2, <1>3, <1>4, <1>5 DEF Init, IInv

\* Every step preserves the invariant and moves the connection onward.
LEMMA StepLemma ==
    ASSUME IInv, [Next]_vars
    PROVE  IInv' /\ Onward(c, c')
  <1>0. Good(c) /\ Waiting(c) /\ LoopOK /\ PeersOK BY DEF IInv
  <1>a. Moves(c, c) BY <1>0, MovesRefl
  <1>b. ASSUME Moves(c, c'), LoopOK', PeersOK' PROVE IInv' /\ Onward(c, c')
    BY <1>b DEF Moves, Advance, IInv
  <1>c. ASSUME UNCHANGED env PROVE PeersOK'
    BY <1>0, <1>c DEF PeersOK, env
  <1>d. ASSUME NEW s, NEW x \in Source, AfterReady(s, x),
               dns' \in {"idle", "pending", "found", "failed", "done"}
        PROVE  LoopOK' /\ PeersOK' /\ c' = s
    BY <1>0, <1>c, <1>d DEF AfterReady, LoopOK, Source
  <1>e. ASSUME NEW x \in Source, UNCHANGED sys, Raise(x) \/ UNCHANGED ev PROVE LoopOK'
    BY <1>0, <1>e DEF LoopOK, sys, Raise
  <1>1. CASE Poll
    <2>1. LoopOK' BY <1>0, <1>1 DEF Poll, LoopOK, Flags, Source
    <2>2. Moves(c, c') BY <1>0, <1>1, PeerLemma DEF Poll
    <2> QED BY <1>1, <1>b, <1>c, <2>1, <2>2 DEF Poll
  <1>2. CASE HandleProxy
    <2>1. PICK o \in Outcome : /\ AfterReady(ReadyProxy(c, batch["proxy"], o), "proxy")
                               /\ dns' \in {"pending", dns}
      BY <1>2 DEF HandleProxy
    <2>2. Moves(c, ReadyProxy(c, batch["proxy"], o)) BY <1>0, ReadyProxyLemma
    <2>3. dns' \in {"idle", "pending", "found", "failed", "done"} BY <1>0, <2>1 DEF LoopOK
    <2> QED BY <1>b, <1>d, <2>1, <2>2, <2>3 DEF Source
  <1>3. CASE HandleBackend
    <2>1. PICK o \in Outcome : AfterReady(ReadyBackend(c, batch["backend"], o), "backend")
      BY <1>3 DEF HandleBackend
    <2>2. Moves(c, ReadyBackend(c, batch["backend"], o)) BY <1>0, ReadyBackendLemma
    <2>3. dns' \in {"idle", "pending", "found", "failed", "done"}
      BY <1>0, <1>3 DEF LoopOK, HandleBackend
    <2> QED BY <1>b, <1>d, <2>1, <2>2, <2>3 DEF Source
  <1>4. CASE HandleDns
    <2>1. PICK o \in Outcome : AfterReady(ReadyDns(c, dns = "found", o), "resolver")
      BY <1>4 DEF HandleDns
    <2>2. Moves(c, ReadyDns(c, dns = "found", o)) BY <1>0, ReadyDnsLemma
    <2>3. dns' \in {"idle", "pending", "found", "failed", "done"} BY <1>4 DEF HandleDns
    <2> QED BY <1>b, <1>d, <2>1, <2>2, <2>3 DEF Source
  <1>5. CASE DnsNotFound
    <2>1. LoopOK' BY <1>0, <1>5 DEF DnsNotFound, LoopOK, Source
    <2> QED BY <1>5, <1>a, <1>b, <1>c, <2>1 DEF DnsNotFound
  <1>6. CASE RemoveClosed
    <2>1. LoopOK' BY <1>0, <1>6 DEF RemoveClosed, LoopOK, Source
    <2> QED BY <1>6, <1>a, <1>b, <1>c, <2>1 DEF RemoveClosed
  <1>7. CASE CheckTimeout
    <2>1. LoopOK' BY <1>0, <1>7 DEF CheckTimeout, LoopOK, Source
    <2>2. Moves(c, c') BY <1>0, <1>7, DestroyLemma DEF CheckTimeout
    <2> QED BY <1>7, <1>b, <1>c, <2>1, <2>2 DEF CheckTimeout
  <1>8. CASE ResolverThread
    <2>1. LoopOK' BY <1>0, <1>8 DEF ResolverThread, LoopOK, Raise, Source
    <2> QED BY <1>8, <1>a, <1>b, <1>c, <2>1 DEF ResolverThread
  <1>9. CASE ClientSend
    <2>1. LoopOK' BY <1>9, <1>e DEF ClientSend, Source
    <2>2. upSent \in Nat /\ upSent + 1 \in 0 .. MaxUp + 1
      BY <1>0, <1>9, ConstAssumption DEF ClientSend, PeersOK
    <2>3. PeersOK' BY <1>0, <1>9, <2>2 DEF ClientSend, PeersOK
    <2>4. Moves(c, c') BY <1>0, <1>9, <2>2, PeerLemma DEF ClientSend
    <2> QED BY <1>b, <2>1, <2>3, <2>4
  <1>10. CASE ClientClose
    <2>1. LoopOK' BY <1>10, <1>e DEF ClientClose, Source
    <2>3. PICK how \in Close : c' = [c EXCEPT !.cend = how] BY <1>10 DEF ClientClose
    <2>2. Moves(c, c') BY <1>0, <2>3, PeerLemma
    <2> QED BY <1>10, <1>b, <1>c, <2>1, <2>2 DEF ClientClose
  <1>11. CASE ClientRecv
    <2>1. LoopOK' BY <1>11, <1>e DEF ClientRecv, Source
    <2>2. Moves(c, c') BY <1>0, <1>11, PeerLemma DEF ClientRecv
    <2>3. Head(c.cout) \in Nat BY <1>0, <1>11, Fields, ShorterLemma DEF ClientRecv
    <2>4. Append(clientGot, Head(c.cout)) \in Seq(Nat)
      BY <1>0, <2>3, AppendProperties DEF PeersOK
    <2>5. PeersOK' BY <1>0, <1>11, <2>4 DEF ClientRecv, PeersOK
    <2> QED BY <1>b, <2>1, <2>2, <2>5
  <1>12. CASE TargetAnswer
    <2>1. LoopOK' BY <1>12, <1>e DEF TargetAnswer, Source
    <2>2. Moves(c, c') BY <1>0, <1>12, PeerLemma DEF TargetAnswer
    <2> QED BY <1>12, <1>b, <1>c, <2>1, <2>2 DEF TargetAnswer
  <1>13. CASE TargetSend
    <2>1. LoopOK' BY <1>13, <1>e DEF TargetSend, Source
    <2>2. downSent + 1 \in Nat /\ downSent + 1 \in 0 .. MaxDown
      BY <1>0, <1>13, ConstAssumption DEF TargetSend, PeersOK
    <2>3. PeersOK' BY <1>0, <1>13, <2>2 DEF TargetSend, PeersOK
    <2>4. Moves(c, c') BY <1>0, <1>13, <2>2, PeerLemma DEF TargetSend
    <2> QED BY <1>b, <2>1, <2>3, <2>4
  <1>14. CASE TargetClose
    <2>1. LoopOK' BY <1>14, <1>e DEF TargetClose, Source
    <2>3. PICK how \in {"fin", "rst"} : c' = [c EXCEPT !.tend = how] BY <1>14 DEF TargetClose
    <2>2. Moves(c, c') BY <1>0, <2>3, PeerLemma
    <2> QED BY <1>14, <1>b, <1>c, <2>1, <2>2 DEF TargetClose
  <1>15. CASE TargetRecv
    <2>1. LoopOK' BY <1>15, <1>e DEF TargetRecv, Source
    <2>2. Moves(c, c') BY <1>0, <1>15, PeerLemma DEF TargetRecv
    <2>3. Head(c.tout) \in Nat BY <1>0, <1>15, Fields, ShorterLemma DEF TargetRecv
    <2>4. Append(targetGot, Head(c.tout)) \in Seq(Nat)
      BY <1>0, <2>3, AppendProperties DEF PeersOK
    <2>5. PeersOK' BY <1>0, <1>15, <2>4 DEF TargetRecv, PeersOK
    <2> QED BY <1>b, <2>1, <2>2, <2>5
  <1>16. CASE UNCHANGED vars
    <2>1. LoopOK' /\ PeersOK' BY <1>0, <1>16 DEF vars, LoopOK, PeersOK
    <2> QED BY <1>16, <1>a, <1>b, <2>1 DEF vars
  <1> QED BY <1>1, <1>2, <1>3, <1>4, <1>5, <1>6, <1>7, <1>8, <1>9, <1>10, <1>11, <1>12,
             <1>13, <1>14, <1>15, <1>16 DEF Next, Loop

\* The type invariant holds for every number of units, buffer size and session
\* limit: the kernel buffers and the session never grow past their limits.
THEOREM TypeCorrect == Spec => []TypeOK
  <1>1. Init => IInv BY InitLemma
  <1>2. IInv /\ [Next]_vars => IInv' BY StepLemma
  <1>3. IInv => TypeOK BY SplitTypeOK DEF IInv
  <1> QED BY <1>1, <1>2, <1>3, PTL DEF Spec

\* No event, answer or timeout ever moves an endpoint's status backwards or
\* takes a backend away, whatever the order they come in.
THEOREM StatusOnward == Spec => StatusForward
  <1>1. Init => IInv BY InitLemma
  <1>2. IInv /\ [Next]_vars => IInv' BY StepLemma
  <1>3. IInv /\ [Next]_vars =>
          [/\ Rank(c'.proxy) >= Rank(c.proxy)
           /\ c.backend # "None" => c'.backend # "None" /\ Rank(c'.backend) >= Rank(c.backend)]_vars
    BY StepLemma DEF Onward
  <1> QED BY <1>1, <1>2, <1>3, PTL DEF Spec, StatusForward

-----------------------------------------------------------------------------
(* No lost wake-up *)

\* The readiness of a source that some event, raised or fetched, will still report.
Due(x) == IF x \in ev THEN {"r", "w"} ELSE batch[x]

\* What holds whatever events are due: nothing is queued before the TLS socket is
\* connected; a socket that is not writable has records queued; a backend has a
\* socket, and nothing is in it before it is connected.
Based(s) ==
    /\ s.proxy = "Connecting" => s.session = Empty /\ s.cout = Empty
    /\ (~IsShutdown(s.proxy) /\ ~s.proxyWritable) => s.session # Empty
    /\ s.tcon # "up" => s.tout = Empty
    /\ s.backend # "Connecting"
    /\ s.backend = "None" <=> s.tcon = "no"
    /\ s.backend = "None" => s.tin = Empty /\ s.tend = "open" /\ s.sendBuffer = Empty

\* The first writable event of the TLS socket is due.
Starts(s, P) == s.proxy = "Connecting" => "w" \in P

\* Unsent data of the backend, with the events B due: the socket is full or not
\* connected, and marked.
SendsB(s, B) ==
    (Alive(s.backend) /\ s.sendBuffer # Empty /\ ("w" \notin B \/ s.tcon # "up"))
        => s.tblk /\ (Len(s.tout) = SockCap \/ s.tcon # "up")

\* Unsent records, with the events P due.
SendsP(s, P) ==
    (Alive(s.proxy) /\ s.session # Empty /\ "w" \notin P) => s.cblk /\ Len(s.cout) = SockCap

\* Unread data of the client: remembered, and send_buffer is what it waits for.
ReadsP(s, P) ==
    (/\ ~IsShutdown(s.proxy) /\ ~IsShutdown(s.backend)
     /\ "r" \notin P /\ (s.cin # Empty \/ s.cend # "open"))
        => s.readProxy /\ s.sendBuffer # Empty

\* Unread data of the target: remembered, and the session is what it waits for.
ReadsB(s, B) ==
    (/\ Alive(s.backend) /\ ~IsShutdown(s.proxy)
     /\ "r" \notin B /\ (s.tin # Empty \/ s.tend # "open"))
        => s.readBackend /\ (s.proxy = "Connecting" \/ s.session # Empty)

\* All but ReadsP, which a dispatch may suspend until the socket is read.
Sending(s, P, B) == Based(s) /\ Starts(s, P) /\ SendsB(s, B) /\ SendsP(s, P) /\ ReadsB(s, B)

Awake(s, P, B) == Sending(s, P, B) /\ ReadsP(s, P)

\* The inductive invariant, beside IInv.
NInv ==
    /\ polling => \A x \in Source : batch[x] = {}
    /\ gone \/ Awake(c, Due("proxy"), Due("backend"))

LEMMA Statuses ==
    ASSUME NEW st \in Status
    PROVE  /\ IsShutdown(Shutdown(st)) /\ Established(st) # "Connecting"
           /\ Established(st) = st \/ (st = "Connecting" /\ Established(st) = "Established")
           /\ ~IsShutdown(st) => st = "Connecting" \/ Alive(st)
           /\ Alive(st) => ~IsShutdown(st) /\ st # "Connecting"
  BY DEF Status, IsShutdown, Shutdown, Established, Alive

\* What do_send and the backend's do_read leave alone.
DownFrame(s, t) ==
    /\ t.phase = s.phase /\ t.sendBuffer = s.sendBuffer /\ t.tout = s.tout /\ t.tblk = s.tblk
    /\ t.tcon = s.tcon /\ t.tend = s.tend /\ t.cin = s.cin /\ t.cend = s.cend
    /\ t.readProxy = s.readProxy /\ t.readBackend = s.readBackend
    /\ t.proxy = s.proxy \/ IsShutdown(t.proxy)
    /\ t.backend = s.backend \/ (s.backend # "None" /\ IsShutdown(t.backend))

\* After do_send the session is empty or the socket full.
LEMMA SendAwake ==
    ASSUME NEW s, Good(s), s.proxy # "Connecting"
    PROVE  LET t == DoSendProxy(s) IN
           /\ DownFrame(s, t) /\ t.tin = s.tin /\ t.backend = s.backend /\ t.proxy # "Connecting"
           /\ (~IsShutdown(t.proxy) /\ ~t.proxyWritable) => t.session # Empty
           /\ SendsP(t, {})
  <1> DEFINE n == Smaller(Len(s.session), SockCap - Len(s.cout))
             a == [s EXCEPT !.proxyWritable = TRUE]
             b == [s EXCEPT !.proxyWritable = TRUE, !.proxy = Shutdown(@)]
             x == s.cout \o Take(s.session, n)
             y == Drop(s.session, n)
             d == [s EXCEPT !.cout = x, !.session = y, !.proxyWritable = (n = Len(s.session)),
                            !.cblk = @ \/ n < Len(s.session)]
  <1>0. s \in ConnState /\ s.proxy \in Status BY Fields DEF Good
  <1>1. IsShutdown(Shutdown(s.proxy)) /\ Shutdown(s.proxy) # "Connecting"
    BY <1>0 DEF Status, Shutdown, IsShutdown
  <1>2. n \in 0 .. Len(s.session) /\ n <= SockCap - Len(s.cout) /\ (n < Len(s.session) => n = SockCap - Len(s.cout))
        /\ Len(s.cout) \in Nat /\ Len(s.session) \in Nat /\ SockCap \in Nat
    BY Fields DEF Smaller
  <1> HIDE DEF n
  <1>3. Len(x) = Len(s.cout) + n /\ Len(y) = Len(s.session) - n
    <2>1. Take(s.session, n) \in Seq(Nat) /\ Len(Take(s.session, n)) = n /\ Len(Drop(s.session, n)) = Len(s.session) - n
      BY <1>2, BufferLemma, Fields
    <2>2. s.cout \in Seq(Nat) BY Fields
    <2> DEFINE p == Take(s.session, n)
               q == s.cout
    <2>3. x = q \o p OBVIOUS
    <2> HIDE DEF p, q, x
    <2>4. p \in Seq(Nat) /\ q \in Seq(Nat) /\ Len(p) = n /\ Len(q) = Len(s.cout) BY <2>1, <2>2 DEF p, q
    <2>5. Len(x) = Len(q) + Len(p) BY <2>3, <2>4, ConcatProperties
    <2> QED BY <2>1, <2>4, <2>5
  <1>4. y # Empty => n < Len(s.session)
    <2>1. y \in Seq(Nat) BY <1>2, BufferLemma, Fields
    <2>2. Len(y) = 0 => y = Empty BY <2>1, EmptySeq DEF Empty
    <2> HIDE DEF y, x
    <2> QED BY <1>2, <1>3, <2>2
  <1>5. n # Len(s.session) => y # Empty
    <2>1. y = Empty => Len(y) = 0 BY EmptyLemma
    <2> HIDE DEF y, x
    <2> QED BY <1>2, <1>3, <2>1
  <1> HIDE DEF x, y
  <1>6. s.session = Empty =>
          /\ DownFrame(s, a) /\ a.tin = s.tin /\ a.backend = s.backend /\ a.proxy # "Connecting"
          /\ a.proxyWritable /\ SendsP(a, {})
    BY <1>0 DEF ConnState, DownFrame, SendsP
  <1>7. /\ DownFrame(s, b) /\ b.tin = s.tin /\ b.backend = s.backend /\ b.proxy # "Connecting"
        /\ b.proxyWritable /\ SendsP(b, {})
    <2>1. b.proxy = Shutdown(s.proxy) /\ b.proxyWritable BY <1>0 DEF ConnState
    <2>2. DownFrame(s, b) /\ b.tin = s.tin /\ b.backend = s.backend BY <1>0, <1>1 DEF ConnState, DownFrame
    <2>3. ~Alive(b.proxy) BY <1>1, <2>1 DEF Alive, IsShutdown
    <2> QED BY <1>1, <2>1, <2>2, <2>3 DEF SendsP
  <1>8. /\ DownFrame(s, d) /\ d.tin = s.tin /\ d.backend = s.backend /\ d.proxy # "Connecting"
        /\ ~d.proxyWritable => d.session # Empty
        /\ SendsP(d, {})
    <2>1. d.session = y /\ d.cout = x /\ d.proxyWritable = (n = Len(s.session)) /\ d.proxy = s.proxy
          /\ d.cblk = (s.cblk \/ n < Len(s.session))
      BY <1>0 DEF ConnState
    <2>2. DownFrame(s, d) /\ d.tin = s.tin /\ d.backend = s.backend BY <1>0 DEF ConnState, DownFrame
    <2> HIDE DEF d
    <2>3. y # Empty => d.cblk /\ Len(d.cout) = SockCap
      <3> SUFFICES ASSUME y # Empty PROVE d.cblk /\ Len(d.cout) = SockCap OBVIOUS
      <3>1. n < Len(s.session) /\ n = SockCap - Len(s.cout) BY <1>2, <1>4
      <3>2. d.cblk BY <2>1, <3>1
      <3>3. Len(x) = SockCap BY <1>2, <1>3, <3>1
      <3> QED BY <2>1, <3>2, <3>3
    <2> QED BY <1>5, <2>1, <2>2, <2>3 DEF SendsP
  <1>9. \/ s.session = Empty /\ DoSendProxy(s) = a
        \/ DoSendProxy(s) = b \/ DoSendProxy(s) = d
    BY DEF DoSendProxy, n, x, y
  <1> HIDE DEF a, b, d
  <1> QED BY <1>6, <1>7, <1>8, <1>9

\* After tcp_read nothing is left to read, or an endpoint is closed.
Drained(t) == IsShutdown(t.proxy) \/ (t.tin = Empty /\ (t.tend = "open" \/ IsShutdown(t.backend)))

LEMMA ReadDrains ==
    ASSUME NEW s, Good(s), s.backend # "None"
    PROVE  DownFrame(s, TcpRead(s)) /\ Drained(TcpRead(s))
  <1> DEFINE room == SessLimit - Len(s.session)
             x == s.session \o Take(s.tin, room)
             y == Drop(s.tin, room + 1)
             z == s.session \o s.tin
             full == [s EXCEPT !.session = x, !.tin = y, !.proxy = Shutdown(@), !.broken = TRUE]
             e == IF s.tend # "open" THEN Shutdown(s.backend) ELSE s.backend
             rest == [s EXCEPT !.session = z, !.tin = Empty, !.backend = e]
  <1>0. s \in ConnState BY DEF Good
  <1>1. IsShutdown(Shutdown(s.proxy)) /\ IsShutdown(Shutdown(s.backend))
    BY Fields, Statuses
  <1>2. TcpRead(s) = full \/ TcpRead(s) = rest BY DEF TcpRead
  <1> HIDE DEF x, y, z
  <1>3. DownFrame(s, full) /\ Drained(full)
    <2>1. full.proxy = Shutdown(s.proxy) /\ full.backend = s.backend BY <1>0 DEF ConnState
    <2>2. /\ full.phase = s.phase /\ full.sendBuffer = s.sendBuffer /\ full.tout = s.tout /\ full.tblk = s.tblk
          /\ full.tcon = s.tcon /\ full.tend = s.tend /\ full.cin = s.cin /\ full.cend = s.cend
          /\ full.readProxy = s.readProxy /\ full.readBackend = s.readBackend
      BY <1>0 DEF ConnState
    <2> HIDE DEF full
    <2> QED BY <1>1, <2>1, <2>2 DEF DownFrame, Drained
  <1>4. DownFrame(s, rest) /\ Drained(rest)
    <2>0. e = s.backend \/ IsShutdown(e) BY <1>1
    <2>3. s.tend = "open" \/ IsShutdown(e) BY <1>1
    <2> HIDE DEF e
    <2>1. rest.proxy = s.proxy /\ rest.backend = e /\ rest.tin = Empty BY <1>0 DEF ConnState
    <2>2. /\ rest.phase = s.phase /\ rest.sendBuffer = s.sendBuffer /\ rest.tout = s.tout /\ rest.tblk = s.tblk
          /\ rest.tcon = s.tcon /\ rest.tend = s.tend /\ rest.cin = s.cin /\ rest.cend = s.cend
          /\ rest.readProxy = s.readProxy /\ rest.readBackend = s.readBackend
      BY <1>0 DEF ConnState
    <2> HIDE DEF rest
    <2> QED BY <2>0, <2>1, <2>2, <2>3 DEF DownFrame, Drained
  <1> HIDE DEF full, rest
  <1> QED BY <1>2, <1>3, <1>4

\* What does not touch the target's socket, the client's data or the two marks keeps
\* what depends on them only.
LEMMA FrameAwake ==
    ASSUME NEW s, NEW t, NEW P, NEW B, Good(s), Based(s), DownFrame(s, t),
           t.tin = s.tin \/ s.backend # "None"
    PROVE  /\ SendsB(s, B) => SendsB(t, B)
           /\ ReadsP(s, P) => ReadsP(t, P)
           /\ t.tcon # "up" => t.tout = Empty
           /\ t.backend # "Connecting"
           /\ t.backend = "None" <=> t.tcon = "no"
           /\ t.backend = "None" => t.tin = Empty /\ t.tend = "open" /\ t.sendBuffer = Empty
  <1>1. Alive(t.backend) => Alive(s.backend) BY DEF DownFrame, Alive, IsShutdown
  <1>2. ~IsShutdown(t.backend) => t.backend = s.backend BY DEF DownFrame
  <1>3. ~IsShutdown(t.proxy) => t.proxy = s.proxy BY DEF DownFrame
  <1>4. t.backend = "None" <=> s.backend = "None" BY DEF DownFrame, IsShutdown
  <1>5. SendsB(s, B) => SendsB(t, B) BY <1>1 DEF SendsB, DownFrame
  <1>6. ReadsP(s, P) => ReadsP(t, P) BY <1>2, <1>3 DEF ReadsP, DownFrame
  <1>7. t.tcon # "up" => t.tout = Empty BY DEF Based, DownFrame
  <1>8. t.backend # "Connecting" BY DEF Based, DownFrame, IsShutdown
  <1>9. t.backend = "None" <=> t.tcon = "no" BY <1>4 DEF Based, DownFrame
  <1>10. t.backend = "None" => t.tin = Empty /\ t.tend = "open" /\ t.sendBuffer = Empty
    BY <1>4 DEF Based, DownFrame
  <1> QED BY <1>5, <1>6, <1>7, <1>8, <1>9, <1>10

\* Reading the backend serves what it has left for later.
LEMMA ReadBackendAwake ==
    ASSUME NEW s, Good(s), s.backend # "None", Alive(s.proxy), NEW P, NEW B,
           Based(s), SendsB(s, B), ReadsP(s, P)
    PROVE  LET t == DoReadBackend(s) IN
           /\ Based(t) /\ t.proxy # "Connecting" /\ SendsB(t, B) /\ SendsP(t, {}) /\ ReadsP(t, P)
           /\ ReadsB(t, {}) /\ Drained(t) /\ Good(t) /\ t.phase = s.phase /\ (t.backend = "None" <=> s.backend = "None")
  <1> DEFINE r == TcpRead(s)
             t == DoSendProxy(r)
  <1>0. DoReadBackend(s) = t BY DEF DoReadBackend, TcpDoRead, UdpDoRead
  <1>1. DownFrame(s, r) /\ Drained(r) BY ReadDrains
  <1>2. Keep(s, r) BY TcpReadLemma
  <1>3. Good(r) BY <1>2, KeepGood
  <1>4. r.proxy # "Connecting" /\ r.backend # "None" BY <1>1 DEF DownFrame, Alive, IsShutdown
  <1> HIDE DEF r
  <1>5. /\ DownFrame(r, t) /\ t.tin = r.tin /\ t.backend = r.backend /\ t.proxy # "Connecting"
        /\ (~IsShutdown(t.proxy) /\ ~t.proxyWritable) => t.session # Empty
        /\ SendsP(t, {})
    BY <1>3, <1>4, SendAwake
  <1>6. Good(t)
    <2>1. Keep(r, t) BY <1>3, DoSendProxyLemma
    <2> QED BY <2>1, KeepGood
  <1> HIDE DEF t
  <1>7. DownFrame(s, t)
    <2>1. t.proxy = s.proxy \/ IsShutdown(t.proxy) BY <1>1, <1>5 DEF DownFrame
    <2>2. t.backend = s.backend \/ IsShutdown(t.backend) BY <1>1, <1>5 DEF DownFrame
    <2> QED BY <1>1, <1>5, <2>1, <2>2 DEF DownFrame
  <1>8. SendsB(t, B) /\ ReadsP(t, P) /\ (t.tcon # "up" => t.tout = Empty)
        /\ t.backend # "Connecting" /\ (t.backend = "None" <=> t.tcon = "no")
        /\ (t.backend = "None" => t.tin = Empty /\ t.tend = "open" /\ t.sendBuffer = Empty)
    BY <1>7, FrameAwake
  <1>9. Based(t) BY <1>5, <1>8 DEF Based
  <1>10. Drained(t) BY <1>1, <1>5 DEF Drained, DownFrame
  <1>11. ReadsB(t, {}) BY <1>10 DEF ReadsB, Drained, Alive, IsShutdown
  <1>12. t.phase = s.phase /\ (t.backend = "None" <=> s.backend = "None") BY <1>7 DEF DownFrame, IsShutdown
  <1> QED BY <1>0, <1>5, <1>6, <1>8, <1>9, <1>10, <1>11, <1>12

-----------------------------------------------------------------------------
(* ... the way up *)

\* What dispatch leaves alone.
UpFrame(s, t) ==
    /\ t.proxyWritable = s.proxyWritable /\ t.session = s.session /\ t.cout = s.cout /\ t.cblk = s.cblk
    /\ t.tin = s.tin /\ t.tend = s.tend /\ t.readProxy = s.readProxy /\ t.readBackend = s.readBackend
    /\ t.cend = s.cend
    /\ t.proxy = s.proxy \/ IsShutdown(t.proxy)
    /\ t.backend = s.backend \/ IsShutdown(t.backend) \/ s.backend = "None"

\* The half of Based that is about the target's socket.
Socketed(s) ==
    /\ s.tcon # "up" => s.tout = Empty
    /\ s.backend # "Connecting"
    /\ s.backend = "None" <=> s.tcon = "no"
    /\ s.backend = "None" => s.tin = Empty /\ s.tend = "open" /\ s.sendBuffer = Empty

\* What dispatch establishes.
Delivers(s, t) == UpFrame(s, t) /\ Socketed(t) /\ SendsB(t, {}) /\ Good(t)

LEMMA WriteOutAwake ==
    ASSUME NEW s, Good(s), Socketed(s), s.backend # "None", NEW all \in Seq(Nat)
    PROVE  LET t == WriteOut(s, all, Smaller(Len(all), Room(s))) IN
           Delivers(s, t) /\ t.cin = s.cin /\ t.phase = s.phase
  <1> DEFINE n == Smaller(Len(all), Room(s))
             p == Take(all, n)
             x == s.tout \o p
             y == Drop(all, n)
             t == [s EXCEPT !.tout = x, !.sendBuffer = y, !.tblk = @ \/ n < Len(all)]
  <1>0. s \in ConnState BY DEF Good
  <1>1. Len(all) \in Nat BY LenProperties
  <1>2. /\ Room(s) \in Nat /\ n \in 0 .. Len(all) /\ Len(s.tout) + n <= SockCap
        /\ n < Len(all) => n = Room(s)
    BY <1>1, RoomOf DEF Smaller
  <1>3. Room(s) = IF s.tcon = "up" THEN SockCap - Len(s.tout) ELSE 0 BY DEF Room
  <1>4. s.tout \in Seq(Nat) /\ Len(s.tout) \in Nat /\ SockCap \in Nat BY Fields
  <1>5. Good(t)
    <2>1. Keep(s, WriteOut(s, all, n)) BY <1>2, WriteOutLemma
    <2> QED BY <2>1, KeepGood DEF WriteOut
  <1> HIDE DEF n
  <1>6. p \in Seq(Nat) /\ Len(p) = n /\ y \in Seq(Nat) /\ Len(y) = Len(all) - n BY <1>2, BufferLemma
  <1>7. Len(x) = Len(s.tout) + n
    <2> HIDE DEF p
    <2> QED BY <1>4, <1>6, ConcatProperties
  <1>8. y # Empty => n < Len(all)
    <2>1. Len(y) = 0 => y = Empty BY <1>6, EmptySeq DEF Empty
    <2> HIDE DEF y, p, x
    <2> QED BY <1>1, <1>2, <1>6, <2>1
  <1>9. s.tcon # "up" => x = Empty
    <2> SUFFICES ASSUME s.tcon # "up" PROVE x = Empty OBVIOUS
    <2>1. n = 0 /\ s.tout = Empty BY <1>1, <1>2, <1>3 DEF Socketed, Smaller, n
    <2>2. x \in Seq(Nat)
      <3> HIDE DEF p
      <3> QED BY <1>4, <1>6, ConcatProperties
    <2>3. Len(x) = 0 BY <1>7, <2>1, EmptyLemma
    <2> HIDE DEF x
    <2> QED BY <2>2, <2>3, EmptySeq DEF Empty
  <1>10. s.tcon = "up" /\ y # Empty => Len(x) = SockCap
    <2> HIDE DEF x, y, p
    <2> QED BY <1>2, <1>3, <1>4, <1>7, <1>8
  <1> HIDE DEF x, y
  <1>11. /\ t.tout = x /\ t.sendBuffer = y /\ t.tblk = (s.tblk \/ n < Len(all)) /\ t.tcon = s.tcon
         /\ t.backend = s.backend
    BY <1>0 DEF ConnState
  <1>12. UpFrame(s, t) /\ t.cin = s.cin /\ t.phase = s.phase BY <1>0 DEF ConnState, UpFrame
  <1>15. WriteOut(s, all, n) = t BY DEF WriteOut, x, y, p
  <1> HIDE DEF t
  <1>13. Socketed(t) BY <1>9, <1>11 DEF Socketed
  <1>14. SendsB(t, {})
    <2> SUFFICES ASSUME y # Empty PROVE t.tblk /\ (Len(t.tout) = SockCap \/ t.tcon # "up")
      BY <1>11 DEF SendsB
    <2>1. n < Len(all) BY <1>8
    <2> QED BY <1>10, <1>11, <2>1
  <1> QED BY <1>5, <1>12, <1>13, <1>14, <1>15 DEF Delivers, n

\* A failed send leaves nothing to send.
LEMMA FailedAwake ==
    ASSUME NEW s, Good(s), Socketed(s), s.backend # "None"
    PROVE  LET t == [s EXCEPT !.sendBuffer = Empty, !.backend = Shutdown(@)] IN
           Delivers(s, t) /\ t.cin = s.cin /\ t.phase = s.phase
  <1> DEFINE e == Shutdown(s.backend)
             t == [s EXCEPT !.sendBuffer = Empty, !.backend = e]
  <1>0. s \in ConnState BY DEF Good
  <1>1. IsShutdown(e) BY Fields, Statuses
  <1>5. Good(t)
    <2>1. Keep(s, t) BY FailedSend
    <2> QED BY <2>1, KeepGood
  <1> HIDE DEF e
  <1>2. t.sendBuffer = Empty /\ t.backend = e /\ t.tcon = s.tcon /\ t.tout = s.tout BY <1>0 DEF ConnState
  <1>3. UpFrame(s, t) /\ t.cin = s.cin /\ t.phase = s.phase BY <1>0, <1>1 DEF ConnState, UpFrame
  <1>7. t = [s EXCEPT !.sendBuffer = Empty, !.backend = Shutdown(@)] BY DEF e
  <1> HIDE DEF t
  <1>4. Socketed(t) BY <1>1, <1>2 DEF Socketed, IsShutdown
  <1>6. SendsB(t, {}) BY <1>2 DEF SendsB
  <1> QED BY <1>3, <1>4, <1>5, <1>6, <1>7 DEF Delivers

LEMMA DeliversRefl ==
    ASSUME NEW s, Good(s), Socketed(s), s.sendBuffer = Empty \/ ~Alive(s.backend) PROVE Delivers(s, s)
  BY DEF Delivers, UpFrame, SendsB

LEMMA BackendDispatchAwake ==
    ASSUME NEW s, Good(s), Socketed(s), s.backend # "None", NEW buffer \in Seq(Nat)
    PROVE  LET t == BackendDispatch(s, buffer) IN
           Delivers(s, t) /\ t.cin = s.cin /\ t.phase = s.phase
  <1> DEFINE all == s.sendBuffer \o buffer
             good == GoodPackets(all)
             w == WriteOut(s, all, Smaller(Len(all), Room(s)))
             f == [s EXCEPT !.sendBuffer = Empty, !.backend = Shutdown(@)]
             cut == [s EXCEPT !.tout = @ \o Take(all, good), !.sendBuffer = Empty,
                              !.backend = Shutdown(@), !.broken = TRUE]
             Fine(t) == Delivers(s, t) /\ t.cin = s.cin /\ t.phase = s.phase
  <1>0. s \in ConnState BY DEF Good
  <1>1. all \in Seq(Nat) /\ s.sendBuffer \in Seq(Nat) BY Fields, ConcatProperties
  <1>2. Fine(w)
    <2> HIDE DEF all
    <2> QED BY <1>1, WriteOutAwake
  <1>3. Fine(f) BY FailedAwake
  <1>4. all = Empty => Fine(s)
    <2> SUFFICES ASSUME all = Empty PROVE Fine(s) OBVIOUS
    <2>1. Len(s.sendBuffer) + Len(buffer) = 0 BY <1>1, ConcatProperties, EmptyLemma
    <2>2. Len(s.sendBuffer) \in Nat /\ Len(buffer) \in Nat BY <1>1, LenProperties
    <2> HIDE DEF all
    <2>3. Len(s.sendBuffer) = 0 BY <2>1, <2>2
    <2>4. s.sendBuffer = Empty BY <1>1, <2>3, EmptySeq DEF Empty
    <2> QED BY <2>4, DeliversRefl
  <1> HIDE DEF w, f
  <1>5. CASE s.phase # "UDPForward"
    <2>1. BackendDispatch(s, buffer) = (IF all = Empty THEN s ELSE IF s.tend = "rst" \/ IsShutdown(s.backend) THEN f ELSE w)
      BY <1>5 DEF BackendDispatch, TcpDispatch, f, w
    <2> HIDE DEF Fine, all
    <2>2. Fine(BackendDispatch(s, buffer)) BY <1>2, <1>3, <1>4, <2>1
    <2> QED BY <2>2 DEF Fine
  <1>6. CASE s.phase = "UDPForward"
    <2>1. BackendDispatch(s, buffer) =
            (IF all = Empty THEN s ELSE IF s.tend = "rst" THEN f
             ELSE IF good < Len(all) /\ good <= Room(s) THEN cut ELSE w)
      BY <1>6 DEF BackendDispatch, UdpDispatch, f, w
    <2>2. ASSUME all # Empty, s.tend # "rst", good < Len(all), good <= Room(s) PROVE Fine(cut)
      <3> DEFINE e == Shutdown(s.backend)
                 p == Take(all, good)
                 x == s.tout \o p
      <3>1. IsShutdown(e) BY Fields, Statuses
      <3>2. Good(cut)
        <4>1. Keep(s, BackendDispatch(s, buffer)) BY BackendDispatchLemma
        <4>2. BackendDispatch(s, buffer) = cut BY <2>1, <2>2
        <4> HIDE DEF cut, all
        <4> QED BY <4>1, <4>2, KeepGood
      <3>3. s.tcon # "up" => x = Empty
        <4> SUFFICES ASSUME s.tcon # "up" PROVE x = Empty OBVIOUS
        <4> HIDE DEF all
        <4>1. good \in 0 .. Len(all) /\ Len(all) \in Nat BY <1>1, GoodPacketsLemma, LenProperties
        <4>2. Room(s) = 0 /\ s.tout = Empty BY DEF Room, Socketed
        <4> HIDE DEF good
        <4>3. good = 0 BY <2>2, <4>1, <4>2
        <4>4. p \in Seq(Nat) /\ Len(p) = 0 BY <1>1, <4>1, <4>3, BufferLemma
        <4> HIDE DEF p
        <4>5. x \in Seq(Nat) /\ Len(x) = 0 BY <4>2, <4>4, EmptyLemma, ConcatProperties
        <4> HIDE DEF x
        <4> QED BY <4>5, EmptySeq DEF Empty
      <3>4. cut = [s EXCEPT !.tout = x, !.sendBuffer = Empty, !.backend = e, !.broken = TRUE] OBVIOUS
      <3> HIDE DEF e, x, cut, all
      <3>5. cut.sendBuffer = Empty /\ cut.backend = e /\ cut.tcon = s.tcon /\ cut.tout = x
        BY <1>0, <3>4 DEF ConnState
      <3>6. UpFrame(s, cut) /\ cut.cin = s.cin /\ cut.phase = s.phase BY <1>0, <3>1, <3>4 DEF ConnState, UpFrame
      <3>7. Socketed(cut) BY <3>1, <3>3, <3>5 DEF Socketed, IsShutdown
      <3>8. SendsB(cut, {}) BY <3>5 DEF SendsB
      <3> QED BY <3>2, <3>6, <3>7, <3>8 DEF Delivers
    <2> HIDE DEF Fine, all, cut
    <2>3. Fine(BackendDispatch(s, buffer)) BY <1>2, <1>3, <1>4, <2>1, <2>2
    <2> QED BY <2>3 DEF Fine
  <1> QED BY <1>5, <1>6

LEMMA UpFrameTrans ==
    ASSUME NEW s, NEW t, NEW u, UpFrame(s, t), UpFrame(t, u) PROVE UpFrame(s, u)
  <1>1. u.proxy = s.proxy \/ IsShutdown(u.proxy) BY DEF UpFrame
  <1>2. u.backend = s.backend \/ IsShutdown(u.backend) \/ s.backend = "None" BY DEF UpFrame, IsShutdown
  <1> QED BY <1>1, <1>2 DEF UpFrame

LEMMA DeliversTrans ==
    ASSUME NEW s, NEW t, NEW u, UpFrame(s, t), t.cin = s.cin, Delivers(t, u), u.cin = t.cin
    PROVE  Delivers(s, u) /\ u.cin = s.cin
  BY UpFrameTrans DEF Delivers

\* A step of the set-up that leaves the sockets alone.
LEMMA SetupFrame ==
    ASSUME NEW s, Good(s), Socketed(s), s.backend = "None", NEW t, Good(t), UpFrame(s, t),
           t.backend = "None", t.tcon = s.tcon, t.tout = s.tout, t.sendBuffer = s.sendBuffer
    PROVE  Delivers(s, t)
  BY DEF Delivers, Socketed, UpFrame, SendsB, Alive

LEMMA FailedSetupAwake ==
    ASSUME NEW s, Good(s), Socketed(s), s.backend = "None",
           NEW ph \in {"HandShake", "DnsWait", "TCPForward", "UDPForward"}
    PROVE  /\ LET t == [s EXCEPT !.proxy = Shutdown(@), !.broken = TRUE, !.phase = ph]
              IN Delivers(s, t) /\ t.cin = s.cin /\ t.backend = "None"
           /\ LET t == [s EXCEPT !.proxy = Shutdown(@), !.broken = TRUE]
              IN Delivers(s, t) /\ t.cin = s.cin /\ t.backend = "None" /\ t.phase = s.phase
  <1> DEFINE e == Shutdown(s.proxy)
             t == [s EXCEPT !.proxy = e, !.broken = TRUE, !.phase = ph]
             u == [s EXCEPT !.proxy = e, !.broken = TRUE]
  <1>0. s \in ConnState BY DEF Good
  <1>1. IsShutdown(e) BY Fields, Statuses
  <1>2. Good(t) /\ Good(u) BY FailedSetup, FailedConnect, MovesGood
  <1> HIDE DEF e
  <1>3. /\ UpFrame(s, t) /\ t.cin = s.cin /\ t.tcon = s.tcon /\ t.tout = s.tout
        /\ t.sendBuffer = s.sendBuffer /\ t.backend = "None"
    BY <1>0, <1>1 DEF ConnState, UpFrame
  <1>4. /\ UpFrame(s, u) /\ u.cin = s.cin /\ u.tcon = s.tcon /\ u.tout = s.tout
        /\ u.sendBuffer = s.sendBuffer /\ u.backend = "None" /\ u.phase = s.phase
    BY <1>0, <1>1 DEF ConnState, UpFrame
  <1>5. /\ t = [s EXCEPT !.proxy = Shutdown(@), !.broken = TRUE, !.phase = ph]
        /\ u = [s EXCEPT !.proxy = Shutdown(@), !.broken = TRUE]
    BY DEF e
  <1> HIDE DEF t, u
  <1>6. Delivers(s, t) BY <1>2, <1>3, SetupFrame
  <1>7. Delivers(s, u) BY <1>2, <1>4, SetupFrame
  <1> QED BY <1>3, <1>4, <1>5, <1>6, <1>7

LEMMA SetupTcpAwake ==
    ASSUME NEW s, Good(s), Socketed(s), s.backend = "None", NEW o \in Outcome
    PROVE  Delivers(s, SetupTcp(s, o)) /\ SetupTcp(s, o).cin = s.cin
  <1>1. CASE o.open = "connectErr"
    BY <1>1, FailedSetupAwake DEF SetupTcp
  <1>2. CASE o.open = "registerErr"
    BY <1>2, FailedSetupAwake DEF SetupTcp
  <1>3. CASE o.open \notin {"connectErr", "registerErr"}
    <2> DEFINE k == IF o.open = "up" THEN "up" ELSE "connecting"
               t == [s EXCEPT !.backend = "Established", !.data = Empty, !.tcon = k]
               u == BackendDispatch(t, s.data)
               v == [u EXCEPT !.phase = "TCPForward"]
    <2>0. SetupTcp(s, o) = v BY <1>3 DEF SetupTcp
    <2>9. s \in ConnState BY DEF Good
    <2>a. k \in {"up", "connecting"} OBVIOUS
    <2> HIDE DEF k
    <2>1. t \in ConnState BY <2>a, EmptyLemma DEF Good, ConnState, Status
    <2>2. Good(t) /\ t.backend = "Established" /\ t.tcon = k /\ t.tout = s.tout /\ t.sendBuffer = s.sendBuffer
      BY <2>1 DEF Good, ConnState
    <2>3. UpFrame(s, t) /\ t.cin = s.cin BY <2>9 DEF ConnState, UpFrame
    <2>4. s.data \in Seq(Nat) BY Fields
    <2> HIDE DEF t
    <2>5. Socketed(t) BY <2>2, <2>a DEF Socketed
    <2>6. Delivers(t, u) /\ u.cin = t.cin
      <3>1. t.backend # "None" BY <2>2
      <3> QED BY <2>2, <2>4, <2>5, <3>1, BackendDispatchAwake
    <2> HIDE DEF u
    <2>7. Delivers(s, u) /\ u.cin = s.cin BY <2>3, <2>6, DeliversTrans
    <2>8. Good(v) /\ UpFrame(u, v) /\ v.cin = u.cin /\ v.backend = u.backend /\ v.tcon = u.tcon
          /\ v.tout = u.tout /\ v.sendBuffer = u.sendBuffer /\ v.tblk = u.tblk
      <3>1. Good(u) BY <2>7 DEF Delivers
      <3>2. v \in ConnState BY <3>1 DEF Good, ConnState
      <3> QED BY <3>1, <3>2 DEF Good, ConnState, UpFrame
    <2> HIDE DEF v
    <2>b. Socketed(v) /\ SendsB(v, {}) BY <2>7, <2>8 DEF Delivers, Socketed, SendsB, UpFrame
    <2>c. UpFrame(s, v) BY <2>7, <2>8, UpFrameTrans DEF Delivers
    <2> QED BY <2>0, <2>7, <2>8, <2>b, <2>c DEF Delivers
  <1> QED BY <1>1, <1>2, <1>3

LEMMA ForwardAwake ==
    ASSUME NEW s, Good(s), Socketed(s), NEW buffer \in Seq(Nat)
    PROVE  Delivers(s, Forward(s, buffer)) /\ Forward(s, buffer).cin = s.cin
  <1>1. s.backend = "None" => Delivers(s, s) BY DeliversRefl DEF Socketed
  <1>2. s.backend # "None" => Delivers(s, BackendDispatch(s, buffer)) /\ BackendDispatch(s, buffer).cin = s.cin
    BY BackendDispatchAwake
  <1> QED BY <1>1, <1>2 DEF Forward

LEMMA DispatchDnsWaitAwake ==
    ASSUME NEW s, Good(s), Socketed(s), s.backend = "None", NEW buffer \in Seq(Nat), NEW o \in Outcome
    PROVE  Delivers(s, DispatchDnsWait(s, buffer, o)) /\ DispatchDnsWait(s, buffer, o).cin = s.cin
  <1>0. s \in ConnState BY DEF Good
  <1>1. CASE IsUdp
    <2> DEFINE t == SetupUdp(s, o)
    <2>1. CASE o.open \in {"connectErr", "registerErr"}
      <3>1. Delivers(s, t) /\ t.cin = s.cin /\ t.backend = "None"
        BY <2>1, FailedSetupAwake DEF SetupUdp
      <3>2. Forward(t, buffer) = t BY <3>1 DEF Forward
      <3> QED BY <1>1, <3>1, <3>2 DEF DispatchDnsWait
    <2>2. CASE o.open \notin {"connectErr", "registerErr"}
      <3>0. t = [s EXCEPT !.backend = "Established", !.tcon = "up", !.phase = "UDPForward"]
        BY <2>2 DEF SetupUdp
      <3>1. Good(t)
        <4>1. Moves(s, t) BY SetupUdpLemma
        <4> QED BY <4>1, MovesGood
      <3> HIDE DEF t
      <3>2. /\ t.backend = "Established" /\ t.tcon = "up" /\ t.phase = "UDPForward"
            /\ UpFrame(s, t) /\ t.cin = s.cin
        BY <1>0, <3>0 DEF ConnState, UpFrame
      <3>3. Socketed(t) BY <3>2 DEF Socketed
      <3>4. Delivers(t, Forward(t, buffer)) /\ Forward(t, buffer).cin = t.cin BY <3>1, <3>3, ForwardAwake
      <3>5. DispatchDnsWait(s, buffer, o) = Forward(t, buffer) BY <1>1, <3>2 DEF DispatchDnsWait, t
      <3> QED BY <3>2, <3>4, <3>5, DeliversTrans
    <2> QED BY <2>1, <2>2
  <1>2. CASE ~IsUdp
    <2> DEFINE q == s.data \o buffer
               t == [s EXCEPT !.data = q]
    <2>1. q \in Seq(Nat) BY Fields, ConcatProperties
    <2> HIDE DEF q
    <2>2. t \in ConnState BY <2>1 DEF Good, ConnState
    <2>3. Good(t) /\ t.backend = "None" BY <2>2 DEF Good, ConnState
    <2>4. /\ UpFrame(s, t) /\ t.cin = s.cin /\ t.tcon = s.tcon /\ t.tout = s.tout
          /\ t.sendBuffer = s.sendBuffer
      BY <1>0 DEF ConnState, UpFrame
    <2>8. t = [s EXCEPT !.data = @ \o buffer] BY DEF q
    <2> HIDE DEF t
    <2>5. Delivers(s, t) BY <2>3, <2>4, SetupFrame
    <2>6. Delivers(t, SetupTcp(t, o)) /\ SetupTcp(t, o).cin = t.cin
      BY <2>3, <2>5, SetupTcpAwake DEF Delivers
    <2>7. Delivers(s, SetupTcp(t, o)) /\ SetupTcp(t, o).cin = s.cin BY <2>4, <2>6, DeliversTrans
    <2> QED BY <1>2, <2>4, <2>5, <2>7, <2>8 DEF DispatchDnsWait
  <1> QED BY <1>1, <1>2

LEMMA DispatchAwake ==
    ASSUME NEW s, Good(s), Waiting(s), Socketed(s), NEW buffer \in Seq(Nat), NEW o \in Outcome,
           s.phase = "HandShake" => buffer # Empty
    PROVE  Delivers(s, Dispatch(s, buffer, o)) /\ Dispatch(s, buffer, o).cin = s.cin
  <1>0. s \in ConnState BY DEF Good
  <1>1. CASE s.phase = "HandShake"
    <2> DEFINE t == TryHandshake(s, o)
               p == Payload(s, buffer)
    <2>0. s.backend = "None" BY <1>1 DEF Waiting
    <2>1. Good(t) /\ t.backend = "None" BY <2>0, TryHandshakeLemma, MovesGood
    <2>2. p \in Seq(Nat) BY <1>1, PayloadLemma
    <2>3. UpFrame(s, t) /\ t.cin = s.cin /\ t.tcon = s.tcon /\ t.tout = s.tout /\ t.sendBuffer = s.sendBuffer
      BY <1>0 DEF ConnState, UpFrame, TryHandshake
    <2> HIDE DEF t, p
    <2>4. Socketed(t) BY <2>0, <2>1, <2>3, SetupFrame DEF Delivers
    <2>5. Delivers(t, DispatchDnsWait(t, p, o)) /\ DispatchDnsWait(t, p, o).cin = t.cin
      BY <2>1, <2>2, <2>4, DispatchDnsWaitAwake
    <2>6. Dispatch(s, buffer, o) = DispatchDnsWait(t, p, o) BY <1>1 DEF Dispatch, t, p
    <2> QED BY <2>3, <2>5, <2>6, DeliversTrans
  <1>2. CASE s.phase = "DnsWait"
    <2>1. Dispatch(s, buffer, o) = DispatchDnsWait(s, buffer, o) BY <1>2 DEF Dispatch
    <2>2. s.backend = "None" BY <1>2 DEF Waiting
    <2> QED BY <2>1, <2>2, DispatchDnsWaitAwake
  <1>3. CASE s.phase \notin {"HandShake", "DnsWait"}
    <2>1. Dispatch(s, buffer, o) = Forward(s, buffer) BY <1>3 DEF Dispatch
    <2> QED BY <2>1, ForwardAwake
  <1> QED BY <1>1, <1>2, <1>3

\* What dispatch leaves alone keeps the rest.
LEMMA UpFrameAwake ==
    ASSUME NEW s, NEW t, NEW P, NEW B, NEW D, Good(s), Good(t), Sending(s, P, B), UpFrame(s, t), Socketed(t),
           SendsB(t, D), "r" \in B => "r" \in D
    PROVE  Sending(t, P, D)
  <1>1. ~IsShutdown(t.proxy) => t.proxy = s.proxy BY DEF UpFrame
  <1>2. Alive(t.proxy) => t.proxy = s.proxy BY DEF UpFrame, Alive, IsShutdown
  <1>3. t.proxy = "Connecting" => s.proxy = "Connecting" BY DEF UpFrame, IsShutdown
  <1>4. Alive(t.backend) => t.backend = s.backend \/ s.backend = "None" BY DEF UpFrame, Alive, IsShutdown
  <1>5. Based(t) BY <1>1, <1>3 DEF Sending, Based, UpFrame, Socketed
  <1>6. Starts(t, P) BY <1>3 DEF Sending, Starts
  <1>7. SendsP(t, P) BY <1>2 DEF Sending, SendsP, UpFrame
  <1>8. ReadsB(t, D)
    <2> SUFFICES ASSUME Alive(t.backend), ~IsShutdown(t.proxy), "r" \notin D, t.tin # Empty \/ t.tend # "open"
                 PROVE  t.readBackend /\ (t.proxy = "Connecting" \/ t.session # Empty)
      BY DEF ReadsB
    <2>1. s.tin # Empty \/ s.tend # "open" BY DEF UpFrame
    <2>2. s.backend # "None" BY <2>1 DEF Sending, Based
    <2>3. Alive(s.backend) /\ ~IsShutdown(s.proxy) /\ t.proxy = s.proxy BY <1>1, <1>4, <2>2
    <2>4. s.readBackend /\ (s.proxy = "Connecting" \/ s.session # Empty) BY <2>1, <2>3 DEF Sending, ReadsB
    <2> QED BY <2>3, <2>4 DEF UpFrame
  <1> QED BY <1>5, <1>6, <1>7, <1>8 DEF Sending

\* After try_read_proxy nothing is left to read, or the endpoint is closed.
Heard(t) == t.cin = Empty /\ (t.cend = "open" \/ IsShutdown(t.proxy))

\* try_read_proxy reads everything, or the endpoint is closed.
LEMMA TryReadAwake ==
    ASSUME NEW s, Good(s), Waiting(s), NEW o \in Outcome, NEW P, NEW B, Sending(s, P, B)
    PROVE  LET t == TryReadProxy(s, o) IN Sending(t, P, B) /\ Heard(t) /\ Good(t) /\ Waiting(t)
  <1> DEFINE e == IF s.cend # "open" THEN Shutdown(s.proxy) ELSE s.proxy
             r == [s EXCEPT !.cin = Empty, !.proxy = e]
             b == ReadBuffer(s)
             t == TryReadProxy(s, o)
  <1>0. s \in ConnState BY DEF Good
  <1>1. (e = s.proxy \/ IsShutdown(e)) /\ (s.cend # "open" => IsShutdown(e)) BY Fields, Statuses
  <1>2. r = DoReadProxy(s) BY DEF DoReadProxy
  <1>3. Keep(s, r) /\ b \in Seq(Nat) BY <1>2, DoReadProxyLemma
  <1>4. Good(r) /\ Waiting(r) BY <1>3, KeepMoves, MovesGood
  <1> HIDE DEF e
  <1>5. /\ UpFrame(s, r) /\ r.cin = Empty /\ r.proxy = e /\ r.cend = s.cend /\ r.backend = s.backend
        /\ r.tcon = s.tcon /\ r.tout = s.tout /\ r.sendBuffer = s.sendBuffer /\ r.tblk = s.tblk
    BY <1>0, <1>1 DEF ConnState, UpFrame
  <1>a. t = (IF b = Empty THEN r ELSE Dispatch(r, b, o)) BY <1>2 DEF TryReadProxy
  <1>b. Good(t) /\ Waiting(t)
    <2>1. Moves(s, t) BY TryReadProxyLemma
    <2> QED BY <2>1, MovesGood
  <1> HIDE DEF r, b, t
  <1>6. Socketed(r) BY <1>5 DEF Sending, Based, Socketed, UpFrame
  <1>7. UpFrame(s, t) /\ Socketed(t) /\ t.cin = Empty /\ (t.proxy = r.proxy \/ IsShutdown(t.proxy))
    <2>1. CASE b = Empty BY <1>5, <1>6, <1>a, <2>1
    <2>2. CASE b # Empty
      <3>1. Delivers(r, Dispatch(r, b, o)) /\ Dispatch(r, b, o).cin = r.cin
        BY <1>3, <1>4, <1>6, <2>2, DispatchAwake
      <3>2. Delivers(r, t) /\ t.cin = Empty BY <1>5, <1>a, <2>2, <3>1
      <3> QED BY <1>5, <3>2, UpFrameTrans DEF Delivers, UpFrame
    <2> QED BY <2>1, <2>2
  <1>8. SendsB(t, B)
    <2>1. CASE b = Empty BY <1>5, <1>a, <2>1 DEF Sending, SendsB
    <2>2. CASE b # Empty
      <3>1. Delivers(r, Dispatch(r, b, o)) BY <1>3, <1>4, <1>6, <2>2, DispatchAwake
      <3>2. SendsB(t, {}) BY <1>a, <2>2, <3>1 DEF Delivers
      <3> QED BY <3>2 DEF SendsB
    <2> QED BY <2>1, <2>2
  <1>9. Heard(t)
    <2>1. IsShutdown(t.proxy) \/ t.cend = "open" BY <1>1, <1>5, <1>7 DEF UpFrame
    <2> QED BY <1>7, <2>1 DEF Heard
  <1>10. Sending(t, P, B) BY <1>7, <1>8, <1>b, UpFrameAwake
  <1> QED BY <1>9, <1>10, <1>b DEF t

-----------------------------------------------------------------------------
(* ... the handlers *)

\* Events that are still due are only looked at one by one.
LEMMA DueLess ==
    ASSUME NEW s, NEW P, NEW B
    PROVE  /\ Sending(s, P, B) => Sending(s, P \ {"r"}, B)
           /\ ReadsP(s, P) => ReadsP(s, P \ {"w"})
           /\ SendsB(s, B) => SendsB(s, B \ {"r"})
           /\ ReadsB(s, B) => ReadsB(s, B \ {"w"})
           /\ SendsB(s, {}) => SendsB(s, B)
           /\ SendsP(s, {}) => SendsP(s, P)
           /\ ReadsB(s, {}) => ReadsB(s, B)
  <1>1. "w" \in P \ {"r"} <=> "w" \in P OBVIOUS
  <1>2. "r" \in P \ {"w"} <=> "r" \in P OBVIOUS
  <1>3. "w" \in B \ {"r"} <=> "w" \in B OBVIOUS
  <1>4. "r" \in B \ {"w"} <=> "r" \in B OBVIOUS
  <1>5. "r" \notin {} /\ "w" \notin {} OBVIOUS
  <1>6. Sending(s, P, B) => Sending(s, P \ {"r"}, B) BY Zenon, <1>1 DEF Sending, Starts, SendsP
  <1>7. ReadsP(s, P) => ReadsP(s, P \ {"w"}) BY Zenon, <1>2 DEF ReadsP
  <1>8. SendsB(s, B) => SendsB(s, B \ {"r"}) BY Zenon, <1>3 DEF SendsB
  <1>9. ReadsB(s, B) => ReadsB(s, B \ {"w"}) BY Zenon, <1>4 DEF ReadsB
  <1>10. SendsB(s, {}) => SendsB(s, B) BY Zenon, <1>5 DEF SendsB
  <1>11. SendsP(s, {}) => SendsP(s, P) BY Zenon, <1>5 DEF SendsP
  <1>12. ReadsB(s, {}) => ReadsB(s, B) BY Zenon, <1>5 DEF ReadsB
  <1> QED BY <1>6, <1>7, <1>8, <1>9, <1>10, <1>11, <1>12

\* A readable client: its data is dispatched, or remembered while send_buffer or a
\* closed backend is in the way.
LEMMA ProxyReadableAwake ==
    ASSUME NEW s, Good(s), Waiting(s), NEW o \in Outcome, NEW P, NEW B, Awake(s, P, B)
    PROVE  Awake(ProxyReadable(s, o), P \ {"r"}, B)
  <1>1. CASE BackendWritable(s)
    <2> DEFINE t == TryReadProxy(s, o)
    <2>1. Sending(t, P, B) /\ Heard(t) BY TryReadAwake DEF Awake
    <2>2. ProxyReadable(s, o) = t BY <1>1 DEF ProxyReadable
    <2> HIDE DEF t
    <2>3. Sending(t, P \ {"r"}, B) BY <2>1, DueLess
    <2>4. ReadsP(t, P \ {"r"}) BY <2>1 DEF Heard, ReadsP
    <2> QED BY <2>2, <2>3, <2>4 DEF Awake
  <1>2. CASE ~BackendWritable(s)
    <2> DEFINE t == [s EXCEPT !.readProxy = TRUE]
    <2>1. ProxyReadable(s, o) = t BY <1>2 DEF ProxyReadable
    <2>2. IsShutdown(s.backend) \/ s.sendBuffer # Empty
      BY <1>2, Fields, Statuses DEF BackendWritable, Awake, Sending, Based
    <2>3. s \in ConnState BY DEF Good
    <2>5. /\ t.proxyWritable = s.proxyWritable /\ t.session = s.session /\ t.cout = s.cout /\ t.cblk = s.cblk
          /\ t.tin = s.tin /\ t.tend = s.tend /\ t.readProxy = TRUE /\ t.readBackend = s.readBackend
          /\ t.proxy = s.proxy /\ t.backend = s.backend /\ t.tcon = s.tcon /\ t.tout = s.tout
          /\ t.sendBuffer = s.sendBuffer /\ t.tblk = s.tblk
      BY <2>3 DEF ConnState
    <2> HIDE DEF t
    <2>6. Sending(t, P, B)
      BY <2>5 DEF Awake, Sending, Based, Starts, SendsB, SendsP, ReadsB
    <2>7. Sending(t, P \ {"r"}, B) BY <2>6, DueLess
    <2>8. ReadsP(t, P \ {"r"}) BY <2>2, <2>5 DEF ReadsP
    <2> QED BY <2>1, <2>7, <2>8 DEF Awake
  <1> QED BY <1>1, <1>2

\* Reading the backend and forgetting that it was to be read.
LEMMA ForgetBackend ==
    ASSUME NEW s, Good(s), NEW P, NEW B, Based(s), s.proxy # "Connecting", SendsB(s, B), SendsP(s, {}),
           ReadsP(s, P), Drained(s) \/ s.backend = "None"
    PROVE  Awake([s EXCEPT !.readBackend = FALSE], P, B)
  <1> DEFINE t == [s EXCEPT !.readBackend = FALSE]
  <1>1. s \in ConnState BY DEF Good
  <1>2. /\ t.proxyWritable = s.proxyWritable /\ t.session = s.session /\ t.cout = s.cout /\ t.cblk = s.cblk
        /\ t.tin = s.tin /\ t.tend = s.tend /\ t.readProxy = s.readProxy /\ t.cin = s.cin /\ t.cend = s.cend
        /\ t.proxy = s.proxy /\ t.backend = s.backend /\ t.tcon = s.tcon /\ t.tout = s.tout
        /\ t.sendBuffer = s.sendBuffer /\ t.tblk = s.tblk
    BY <1>1 DEF ConnState
  <1> HIDE DEF t
  <1>3. Based(t) BY <1>2 DEF Based
  <1>4. Starts(t, P) BY <1>2 DEF Starts
  <1>5. SendsB(t, B) BY <1>2 DEF SendsB
  <1>6. SendsP(t, P)
    <2>1. SendsP(s, P) BY DueLess
    <2> QED BY <1>2, <2>1 DEF SendsP
  <1>7. ReadsP(t, P) BY <1>2 DEF ReadsP
  <1>8. ReadsB(t, B) BY <1>2 DEF ReadsB, Drained, Alive, IsShutdown
  <1>9. Awake(t, P, B) BY <1>3, <1>4, <1>5, <1>6, <1>7, <1>8 DEF Awake, Sending
  <1> QED BY <1>9 DEF t

\* A writable TLS socket: records are sent, then the backend is read if it was put off.
LEMMA ProxyWriteReadyAwake ==
    ASSUME NEW s, Good(s), Waiting(s), NEW P, NEW B, Awake(s, P, B)
    PROVE  Awake(ProxyWriteReady(s), P \ {"w"}, B)
  <1> DEFINE e == Established(s.proxy)
             a == [s EXCEPT !.proxy = e]
             t == DoSendProxy(a)
             v == DoReadBackend(t)
  <1>0. s \in ConnState BY DEF Good
  <1>1. e # "Connecting" /\ (IsShutdown(s.proxy) => e = s.proxy) BY Fields, Statuses DEF IsShutdown
  <1>2. Good(a)
    <2>1. e \in Status BY Fields, StatusLemma
    <2> HIDE DEF e
    <2>2. a \in ConnState BY <1>0, <2>1 DEF ConnState
    <2> QED BY <2>2 DEF Good, ConnState
  <1> HIDE DEF e
  <1>3. /\ a.phase = s.phase /\ a.sendBuffer = s.sendBuffer /\ a.tout = s.tout /\ a.tblk = s.tblk
        /\ a.tcon = s.tcon /\ a.tend = s.tend /\ a.cin = s.cin /\ a.cend = s.cend /\ a.tin = s.tin
        /\ a.readProxy = s.readProxy /\ a.readBackend = s.readBackend /\ a.backend = s.backend /\ a.proxy = e
    BY <1>0 DEF ConnState
  <1>9. a = [s EXCEPT !.proxy = Established(@)] BY DEF e
  <1> HIDE DEF a
  <1>4. /\ DownFrame(a, t) /\ t.tin = a.tin /\ t.backend = a.backend /\ t.proxy # "Connecting"
        /\ (~IsShutdown(t.proxy) /\ ~t.proxyWritable) => t.session # Empty
        /\ SendsP(t, {})
    BY <1>1, <1>2, <1>3, SendAwake
  <1>5. Good(t)
    <2>1. Keep(a, t) BY <1>2, DoSendProxyLemma
    <2> QED BY <2>1, KeepGood
  <1>6. ProxyWriteReady(s) = IF ProxyWritable(t) /\ t.readBackend
                             THEN [(IF t.backend = "None" THEN t ELSE v) EXCEPT !.readBackend = FALSE]
                             ELSE t
    BY <1>9 DEF ProxyWriteReady
  <1> HIDE DEF t, v
  <1>7. /\ t.sendBuffer = s.sendBuffer /\ t.tout = s.tout /\ t.tblk = s.tblk /\ t.tcon = s.tcon
        /\ t.tend = s.tend /\ t.cin = s.cin /\ t.cend = s.cend /\ t.tin = s.tin
        /\ t.readProxy = s.readProxy /\ t.readBackend = s.readBackend /\ t.backend = s.backend
        /\ ~IsShutdown(t.proxy) => ~IsShutdown(s.proxy)
    BY <1>1, <1>3, <1>4 DEF DownFrame
  <1>8. Based(t) /\ SendsB(t, B) /\ ReadsP(t, P)
    <2>1. Based(s) /\ SendsB(s, B) /\ ReadsP(s, P) BY DEF Awake, Sending
    <2>2. Based(t) BY <1>4, <1>7, <2>1 DEF Based
    <2>3. SendsB(t, B) BY <1>7, <2>1 DEF SendsB
    <2>4. ReadsP(t, P) BY <1>7, <2>1 DEF ReadsP
    <2> QED BY <2>2, <2>3, <2>4
  <1>10. ReadsP(t, P \ {"w"}) BY <1>8, DueLess
  <1>11. CASE ProxyWritable(t) /\ t.readBackend /\ t.backend = "None"
    <2>1. Awake([t EXCEPT !.readBackend = FALSE], P \ {"w"}, B)
      BY <1>4, <1>5, <1>8, <1>10, <1>11, ForgetBackend
    <2> QED BY <1>6, <1>11, <2>1
  <1>12. CASE ProxyWritable(t) /\ t.readBackend /\ t.backend # "None"
    <2>1. Alive(t.proxy) BY <1>12 DEF ProxyWritable
    <2>2. /\ Based(v) /\ v.proxy # "Connecting" /\ SendsB(v, B) /\ SendsP(v, {}) /\ ReadsP(v, P \ {"w"})
          /\ Drained(v) /\ Good(v)
      BY <1>5, <1>8, <1>10, <1>12, <2>1, ReadBackendAwake DEF v
    <2>3. Awake([v EXCEPT !.readBackend = FALSE], P \ {"w"}, B) BY <2>2, ForgetBackend
    <2> QED BY <1>6, <1>12, <2>3
  <1>13. CASE ~(ProxyWritable(t) /\ t.readBackend)
    <2>1. Starts(t, P \ {"w"}) BY <1>4 DEF Starts
    <2>2. SendsP(t, P \ {"w"}) BY <1>4, DueLess
    <2>3. ReadsB(t, B)
      <3> SUFFICES ASSUME Alive(t.backend), ~IsShutdown(t.proxy), "r" \notin B, t.tin # Empty \/ t.tend # "open"
                   PROVE  t.readBackend /\ (t.proxy = "Connecting" \/ t.session # Empty)
        BY DEF ReadsB
      <3>1. s.readBackend BY <1>7 DEF Awake, Sending, ReadsB
      <3>2. Alive(t.proxy) BY <1>4, <1>5, Fields, Statuses
      <3>3. ~t.proxyWritable BY <1>7, <1>13, <3>1, <3>2 DEF ProxyWritable
      <3> QED BY <1>4, <1>7, <3>1, <3>3
    <2>4. Awake(t, P \ {"w"}, B) BY <1>8, <1>10, <2>1, <2>2, <2>3 DEF Awake, Sending
    <2> QED BY <1>6, <1>13, <2>4
  <1> QED BY <1>11, <1>12, <1>13

\* A readable target: its data goes to the session, or is remembered while the session
\* is in the way.
LEMMA BackendReadableAwake ==
    ASSUME NEW s, Good(s), Waiting(s), NEW P, NEW B, Awake(s, P, B), s.backend # "None"
    PROVE  Awake(BackendReadable(s), P, B \ {"r"})
  <1>0. Based(s) /\ Starts(s, P) /\ SendsB(s, B) /\ SendsP(s, P) /\ ReadsP(s, P) BY DEF Awake, Sending
  <1>a. SendsB(s, B \ {"r"}) BY <1>0, DueLess
  <1>1. CASE ProxyWritable(s)
    <2> DEFINE t == DoReadBackend(s)
    <2>0. Alive(s.proxy) BY <1>1 DEF ProxyWritable
    <2>1. /\ Based(t) /\ t.proxy # "Connecting" /\ SendsB(t, B \ {"r"}) /\ SendsP(t, {}) /\ ReadsP(t, P)
          /\ ReadsB(t, {})
      BY <1>0, <1>a, <2>0, ReadBackendAwake
    <2>2. BackendReadable(s) = t BY <1>1 DEF BackendReadable
    <2> HIDE DEF t
    <2>3. SendsP(t, P) /\ ReadsB(t, B \ {"r"}) BY <2>1, DueLess
    <2>4. Starts(t, P) BY <2>1 DEF Starts
    <2> QED BY <2>1, <2>2, <2>3, <2>4 DEF Awake, Sending
  <1>2. CASE ~ProxyWritable(s)
    <2> DEFINE t == [s EXCEPT !.readBackend = TRUE]
    <2>1. BackendReadable(s) = t BY <1>2 DEF BackendReadable
    <2>2. s \in ConnState BY DEF Good
    <2>3. /\ t.proxyWritable = s.proxyWritable /\ t.session = s.session /\ t.cout = s.cout /\ t.cblk = s.cblk
          /\ t.tin = s.tin /\ t.tend = s.tend /\ t.readProxy = s.readProxy /\ t.readBackend = TRUE
          /\ t.proxy = s.proxy /\ t.backend = s.backend /\ t.tcon = s.tcon /\ t.tout = s.tout
          /\ t.sendBuffer = s.sendBuffer /\ t.tblk = s.tblk /\ t.cin = s.cin /\ t.cend = s.cend
      BY <2>2 DEF ConnState
    <2> HIDE DEF t
    <2>4. Based(t) BY <1>0, <2>3 DEF Based
    <2>5. Starts(t, P) /\ SendsB(t, B \ {"r"}) /\ SendsP(t, P) /\ ReadsP(t, P)
      BY <1>0, <1>a, <2>3 DEF Starts, SendsB, SendsP, ReadsP
    <2>6. IsShutdown(s.proxy) \/ s.proxy = "Connecting" \/ s.session # Empty
      BY <1>0, <1>2, Fields, Statuses DEF ProxyWritable, Based
    <2>7. ReadsB(t, B \ {"r"}) BY <2>3, <2>6 DEF ReadsB
    <2> QED BY <2>1, <2>4, <2>5, <2>7 DEF Awake, Sending
  <1> QED BY <1>1, <1>2

\* A writable target: send_buffer is written, then the client is read if it was put off.
LEMMA BackendWriteReadyAwake ==
    ASSUME NEW s, Good(s), Waiting(s), NEW o \in Outcome, NEW P, NEW B, Awake(s, P, B), s.backend # "None"
    PROVE  Awake(BackendWriteReady(s, o), P, B \ {"w"})
  <1> DEFINE t == BackendDispatch(s, Empty)
             u == TryReadProxy(t, o)
             v == [u EXCEPT !.readProxy = FALSE]
             D == B \ {"w"}
  <1>0. Sending(s, P, B) /\ ReadsP(s, P) BY DEF Awake
  <1>1. Socketed(s) BY <1>0 DEF Sending, Based, Socketed
  <1>2. Delivers(s, t) /\ t.cin = s.cin /\ t.phase = s.phase BY <1>1, EmptyLemma, BackendDispatchAwake
  <1>3. Good(t) /\ Waiting(t)
    <2>1. Moves(s, t) BY EmptyLemma, BackendDispatchLemma, KeepMoves
    <2> QED BY <2>1, MovesGood
  <1>4. BackendWriteReady(s, o) = IF BackendWritable(t) /\ t.readProxy THEN v ELSE t
    BY DEF BackendWriteReady
  <1> HIDE DEF t
  <1>5. UpFrame(s, t) /\ Socketed(t) /\ SendsB(t, {}) BY <1>2 DEF Delivers
  <1>6. SendsB(t, D) BY <1>5, DueLess
  <1>7. "r" \in B => "r" \in D OBVIOUS
  <1> HIDE DEF D
  <1>8. Sending(t, P, D) BY <1>0, <1>3, <1>5, <1>6, <1>7, UpFrameAwake
  <1>9. CASE BackendWritable(t) /\ t.readProxy
    <2>1. Sending(u, P, D) /\ Heard(u) /\ Good(u) BY <1>3, <1>8, TryReadAwake
    <2> HIDE DEF u
    <2>2. u \in ConnState BY <2>1 DEF Good
    <2>3. /\ v.proxyWritable = u.proxyWritable /\ v.session = u.session /\ v.cout = u.cout /\ v.cblk = u.cblk
          /\ v.tin = u.tin /\ v.tend = u.tend /\ v.readBackend = u.readBackend
          /\ v.proxy = u.proxy /\ v.backend = u.backend /\ v.tcon = u.tcon /\ v.tout = u.tout
          /\ v.sendBuffer = u.sendBuffer /\ v.tblk = u.tblk /\ v.cin = u.cin /\ v.cend = u.cend
      BY <2>2 DEF ConnState
    <2> HIDE DEF v
    <2>4. Sending(v, P, D) BY <2>1, <2>3 DEF Sending, Based, Starts, SendsB, SendsP, ReadsB
    <2>5. ReadsP(v, P) BY <2>1, <2>3 DEF ReadsP, Heard
    <2> QED BY <1>4, <1>9, <2>4, <2>5 DEF Awake, D
  <1>10. CASE ~(BackendWritable(t) /\ t.readProxy)
    <2>1. ReadsP(t, P)
      <3> SUFFICES ASSUME ~IsShutdown(t.proxy), ~IsShutdown(t.backend), "r" \notin P,
                          t.cin # Empty \/ t.cend # "open"
                   PROVE  t.readProxy /\ t.sendBuffer # Empty
        BY DEF ReadsP
      <3>1. t.proxy = s.proxy /\ t.backend = s.backend /\ t.cend = s.cend /\ t.readProxy = s.readProxy
        BY <1>5 DEF UpFrame
      <3>2. t.readProxy BY <1>0, <1>2, <3>1 DEF ReadsP
      <3>3. Alive(t.backend) BY <1>3, <1>5, <3>1, Fields, Statuses DEF Socketed
      <3>4. t.sendBuffer # Empty BY <1>10, <3>2, <3>3 DEF BackendWritable
      <3> QED BY <3>2, <3>4
    <2> QED BY <1>4, <1>8, <1>10, <2>1 DEF Awake, D
  <1> QED BY <1>9, <1>10

\* The end of ready closes endpoints and nothing else.
LEMMA SettleAwake ==
    ASSUME NEW s, Good(s), NEW P, NEW B, Awake(s, P, B)
    PROVE  Awake(Settle(s), P, B)
  <1> DEFINE b == IF s.backend # "None" /\ IsShutdown(s.proxy) THEN PeerClosed(s.backend) ELSE s.backend
             p == IF s.backend # "None" /\ IsShutdown(b) THEN PeerClosed(s.proxy) ELSE s.proxy
             pp == CheckStatus(p, s.session = Empty)
             bb == IF b = "None" THEN b ELSE CheckStatus(b, s.sendBuffer = Empty)
             t == [s EXCEPT !.proxy = pp, !.backend = bb]
  <1>0. s \in ConnState BY DEF Good
  <1>1. t = Settle(s) BY DEF Settle
  <1>2. s.proxy \in Status /\ s.backend \in Status \cup {"None"} /\ s.backend # "Connecting"
        /\ (s.proxy = "Connecting" => s.session = Empty)
    BY Fields DEF Awake, Sending, Based
  <1>3. /\ Alive(b) => Alive(s.backend)
        /\ IsShutdown(s.backend) => IsShutdown(b)
        /\ b = "None" <=> s.backend = "None"
        /\ b # "Connecting"
    BY <1>2 DEF Status, Alive, IsShutdown, PeerClosed
  <1> HIDE DEF b
  <1>4. /\ p = "Connecting" => s.proxy = "Connecting"
        /\ IsShutdown(s.proxy) => IsShutdown(p)
        /\ Alive(p) => Alive(s.proxy) \/ (p = "PeerClosed" /\ s.session = Empty)
    BY <1>2 DEF Status, Alive, IsShutdown, PeerClosed
  <1> HIDE DEF p
  <1>5. /\ pp = "Connecting" => s.proxy = "Connecting"
        /\ ~IsShutdown(pp) => ~IsShutdown(s.proxy)
        /\ Alive(pp) => Alive(s.proxy)
    BY <1>4 DEF CheckStatus, Alive, IsShutdown
  <1>6. /\ Alive(bb) => Alive(s.backend)
        /\ ~IsShutdown(bb) => ~IsShutdown(s.backend)
        /\ bb = "None" <=> s.backend = "None"
        /\ bb # "Connecting"
    BY <1>3 DEF CheckStatus, Alive, IsShutdown
  <1>a. pp \in Status
    <2>1. p \in Status BY <1>2, StatusLemma DEF p
    <2> QED BY <2>1, CheckStatusLemma
  <1>b. ~IsShutdown(pp) => pp = "Connecting" \/ Alive(pp) BY <1>a, Statuses
  <1> HIDE DEF pp, bb
  <1>7. /\ t.proxyWritable = s.proxyWritable /\ t.session = s.session /\ t.cout = s.cout /\ t.cblk = s.cblk
        /\ t.tin = s.tin /\ t.tend = s.tend /\ t.readBackend = s.readBackend /\ t.readProxy = s.readProxy
        /\ t.proxy = pp /\ t.backend = bb /\ t.tcon = s.tcon /\ t.tout = s.tout
        /\ t.sendBuffer = s.sendBuffer /\ t.tblk = s.tblk /\ t.cin = s.cin /\ t.cend = s.cend
    BY <1>0 DEF ConnState
  <1> HIDE DEF t
  <1>8. Based(s) /\ Starts(s, P) /\ SendsB(s, B) /\ SendsP(s, P) /\ ReadsP(s, P) /\ ReadsB(s, B)
    BY DEF Awake, Sending
  <1>9. Based(t) BY <1>5, <1>6, <1>7, <1>8 DEF Based
  <1>10. Starts(t, P) BY <1>5, <1>7, <1>8 DEF Starts
  <1>11. SendsB(t, B) BY <1>6, <1>7, <1>8 DEF SendsB
  <1>12. SendsP(t, P) BY <1>5, <1>7, <1>8 DEF SendsP
  <1>13. ReadsP(t, P) BY <1>5, <1>6, <1>7, <1>8 DEF ReadsP
  <1>14. ReadsB(t, B) BY <1>5, <1>6, <1>7, <1>8, <1>b DEF ReadsB, Alive
  <1>15. Awake(t, P, B) BY <1>9, <1>10, <1>11, <1>12, <1>13, <1>14 DEF Awake, Sending
  <1> QED BY <1>1, <1>15

\* More events due only help, and a closed endpoint needs none.
LEMMA DueMore ==
    ASSUME NEW s, NEW P, NEW B, NEW Q, NEW D, Awake(s, P, B),
           (("r" \in P => "r" \in Q) /\ ("w" \in P => "w" \in Q)) \/ IsShutdown(s.proxy),
           (("r" \in B => "r" \in D) /\ ("w" \in B => "w" \in D)) \/ s.backend \in {"None", "Deregistered"}
    PROVE  Awake(s, Q, D)
  <1>1. Based(s) /\ Starts(s, P) /\ SendsB(s, B) /\ SendsP(s, P) /\ ReadsP(s, P) /\ ReadsB(s, B)
    BY DEF Awake, Sending
  <1>2. Starts(s, Q) /\ SendsP(s, Q) /\ ReadsP(s, Q)
    <2>1. CASE IsShutdown(s.proxy) BY <2>1 DEF Starts, SendsP, ReadsP, Alive, IsShutdown
    <2>2. CASE ("r" \in P => "r" \in Q) /\ ("w" \in P => "w" \in Q) BY <1>1, <2>2 DEF Starts, SendsP, ReadsP
    <2> QED BY <2>1, <2>2
  <1>3. SendsB(s, D) /\ ReadsB(s, D)
    <2>1. CASE s.backend \in {"None", "Deregistered"} BY <2>1 DEF SendsB, ReadsB, Alive
    <2>2. CASE ("r" \in B => "r" \in D) /\ ("w" \in B => "w" \in D) BY <1>1, <2>2 DEF SendsB, ReadsB
    <2> QED BY <2>1, <2>2
  <1> QED BY <1>1, <1>2, <1>3 DEF Awake, Sending

\* ready for the client's socket serves the events it was given.
LEMMA ReadyProxyAwake ==
    ASSUME NEW s, Good(s), Waiting(s), NEW o \in Outcome, NEW P, NEW B, NEW flags, Awake(s, P, B)
    PROVE  Awake(ReadyProxy(s, flags, o), P \ flags, B)
  <1> DEFINE t == IF "r" \in flags THEN ProxyReadable(s, o) ELSE s
             u == IF "w" \in flags THEN ProxyWriteReady(t) ELSE t
             P1 == IF "r" \in flags THEN P \ {"r"} ELSE P
             P2 == IF "w" \in flags THEN P1 \ {"w"} ELSE P1
  <1>0. ReadyProxy(s, flags, o) = Settle(u) BY DEF ReadyProxy
  <1>1. Good(t) /\ Waiting(t)
    <2>1. Moves(s, t) BY ProxyReadableLemma, MovesRefl
    <2> QED BY <2>1, MovesGood
  <1>2. Awake(t, P1, B) BY ProxyReadableAwake
  <1>a. "r" \in P2 => "r" \in P \ flags BY DEF P1, P2
  <1>b. "w" \in P2 => "w" \in P \ flags BY DEF P1, P2
  <1> HIDE DEF t, P1
  <1>3. Good(u)
    <2>1. CASE "w" \in flags
      <3>1. Keep(t, ProxyWriteReady(t)) BY <1>1, ProxyWriteReadyLemma
      <3> QED BY <2>1, <3>1, KeepGood
    <2>2. CASE "w" \notin flags BY <1>1, <2>2
    <2> QED BY <2>1, <2>2
  <1>4. Awake(u, P2, B) BY <1>1, <1>2, ProxyWriteReadyAwake
  <1> HIDE DEF u, P2
  <1>5. Awake(u, P \ flags, B) BY <1>4, <1>a, <1>b, DueMore
  <1>6. Awake(Settle(u), P \ flags, B) BY <1>3, <1>5, SettleAwake
  <1> QED BY <1>0, <1>6

\* ready for the target's socket serves the events it was given.
LEMMA ReadyBackendAwake ==
    ASSUME NEW s, Good(s), Waiting(s), NEW o \in Outcome, NEW P, NEW B, NEW flags, Awake(s, P, B)
    PROVE  Awake(ReadyBackend(s, flags, o), P, B \ flags)
  <1> DEFINE t == IF "r" \in flags THEN BackendReadable(s) ELSE s
             u == IF "w" \in flags THEN BackendWriteReady(t, o) ELSE t
             B1 == IF "r" \in flags THEN B \ {"r"} ELSE B
             B2 == IF "w" \in flags THEN B1 \ {"w"} ELSE B1
  <1>0. ReadyBackend(s, flags, o)
          = Settle(IF s.phase \in {"UDPForward", "TCPForward"} /\ s.backend # "None" THEN u ELSE s)
    BY DEF ReadyBackend
  <1>1. CASE s.phase \in {"UDPForward", "TCPForward"} /\ s.backend # "None"
    <2>1. Good(t) /\ Waiting(t) /\ t.backend # "None"
      <3>1. Keep(s, t) BY <1>1, BackendReadableLemma, KeepRefl
      <3> QED BY <1>1, <3>1, KeepMoves, MovesGood, KeepGood
    <2>2. Awake(t, P, B1) BY <1>1, BackendReadableAwake
    <2>a. "r" \in B2 => "r" \in B \ flags BY DEF B1, B2
    <2>b. "w" \in B2 => "w" \in B \ flags BY DEF B1, B2
    <2> HIDE DEF t, B1
    <2>3. Good(u)
      <3>1. CASE "w" \in flags
        <4>1. Moves(t, BackendWriteReady(t, o)) BY <2>1, BackendWriteReadyLemma
        <4> QED BY <3>1, <4>1, MovesGood
      <3>2. CASE "w" \notin flags BY <2>1, <3>2
      <3> QED BY <3>1, <3>2
    <2>4. Awake(u, P, B2) BY <2>1, <2>2, BackendWriteReadyAwake
    <2> HIDE DEF u, B2
    <2>5. Awake(u, P, B \ flags) BY <2>4, <2>a, <2>b, DueMore
    <2>6. Awake(Settle(u), P, B \ flags) BY <2>3, <2>5, SettleAwake
    <2> QED BY <1>0, <1>1, <2>6
  <1>2. CASE ~(s.phase \in {"UDPForward", "TCPForward"} /\ s.backend # "None")
    <2>1. s.backend = "None"
      <3>1. s.phase \in {"HandShake", "DnsWait", "TCPForward", "UDPForward"} BY DEF Good, ConnState
      <3> QED BY <1>2, <3>1 DEF Waiting
    <2>2. Awake(s, P, B \ flags) BY <2>1, DueMore
    <2>3. Awake(Settle(s), P, B \ flags) BY <2>2, SettleAwake
    <2> QED BY <1>0, <1>2, <2>3
  <1> QED BY <1>1, <1>2

\* The answer of the resolver: nothing of the client's is left waiting for it but what
\* an event of its socket will still bring.
LEMMA ReadyDnsAwake ==
    ASSUME NEW s, Good(s), Waiting(s), NEW o \in Outcome, NEW found \in BOOLEAN, NEW P, NEW B, Awake(s, P, B)
    PROVE  Awake(ReadyDns(s, found, o), P, B)
  <1> DEFINE r == [s EXCEPT !.target = TRUE]
             e == Shutdown(s.proxy)
             f == [s EXCEPT !.proxy = e]
             d == Dispatch(r, Empty, o)
  <1>0. ReadyDns(s, found, o) = Settle(IF s.phase = "DnsWait" THEN IF found THEN d ELSE f ELSE s)
    BY DEF ReadyDns
  <1>1. s \in ConnState BY DEF Good
  <1>2. Sending(s, P, B) /\ ReadsP(s, P) BY DEF Awake
  <1>3. CASE s.phase = "DnsWait" /\ found
    <2>1. s.backend = "None" BY <1>3 DEF Waiting
    <2>2. r \in ConnState BY <1>1 DEF ConnState
    <2>3. /\ r.proxyWritable = s.proxyWritable /\ r.session = s.session /\ r.cout = s.cout /\ r.cblk = s.cblk
          /\ r.tin = s.tin /\ r.tend = s.tend /\ r.readBackend = s.readBackend /\ r.readProxy = s.readProxy
          /\ r.proxy = s.proxy /\ r.backend = s.backend /\ r.tcon = s.tcon /\ r.tout = s.tout
          /\ r.sendBuffer = s.sendBuffer /\ r.tblk = s.tblk /\ r.cin = s.cin /\ r.cend = s.cend
          /\ r.phase = s.phase
      BY <1>1 DEF ConnState
    <2> HIDE DEF r
    <2>4. Good(r) /\ Waiting(r) BY <2>2, <2>3 DEF Good, Waiting
    <2>5. Socketed(r) /\ UpFrame(s, r) BY <1>2, <2>3 DEF Sending, Based, Socketed, UpFrame
    <2>6. Delivers(r, d) /\ d.cin = r.cin BY <1>3, <2>3, <2>4, <2>5, EmptyLemma, DispatchAwake
    <2> HIDE DEF d
    <2>7. UpFrame(s, d) /\ Socketed(d) /\ SendsB(d, {}) /\ Good(d) BY <2>5, <2>6, UpFrameTrans DEF Delivers
    <2>8. SendsB(d, B) BY <2>7, DueLess
    <2>9. Sending(d, P, B) BY <1>2, <2>7, <2>8, UpFrameAwake
    <2>10. ReadsP(d, P)
      <3> SUFFICES ASSUME ~IsShutdown(d.proxy), ~IsShutdown(d.backend), "r" \notin P,
                          d.cin # Empty \/ d.cend # "open"
                   PROVE  FALSE
        BY DEF ReadsP
      <3>1. ~IsShutdown(s.proxy) /\ ~IsShutdown(s.backend) /\ (s.cin # Empty \/ s.cend # "open")
        BY <2>1, <2>3, <2>6, <2>7 DEF UpFrame, IsShutdown
      <3>2. s.sendBuffer # Empty BY <1>2, <3>1 DEF ReadsP
      <3> QED BY <1>2, <2>1, <3>2 DEF Sending, Based
    <2>11. Awake(Settle(d), P, B) BY <2>7, <2>9, <2>10, SettleAwake DEF Awake
    <2> QED BY <1>0, <1>3, <2>11
  <1>4. CASE s.phase = "DnsWait" /\ ~found
    <2>1. IsShutdown(e) /\ e \in Status BY Fields, Statuses, StatusLemma
    <2>2. ~Alive(e) /\ e # "Connecting" BY <2>1 DEF IsShutdown, Alive
    <2> HIDE DEF e
    <2>3. f \in ConnState BY <1>1, <2>1 DEF ConnState
    <2>4. /\ f.tin = s.tin /\ f.tend = s.tend /\ f.proxy = e /\ f.backend = s.backend /\ f.tcon = s.tcon
          /\ f.tout = s.tout /\ f.sendBuffer = s.sendBuffer /\ f.tblk = s.tblk
          /\ f.cout = s.cout /\ f.session = s.session
      BY <1>1 DEF ConnState
    <2> HIDE DEF f
    <2>5. Good(f) BY <2>3, <2>4 DEF Good
    <2>6. Based(f) BY <1>2, <2>1, <2>2, <2>4 DEF Sending, Based
    <2>7. SendsB(f, B) BY <1>2, <2>4 DEF Sending, SendsB
    <2>8. Starts(f, P) /\ SendsP(f, P) /\ ReadsP(f, P) /\ ReadsB(f, B)
      BY <2>1, <2>2, <2>4 DEF Starts, SendsP, ReadsP, ReadsB
    <2>9. Awake(f, P, B) BY <2>6, <2>7, <2>8 DEF Awake, Sending
    <2>10. Awake(Settle(f), P, B) BY <2>5, <2>9, SettleAwake
    <2> QED BY <1>0, <1>4, <2>10
  <1>5. CASE s.phase # "DnsWait"
    <2>1. Awake(Settle(s), P, B) BY SettleAwake
    <2> QED BY <1>0, <1>5, <2>1
  <1> QED BY <1>3, <1>4, <1>5

-----------------------------------------------------------------------------
(* ... the steps *)

\* What the client and its socket may do, with the events Q due afterwards.
LEMMA ClientAwake ==
    ASSUME NEW s, NEW t, NEW P, NEW B, NEW Q, Awake(s, P, B),
           t.proxyWritable = s.proxyWritable, t.session = s.session, t.tin = s.tin, t.tend = s.tend,
           t.readProxy = s.readProxy, t.readBackend = s.readBackend, t.proxy = s.proxy,
           t.backend = s.backend, t.tcon = s.tcon, t.tout = s.tout, t.sendBuffer = s.sendBuffer, t.tblk = s.tblk,
           ("r" \in P => "r" \in Q) /\ ("w" \in P => "w" \in Q),
           (t.cin = s.cin /\ t.cend = s.cend) \/ "r" \in Q \/ IsShutdown(s.proxy),
           (t.cout = s.cout /\ t.cblk = s.cblk) \/ "w" \in Q \/ IsShutdown(s.proxy) \/ ~s.cblk,
           s.proxy = "Connecting" => t.cout = Empty
    PROVE  Awake(t, Q, B)
  <1>1. Based(s) /\ Starts(s, P) /\ SendsB(s, B) /\ SendsP(s, P) /\ ReadsP(s, P) /\ ReadsB(s, B)
    BY DEF Awake, Sending
  <1>2. Based(t) BY <1>1 DEF Based
  <1>3. Starts(t, Q) BY <1>1 DEF Starts
  <1>4. SendsB(t, B) BY <1>1 DEF SendsB
  <1>5. SendsP(t, Q) BY <1>1 DEF SendsP, Alive, IsShutdown
  <1>6. ReadsP(t, Q) BY <1>1 DEF ReadsP
  <1>7. ReadsB(t, B) BY <1>1 DEF ReadsB
  <1> QED BY <1>2, <1>3, <1>4, <1>5, <1>6, <1>7 DEF Awake, Sending

\* What the target and its socket may do, with the events D due afterwards.
LEMMA TargetAwake ==
    ASSUME NEW s, NEW t, NEW P, NEW B, NEW D, Awake(s, P, B), s.backend # "None",
           t.proxyWritable = s.proxyWritable, t.session = s.session, t.cin = s.cin, t.cend = s.cend,
           t.readProxy = s.readProxy, t.readBackend = s.readBackend, t.proxy = s.proxy, t.backend = s.backend,
           t.cout = s.cout, t.sendBuffer = s.sendBuffer, t.cblk = s.cblk, t.tcon # "no",
           t.tcon # "up" => t.tcon = s.tcon /\ t.tout = s.tout /\ t.tblk = s.tblk,
           ("r" \in B => "r" \in D) /\ ("w" \in B => "w" \in D),
           (t.tin = s.tin /\ t.tend = s.tend) \/ "r" \in D \/ IsShutdown(s.backend),
           \/ t.tout = s.tout /\ t.tblk = s.tblk /\ t.tcon = s.tcon
           \/ "w" \in D \/ IsShutdown(s.backend) \/ (~s.tblk /\ t.tcon = s.tcon)
    PROVE  Awake(t, P, D)
  <1>1. Based(s) /\ Starts(s, P) /\ SendsB(s, B) /\ SendsP(s, P) /\ ReadsP(s, P) /\ ReadsB(s, B)
    BY DEF Awake, Sending
  <1>2. Based(t) BY <1>1 DEF Based
  <1>3. Starts(t, P) BY <1>1 DEF Starts
  <1>4. SendsB(t, D)
    <2> SUFFICES ASSUME Alive(t.backend), t.sendBuffer # Empty, "w" \notin D \/ t.tcon # "up"
                 PROVE  t.tblk /\ (Len(t.tout) = SockCap \/ t.tcon # "up")
      BY DEF SendsB
    <2>1. Alive(s.backend) /\ s.sendBuffer # Empty /\ ~IsShutdown(s.backend) BY DEF Alive, IsShutdown
    <2>2. CASE t.tcon # "up" BY <1>1, <2>1, <2>2 DEF SendsB
    <2>3. CASE t.tcon = "up"
      <3>1. "w" \notin D /\ "w" \notin B BY <2>3
      <3>2. s.tblk /\ (Len(s.tout) = SockCap \/ s.tcon # "up") BY <1>1, <2>1, <3>1 DEF SendsB
      <3> QED BY <2>1, <2>3, <3>1, <3>2
    <2> QED BY <2>2, <2>3
  <1>5. SendsP(t, P) BY <1>1 DEF SendsP
  <1>6. ReadsP(t, P) BY <1>1 DEF ReadsP
  <1>7. ReadsB(t, D) BY <1>1 DEF ReadsB, Alive, IsShutdown
  <1> QED BY <1>2, <1>3, <1>4, <1>5, <1>6, <1>7 DEF Awake, Sending

\* The events of y that are due after x has been handled.
DueBut(y, x) == IF y = x THEN Due(y) \ batch[y] ELSE Due(y)

\* Handled events are not due any more; the others are, for a socket that is registered.
LEMMA DueAfter ==
    ASSUME LoopOK, NEW x \in Source, NEW y \in Source, batch' = [batch EXCEPT ![x] = {}],
           y \in ev => y \in ev'
    PROVE  DueBut(y, x) \subseteq Due(y)'
  <1>1. Due(y)' = IF y \in ev' THEN {"r", "w"} ELSE batch'[y] BY DEF Due
  <1>2. batch \in [Source -> SUBSET {"r", "w"}] BY DEF LoopOK
  <1>3. batch'[y] = IF y = x THEN {} ELSE batch[y] BY <1>2
  <1>4. batch[y] \subseteq {"r", "w"} BY <1>2
  <1> QED BY <1>1, <1>3, <1>4 DEF DueBut, Due

\* do_conn_event after ready: what is due still is, or its socket has left the poll.
LEMMA AfterReadyAwake ==
    ASSUME LoopOK, NEW s, NEW x \in Source, AfterReady(s, x), ~polling,
           Awake(s, DueBut("proxy", x), DueBut("backend", x))
    PROVE  NInv'
  <1>1. /\ c' = s /\ batch' = [batch EXCEPT ![x] = {}] /\ polling' = polling
        /\ "proxy" \in ev /\ s.proxy # "Deregistered" => "proxy" \in ev'
        /\ "backend" \in ev /\ s.backend \notin {"None", "Deregistered"} => "backend" \in ev'
    BY DEF AfterReady
  <1>2. DueBut("proxy", x) \subseteq Due("proxy")' \/ IsShutdown(s.proxy)
    <2>1. CASE s.proxy = "Deregistered" BY <2>1 DEF IsShutdown
    <2>2. CASE s.proxy # "Deregistered"
      <3>1. "proxy" \in Source /\ ("proxy" \in ev => "proxy" \in ev') BY <1>1, <2>2 DEF Source
      <3> QED BY <1>1, <3>1, DueAfter
    <2> QED BY <2>1, <2>2
  <1>3. DueBut("backend", x) \subseteq Due("backend")' \/ s.backend \in {"None", "Deregistered"}
    <2>1. CASE s.backend \notin {"None", "Deregistered"}
      <3>1. "backend" \in Source /\ ("backend" \in ev => "backend" \in ev') BY <1>1, <2>1 DEF Source
      <3> QED BY <1>1, <3>1, DueAfter
    <2> QED BY <2>1
  <1> DEFINE P == DueBut("proxy", x)
             B == DueBut("backend", x)
             Q == Due("proxy")'
             D == Due("backend")'
  <1>4. P \subseteq Q \/ IsShutdown(s.proxy) BY <1>2
  <1>5. B \subseteq D \/ s.backend \in {"None", "Deregistered"} BY <1>3
  <1>6. Awake(s, P, B) OBVIOUS
  <1>7. Awake(c, Due("proxy"), Due("backend"))' <=> Awake(s, Q, D) BY <1>1 DEF Awake, Sending, Based, Starts, SendsB, SendsP, ReadsP, ReadsB
  <1> HIDE DEF P, B, Q, D
  <1>8. (("r" \in P => "r" \in Q) /\ ("w" \in P => "w" \in Q)) \/ IsShutdown(s.proxy) BY <1>4
  <1>9. (("r" \in B => "r" \in D) /\ ("w" \in B => "w" \in D)) \/ s.backend \in {"None", "Deregistered"} BY <1>5
  <1>10. Awake(s, Q, D) BY <1>6, <1>8, <1>9, DueMore
  <1> QED BY <1>1, <1>7, <1>10 DEF NInv

LEMMA NInit == Init => NInv
  <1> SUFFICES ASSUME Init PROVE NInv OBVIOUS
  <1>1. c = NewConn /\ "proxy" \in ev /\ \A x \in Source : batch[x] = {} BY DEF Init
  <1>2. Due("proxy") = {"r", "w"} BY <1>1 DEF Due
  <1>3. Awake(c, Due("proxy"), Due("backend"))
    BY <1>1, <1>2 DEF Awake, Sending, Based, Starts, SendsB, SendsP, ReadsP, ReadsB, NewConn, Alive, IsShutdown
  <1> QED BY <1>1, <1>3 DEF NInv

\* poll: the flags epoll reports are the ones there is something to do for, and a
\* full socket is marked.
LEMMA PollAwake ==
    ASSUME IInv, NInv, Poll PROVE NInv'
  <1>0. Good(c) /\ LoopOK /\ c \in ConnState BY DEF IInv, Good
  <1>1. polling /\ ~polling' /\ ev' = {} /\ gone' = gone BY DEF Poll
  <1>2. SUFFICES ASSUME ~gone PROVE Awake(c, Due("proxy"), Due("backend"))'
    BY <1>1 DEF NInv
  <1> DEFINE a == "proxy" \in ev /\ Len(c.cout) = SockCap
             b == "backend" \in ev /\ Len(c.tout) = SockCap
             t == [c EXCEPT !.cblk = @ \/ a, !.tblk = @ \/ b]
             P == Due("proxy")
             B == Due("backend")
             Q == Due("proxy")'
             D == Due("backend")'
  <1>3. c' = t BY DEF Poll
  <1>4. Awake(c, P, B) /\ (\A x \in Source : batch[x] = {}) BY <1>1, <1>2 DEF NInv
  <1>5. P = (IF "proxy" \in ev THEN {"r", "w"} ELSE {}) /\ B = (IF "backend" \in ev THEN {"r", "w"} ELSE {})
    BY <1>4 DEF Due, Source
  <1>6. Q = (IF "proxy" \in ev THEN Flags("proxy") ELSE {}) /\ D = (IF "backend" \in ev THEN Flags("backend") ELSE {})
    <2>1. \A x \in Source : batch'[x] = IF x \in ev THEN Flags(x) ELSE {} BY DEF Poll
    <2>2. Q = batch'["proxy"] /\ D = batch'["backend"] BY <1>1 DEF Due
    <2> QED BY <2>1, <2>2 DEF Source
  <1>7. Awake(c, Due("proxy"), Due("backend"))' <=> Awake(t, Q, D)
    BY <1>3 DEF Awake, Sending, Based, Starts, SendsB, SendsP, ReadsP, ReadsB
  <1>8. /\ ("proxy" \in ev /\ "r" \notin Q) => c.cin = Empty /\ c.cend = "open"
        /\ ("proxy" \in ev /\ "w" \notin Q) => ~(Len(c.cout) < SockCap)
        /\ ("backend" \in ev /\ "r" \notin D) => c.tin = Empty /\ c.tend = "open"
        /\ ("backend" \in ev /\ "w" \notin D) => ~(c.tcon = "up" /\ Len(c.tout) < SockCap)
    BY <1>6 DEF Flags
  <1> HIDE DEF P, B, Q, D
  <1>9. /\ Len(c.cout) \in Nat /\ Len(c.cout) <= SockCap /\ Len(c.tout) \in Nat /\ Len(c.tout) <= SockCap
        /\ SockCap \in Nat \ {0}
    BY <1>0, Fields
  <1>10. /\ ("proxy" \in ev /\ "w" \notin Q) => a
         /\ ("backend" \in ev /\ "w" \notin D /\ c.tcon = "up") => b
    BY <1>8, <1>9
  <1>a. a \in BOOLEAN /\ b \in BOOLEAN /\ (a => Len(c.cout) = SockCap) /\ (b => Len(c.tout) = SockCap) OBVIOUS
  <1> HIDE DEF a, b
  <1>11. /\ t.proxyWritable = c.proxyWritable /\ t.session = c.session /\ t.cout = c.cout /\ t.cblk = (c.cblk \/ a)
         /\ t.tin = c.tin /\ t.tend = c.tend /\ t.readBackend = c.readBackend /\ t.readProxy = c.readProxy
         /\ t.proxy = c.proxy /\ t.backend = c.backend /\ t.tcon = c.tcon /\ t.tout = c.tout
         /\ t.sendBuffer = c.sendBuffer /\ t.tblk = (c.tblk \/ b) /\ t.cin = c.cin /\ t.cend = c.cend
    BY <1>0, <1>a DEF ConnState
  <1> HIDE DEF t
  <1>12. Based(c) /\ Starts(c, P) /\ SendsB(c, B) /\ SendsP(c, P) /\ ReadsP(c, P) /\ ReadsB(c, B)
    BY <1>4 DEF Awake, Sending
  <1>13. Based(t) BY <1>11, <1>12 DEF Based
  <1>14. Starts(t, Q)
    <2> SUFFICES ASSUME c.proxy = "Connecting" PROVE "w" \in Q BY <1>11 DEF Starts
    <2>1. "w" \in P /\ Len(c.cout) = 0 BY <1>12, EmptyLemma DEF Starts, Based
    <2>2. "proxy" \in ev BY <1>5, <2>1
    <2> QED BY <1>9, <1>10, <1>a, <2>1, <2>2
  <1>15. SendsP(t, Q)
    <2> SUFFICES ASSUME Alive(c.proxy), c.session # Empty, "w" \notin Q
                 PROVE  t.cblk /\ Len(t.cout) = SockCap
      BY <1>11 DEF SendsP
    <2>1. CASE "proxy" \in ev BY <1>10, <1>11, <1>a, <2>1
    <2>2. CASE "proxy" \notin ev
      <3>1. "w" \notin P BY <1>5, <2>2
      <3> QED BY <1>11, <1>12, <3>1 DEF SendsP
    <2> QED BY <2>1, <2>2
  <1>16. ReadsP(t, Q)
    <2>1. CASE "proxy" \in ev BY <1>8, <1>11, <2>1 DEF ReadsP
    <2>2. CASE "proxy" \notin ev
      <3>1. "r" \notin P BY <1>5, <2>2
      <3> QED BY <1>11, <1>12, <3>1 DEF ReadsP
    <2> QED BY <2>1, <2>2
  <1>17. SendsB(t, D)
    <2> SUFFICES ASSUME Alive(c.backend), c.sendBuffer # Empty, "w" \notin D \/ c.tcon # "up"
                 PROVE  t.tblk /\ (Len(t.tout) = SockCap \/ t.tcon # "up")
      BY <1>11 DEF SendsB
    <2>1. CASE c.tcon # "up" BY <1>11, <1>12, <2>1 DEF SendsB
    <2>2. CASE c.tcon = "up" /\ "backend" \in ev BY <1>10, <1>11, <1>a, <2>2
    <2>3. CASE c.tcon = "up" /\ "backend" \notin ev
      <3>1. "w" \notin B BY <1>5, <2>3
      <3> QED BY <1>11, <1>12, <3>1 DEF SendsB
    <2> QED BY <2>1, <2>2, <2>3
  <1>18. ReadsB(t, D)
    <2>1. CASE "backend" \in ev BY <1>8, <1>11, <2>1 DEF ReadsB
    <2>2. CASE "backend" \notin ev
      <3>1. "r" \notin B BY <1>5, <2>2
      <3> QED BY <1>11, <1>12, <3>1 DEF ReadsB
    <2> QED BY <2>1, <2>2
  <1>19. Awake(t, Q, D) BY <1>13, <1>14, <1>15, <1>16, <1>17, <1>18 DEF Awake, Sending
  <1> QED BY <1>7, <1>19

\* A step of the client: the connection differs from before in what is its own.
LEMMA ClientStepAwake ==
    ASSUME IInv, NInv, UNCHANGED sys, ~gone, NEW t, c' = t,
           t.proxyWritable = c.proxyWritable, t.session = c.session, t.tin = c.tin, t.tend = c.tend,
           t.readProxy = c.readProxy, t.readBackend = c.readBackend, t.proxy = c.proxy,
           t.backend = c.backend, t.tcon = c.tcon, t.tout = c.tout, t.sendBuffer = c.sendBuffer, t.tblk = c.tblk,
           c.proxy = "Connecting" => t.cout = Empty,
           \/ Raise("proxy")
           \/ UNCHANGED ev /\ t.cin = c.cin /\ t.cend = c.cend /\ ~c.cblk
    PROVE  NInv'
  <1> DEFINE P == Due("proxy")
             B == Due("backend")
             Q == Due("proxy")'
             D == Due("backend")'
  <1>1. batch' = batch /\ polling' = polling /\ gone' = gone BY DEF sys
  <1>2. Awake(c, P, B) /\ (polling => \A x \in Source : batch[x] = {}) BY DEF NInv
  <1>3. "backend" \in ev' <=> "backend" \in ev BY DEF Raise
  <1>4. D = B BY <1>1, <1>3 DEF Due
  <1>5. batch["proxy"] \subseteq {"r", "w"} BY DEF IInv, LoopOK, Source
  <1>6. P \subseteq Q /\ P \subseteq {"r", "w"}
    <2>1. "proxy" \in ev => "proxy" \in ev' BY DEF Raise
    <2> QED BY <1>1, <1>5, <2>1 DEF Due
  <1>7. Raise("proxy") => Q = {"r", "w"} \/ IsShutdown(c.proxy)
    <2>1. ASSUME Raise("proxy"), c.proxy # "Deregistered" PROVE Q = {"r", "w"}
      <3>1. "proxy" \in ev' BY <2>1 DEF Raise, Registered
      <3> QED BY <3>1 DEF Due
    <2> QED BY <2>1 DEF IsShutdown
  <1>8. Awake(c, Due("proxy"), Due("backend"))' <=> Awake(t, Q, D)
    BY DEF Awake, Sending, Based, Starts, SendsB, SendsP, ReadsP, ReadsB
  <1> HIDE DEF P, B, Q, D
  <1>9. ("r" \in P => "r" \in Q) /\ ("w" \in P => "w" \in Q) BY <1>6
  <1>10. (t.cin = c.cin /\ t.cend = c.cend) \/ "r" \in Q \/ IsShutdown(c.proxy) BY <1>7
  <1>11. (t.cout = c.cout /\ t.cblk = c.cblk) \/ "w" \in Q \/ IsShutdown(c.proxy) \/ ~c.cblk BY <1>7
  <1>12. Awake(t, Q, B) BY <1>2, <1>9, <1>10, <1>11, ClientAwake
  <1> QED BY <1>1, <1>2, <1>4, <1>8, <1>12 DEF NInv

\* A step of the target, likewise.
LEMMA TargetStepAwake ==
    ASSUME IInv, NInv, UNCHANGED sys, ~gone, NEW t, c' = t, c.backend # "None",
           t.proxyWritable = c.proxyWritable, t.session = c.session, t.cin = c.cin, t.cend = c.cend,
           t.readProxy = c.readProxy, t.readBackend = c.readBackend, t.proxy = c.proxy, t.backend = c.backend,
           t.cout = c.cout, t.sendBuffer = c.sendBuffer, t.cblk = c.cblk, t.tcon # "no",
           t.tcon # "up" => t.tcon = c.tcon /\ t.tout = c.tout /\ t.tblk = c.tblk,
           \/ Raise("backend")
           \/ UNCHANGED ev /\ t.tin = c.tin /\ t.tend = c.tend /\ t.tcon = c.tcon /\ ~c.tblk
    PROVE  NInv'
  <1> DEFINE P == Due("proxy")
             B == Due("backend")
             Q == Due("proxy")'
             D == Due("backend")'
  <1>1. batch' = batch /\ polling' = polling /\ gone' = gone BY DEF sys
  <1>2. Awake(c, P, B) /\ (polling => \A x \in Source : batch[x] = {}) BY DEF NInv
  <1>3. "proxy" \in ev' <=> "proxy" \in ev BY DEF Raise
  <1>4. Q = P BY <1>1, <1>3 DEF Due
  <1>5. batch["backend"] \subseteq {"r", "w"} BY DEF IInv, LoopOK, Source
  <1>6. B \subseteq D
    <2>1. "backend" \in ev => "backend" \in ev' BY DEF Raise
    <2> QED BY <1>1, <1>5, <2>1 DEF Due
  <1>7. Raise("backend") => D = {"r", "w"} \/ IsShutdown(c.backend)
    <2>1. ASSUME Raise("backend"), c.backend # "Deregistered" PROVE D = {"r", "w"}
      <3>1. "backend" \in ev' BY <2>1 DEF Raise, Registered
      <3> QED BY <3>1 DEF Due
    <2> QED BY <2>1 DEF IsShutdown
  <1>8. Awake(c, Due("proxy"), Due("backend"))' <=> Awake(t, Q, D)
    BY DEF Awake, Sending, Based, Starts, SendsB, SendsP, ReadsP, ReadsB
  <1> HIDE DEF P, B, Q, D
  <1>9. ("r" \in B => "r" \in D) /\ ("w" \in B => "w" \in D) BY <1>6
  <1>10. (t.tin = c.tin /\ t.tend = c.tend) \/ "r" \in D \/ IsShutdown(c.backend) BY <1>7
  <1>11. \/ t.tout = c.tout /\ t.tblk = c.tblk /\ t.tcon = c.tcon
         \/ "w" \in D \/ IsShutdown(c.backend) \/ (~c.tblk /\ t.tcon = c.tcon)
    BY <1>7
  <1>12. Awake(t, P, D) BY <1>2, <1>9, <1>10, <1>11, TargetAwake
  <1> QED BY <1>1, <1>2, <1>4, <1>8, <1>12 DEF NInv

\* Nothing that is due changes.
LEMMA StillAwake ==
    ASSUME NInv, UNCHANGED <<c, batch, gone>>, polling' = polling \/ \A x \in Source : batch[x] = {},
           \A x \in {"proxy", "backend"} : x \in ev' <=> x \in ev
    PROVE  NInv'
  <1>1. Due("proxy")' = Due("proxy") /\ Due("backend")' = Due("backend") BY DEF Due
  <1>2. Awake(c, Due("proxy"), Due("backend"))' <=> Awake(c, Due("proxy"), Due("backend"))
    BY <1>1 DEF Awake, Sending, Based, Starts, SendsB, SendsP, ReadsP, ReadsB
  <1> QED BY <1>2 DEF NInv

\* A connection that is out of the table stalls nobody.
LEMMA GoneAwake ==
    ASSUME NInv, gone', \/ polling' = polling /\ \A x \in Source : batch'[x] = batch[x]
                        \/ \A x \in Source : batch'[x] = {}
                        \/ ~polling'
    PROVE  NInv'
  BY DEF NInv

LEMMA NStep ==
    ASSUME IInv, NInv, [Next]_vars
    PROVE  NInv'
  <1>0. Good(c) /\ Waiting(c) /\ LoopOK /\ c \in ConnState /\ batch \in [Source -> SUBSET {"r", "w"}]
    BY DEF IInv, Good, LoopOK
  <1>a. ~gone => Awake(c, Due("proxy"), Due("backend")) BY DEF NInv
  <1>1. CASE Poll BY <1>1, PollAwake
  <1>2. CASE HandleProxy
    <2>1. PICK o \in Outcome : AfterReady(ReadyProxy(c, batch["proxy"], o), "proxy") BY <1>2 DEF HandleProxy
    <2>2. ~gone /\ ~polling BY <1>2 DEF HandleProxy
    <2> DEFINE s == ReadyProxy(c, batch["proxy"], o)
               P == Due("proxy")
               B == Due("backend")
               fl == batch["proxy"]
    <2>3. Awake(c, P, B) BY <1>a, <2>2
    <2>4. DueBut("proxy", "proxy") = P \ fl /\ DueBut("backend", "proxy") = B BY DEF DueBut
    <2> HIDE DEF P, B, fl
    <2>5. Awake(ReadyProxy(c, fl, o), P \ fl, B) BY <1>0, <2>3, ReadyProxyAwake
    <2>6. Awake(s, DueBut("proxy", "proxy"), DueBut("backend", "proxy")) BY <2>4, <2>5 DEF fl
    <2> HIDE DEF s
    <2>7. AfterReady(s, "proxy") BY <2>1 DEF s
    <2> QED BY <1>0, <2>2, <2>6, <2>7, AfterReadyAwake DEF Source
  <1>3. CASE HandleBackend
    <2>1. PICK o \in Outcome : AfterReady(ReadyBackend(c, batch["backend"], o), "backend") BY <1>3 DEF HandleBackend
    <2>2. ~gone /\ ~polling BY <1>3 DEF HandleBackend
    <2> DEFINE s == ReadyBackend(c, batch["backend"], o)
               P == Due("proxy")
               B == Due("backend")
               fl == batch["backend"]
    <2>3. Awake(c, P, B) BY <1>a, <2>2
    <2>4. DueBut("proxy", "backend") = P /\ DueBut("backend", "backend") = B \ fl BY DEF DueBut
    <2> HIDE DEF P, B, fl
    <2>5. Awake(ReadyBackend(c, fl, o), P, B \ fl) BY <1>0, <2>3, ReadyBackendAwake
    <2>6. Awake(s, DueBut("proxy", "backend"), DueBut("backend", "backend")) BY <2>4, <2>5 DEF fl
    <2> HIDE DEF s
    <2>7. AfterReady(s, "backend") BY <2>1 DEF s
    <2> QED BY <1>0, <2>2, <2>6, <2>7, AfterReadyAwake DEF Source
  <1>4. CASE HandleDns
    <2>1. PICK o \in Outcome : AfterReady(ReadyDns(c, dns = "found", o), "resolver") BY <1>4 DEF HandleDns
    <2>2. ~gone /\ ~polling BY <1>4 DEF HandleDns
    <2> DEFINE f == dns = "found"
               s == ReadyDns(c, f, o)
               P == Due("proxy")
               B == Due("backend")
    <2>3. Awake(c, P, B) BY <1>a, <2>2
    <2>4. DueBut("proxy", "resolver") = P /\ DueBut("backend", "resolver") = B BY DEF DueBut
    <2>8. AfterReady(s, "resolver") /\ f \in BOOLEAN BY <2>1
    <2> HIDE DEF P, B, f
    <2>5. Awake(s, P, B) BY <1>0, <2>3, <2>8, ReadyDnsAwake
    <2>6. Awake(s, DueBut("proxy", "resolver"), DueBut("backend", "resolver")) BY <2>4, <2>5
    <2> HIDE DEF s
    <2> QED BY <1>0, <2>2, <2>6, <2>8, AfterReadyAwake DEF Source
  <1>5. CASE DnsNotFound BY <1>5, GoneAwake DEF DnsNotFound
  <1>6. CASE RemoveClosed
    <2>1. CASE gone \/ removed BY <1>6, <2>1, GoneAwake DEF RemoveClosed
    <2>2. CASE ~(gone \/ removed)
      <3>1. gone' = gone BY <1>6, <2>2 DEF RemoveClosed, IInv, LoopOK
      <3>2. UNCHANGED <<c, batch, ev>> /\ \A x \in Source : batch[x] = {} BY <1>6, <2>2 DEF RemoveClosed
      <3> QED BY <3>1, <3>2, StillAwake
    <2> QED BY <2>1, <2>2
  <1>7. CASE CheckTimeout BY <1>7, GoneAwake DEF CheckTimeout
  <1>8. CASE ResolverThread BY <1>8, StillAwake DEF ResolverThread, Raise
  <1>9. CASE ClientSend
    <2> DEFINE q == Append(c.cin, upSent)
               t == [c EXCEPT !.cin = q]
    <2>1. c' = t /\ ~gone /\ Raise("proxy") /\ UNCHANGED sys BY <1>9 DEF ClientSend
    <2> HIDE DEF q
    <2>2. /\ t.proxyWritable = c.proxyWritable /\ t.session = c.session /\ t.tin = c.tin /\ t.tend = c.tend
          /\ t.readProxy = c.readProxy /\ t.readBackend = c.readBackend /\ t.proxy = c.proxy
          /\ t.backend = c.backend /\ t.tcon = c.tcon /\ t.tout = c.tout /\ t.sendBuffer = c.sendBuffer
          /\ t.tblk = c.tblk /\ t.cout = c.cout
      BY <1>0 DEF ConnState
    <2>3. c.proxy = "Connecting" => c.cout = Empty BY <1>a, <2>1 DEF Awake, Sending, Based
    <2> HIDE DEF t
    <2> QED BY <2>1, <2>2, <2>3, ClientStepAwake
  <1>10. CASE ClientClose
    <2>0. PICK how \in Close : c' = [c EXCEPT !.cend = how] BY <1>10 DEF ClientClose
    <2> DEFINE t == [c EXCEPT !.cend = how]
    <2>1. c' = t /\ ~gone /\ Raise("proxy") /\ UNCHANGED sys BY <1>10, <2>0 DEF ClientClose
    <2>2. /\ t.proxyWritable = c.proxyWritable /\ t.session = c.session /\ t.tin = c.tin /\ t.tend = c.tend
          /\ t.readProxy = c.readProxy /\ t.readBackend = c.readBackend /\ t.proxy = c.proxy
          /\ t.backend = c.backend /\ t.tcon = c.tcon /\ t.tout = c.tout /\ t.sendBuffer = c.sendBuffer
          /\ t.tblk = c.tblk /\ t.cout = c.cout
      BY <1>0 DEF ConnState
    <2>3. c.proxy = "Connecting" => c.cout = Empty BY <1>a, <2>1 DEF Awake, Sending, Based
    <2> HIDE DEF t
    <2> QED BY <2>1, <2>2, <2>3, ClientStepAwake
  <1>11. CASE ClientRecv
    <2> DEFINE q == Tail(c.cout)
               t == [c EXCEPT !.cout = q, !.cblk = FALSE]
    <2>1. /\ c' = t /\ UNCHANGED sys /\ c.cout # Empty
          /\ Raise("proxy") \/ (UNCHANGED ev /\ ~c.cblk)
      BY <1>11 DEF ClientRecv
    <2> HIDE DEF q
    <2>2. /\ t.proxyWritable = c.proxyWritable /\ t.session = c.session /\ t.tin = c.tin /\ t.tend = c.tend
          /\ t.readProxy = c.readProxy /\ t.readBackend = c.readBackend /\ t.proxy = c.proxy
          /\ t.backend = c.backend /\ t.tcon = c.tcon /\ t.tout = c.tout /\ t.sendBuffer = c.sendBuffer
          /\ t.tblk = c.tblk /\ t.cin = c.cin /\ t.cend = c.cend
      BY <1>0 DEF ConnState
    <2>3. ~gone => c.proxy # "Connecting" BY <1>a, <2>1 DEF Awake, Sending, Based
    <2> HIDE DEF t
    <2>4. CASE gone BY <2>1, <2>4, GoneAwake DEF sys
    <2>5. CASE ~gone BY <2>1, <2>2, <2>3, <2>5, ClientStepAwake
    <2> QED BY <2>4, <2>5
  <1>12. CASE TargetAnswer
    <2>0. /\ ~gone /\ Raise("backend") /\ UNCHANGED sys /\ c.tcon = "connecting"
          /\ \/ c' = [c EXCEPT !.tcon = "up", !.tblk = FALSE]
             \/ c' = [c EXCEPT !.tend = "rst"]
      BY <1>12 DEF TargetAnswer
    <2>3. c.backend # "None" BY <1>a, <2>0 DEF Awake, Sending, Based
    <2>4. CASE c' = [c EXCEPT !.tcon = "up", !.tblk = FALSE]
      <3> DEFINE t == [c EXCEPT !.tcon = "up", !.tblk = FALSE]
      <3>1. c' = t BY <2>4
      <3>2. /\ t.proxyWritable = c.proxyWritable /\ t.session = c.session /\ t.cin = c.cin /\ t.cend = c.cend
            /\ t.readProxy = c.readProxy /\ t.readBackend = c.readBackend /\ t.proxy = c.proxy
            /\ t.backend = c.backend /\ t.cout = c.cout /\ t.sendBuffer = c.sendBuffer /\ t.cblk = c.cblk
            /\ t.tcon = "up"
        BY <1>0 DEF ConnState
      <3> HIDE DEF t
      <3> QED BY <2>0, <2>3, <3>1, <3>2, TargetStepAwake
    <2>5. CASE c' = [c EXCEPT !.tend = "rst"]
      <3> DEFINE t == [c EXCEPT !.tend = "rst"]
      <3>1. c' = t BY <2>5
      <3>2. /\ t.proxyWritable = c.proxyWritable /\ t.session = c.session /\ t.cin = c.cin /\ t.cend = c.cend
            /\ t.readProxy = c.readProxy /\ t.readBackend = c.readBackend /\ t.proxy = c.proxy
            /\ t.backend = c.backend /\ t.cout = c.cout /\ t.sendBuffer = c.sendBuffer /\ t.cblk = c.cblk
            /\ t.tcon = c.tcon /\ t.tout = c.tout /\ t.tblk = c.tblk
        BY <1>0 DEF ConnState
      <3> HIDE DEF t
      <3> QED BY <2>0, <2>3, <3>1, <3>2, TargetStepAwake
    <2> QED BY <2>0, <2>4, <2>5
  <1>13. CASE TargetSend
    <2> DEFINE q == Append(c.tin, downSent + 1)
               t == [c EXCEPT !.tin = q]
    <2>1. c' = t /\ ~gone /\ Raise("backend") /\ UNCHANGED sys /\ c.tcon = "up" BY <1>13 DEF TargetSend
    <2> HIDE DEF q
    <2>2. /\ t.proxyWritable = c.proxyWritable /\ t.session = c.session /\ t.cin = c.cin /\ t.cend = c.cend
          /\ t.readProxy = c.readProxy /\ t.readBackend = c.readBackend /\ t.proxy = c.proxy
          /\ t.backend = c.backend /\ t.cout = c.cout /\ t.sendBuffer = c.sendBuffer /\ t.cblk = c.cblk
          /\ t.tcon = c.tcon
      BY <1>0 DEF ConnState
    <2>3. c.backend # "None" BY <1>a, <2>1 DEF Awake, Sending, Based
    <2> HIDE DEF t
    <2> QED BY <2>1, <2>2, <2>3, TargetStepAwake
  <1>14. CASE TargetClose
    <2>0. PICK how \in {"fin", "rst"} : c' = [c EXCEPT !.tend = how] BY <1>14 DEF TargetClose
    <2> DEFINE t == [c EXCEPT !.tend = how]
    <2>1. c' = t /\ ~gone /\ Raise("backend") /\ UNCHANGED sys /\ c.tcon = "up" BY <1>14, <2>0 DEF TargetClose
    <2>2. /\ t.proxyWritable = c.proxyWritable /\ t.session = c.session /\ t.cin = c.cin /\ t.cend = c.cend
          /\ t.readProxy = c.readProxy /\ t.readBackend = c.readBackend /\ t.proxy = c.proxy
          /\ t.backend = c.backend /\ t.cout = c.cout /\ t.sendBuffer = c.sendBuffer /\ t.cblk = c.cblk
          /\ t.tcon = c.tcon
      BY <1>0 DEF ConnState
    <2>3. c.backend # "None" BY <1>a, <2>1 DEF Awake, Sending, Based
    <2> HIDE DEF t
    <2> QED BY <2>1, <2>2, <2>3, TargetStepAwake
  <1>15. CASE TargetRecv
    <2> DEFINE q == Tail(c.tout)
               t == [c EXCEPT !.tout = q, !.tblk = FALSE]
    <2>1. /\ c' = t /\ UNCHANGED sys /\ c.tout # Empty
          /\ Raise("backend") \/ (UNCHANGED ev /\ ~c.tblk)
      BY <1>15 DEF TargetRecv
    <2> HIDE DEF q
    <2>2. /\ t.proxyWritable = c.proxyWritable /\ t.session = c.session /\ t.cin = c.cin /\ t.cend = c.cend
          /\ t.readProxy = c.readProxy /\ t.readBackend = c.readBackend /\ t.proxy = c.proxy
          /\ t.backend = c.backend /\ t.cout = c.cout /\ t.sendBuffer = c.sendBuffer /\ t.cblk = c.cblk
          /\ t.tcon = c.tcon /\ t.tin = c.tin /\ t.tend = c.tend
      BY <1>0 DEF ConnState
    <2>3. ~gone => c.tcon = "up" /\ c.backend # "None" BY <1>a, <2>1 DEF Awake, Sending, Based
    <2> HIDE DEF t
    <2>4. CASE gone BY <2>1, <2>4, GoneAwake DEF sys
    <2>5. CASE ~gone BY <2>1, <2>2, <2>3, <2>5, TargetStepAwake
    <2> QED BY <2>4, <2>5
  <1>16. CASE UNCHANGED vars BY <1>16, StillAwake DEF vars
  <1> QED BY <1>1, <1>2, <1>3, <1>4, <1>5, <1>6, <1>7, <1>8, <1>9, <1>10, <1>11, <1>12,
             <1>13, <1>14, <1>15, <1>16 DEF Next, Loop

\* What is awake does not stall.
LEMMA AwakeNoStall ==
    ASSUME IInv, NInv PROVE NoStall
  <1>0. /\ c.proxy \in Status /\ (c.backend # "None" => c.backend \in Status)
        /\ c.tcon \in {"no", "connecting", "up"}
    BY Fields DEF IInv, Good, ConnState
  <1>1. CASE gone BY <1>1 DEF NoStall, NoStallUp, NoStallDown, NoStallSend
  <1>2. CASE ~gone
    <2> DEFINE P == Due("proxy")
               B == Due("backend")
    <2>1. Awake(c, P, B) BY <1>2 DEF NInv
    <2>2. /\ ~Pending("proxy") => "r" \notin P /\ "w" \notin P
          /\ ~Pending("backend") => "r" \notin B /\ "w" \notin B
      BY DEF Pending, Due
    <2> HIDE DEF P, B
    <2>3. Based(c) /\ Starts(c, P) /\ SendsB(c, B) /\ SendsP(c, P) /\ ReadsP(c, P) /\ ReadsB(c, B)
      BY <2>1 DEF Awake, Sending
    <2>4. ~IsShutdown(c.backend) /\ c.sendBuffer # Empty => Alive(c.backend)
      BY <1>0, <2>3, Statuses DEF Based
    <2>5. Alive(c.backend) => c.tcon # "no" BY <2>3 DEF Based, Alive
    <2>6. (Alive(c.backend) /\ c.sendBuffer # Empty /\ ~Pending("backend"))
            => c.tblk /\ (Len(c.tout) = SockCap \/ c.tcon = "connecting")
      BY <1>0, <2>2, <2>3, <2>5 DEF SendsB
    <2>7. (Alive(c.proxy) /\ c.session # Empty /\ ~Pending("proxy")) => c.cblk /\ Len(c.cout) = SockCap
      BY <2>2, <2>3 DEF SendsP
    <2>8. NoStallUp BY <2>2, <2>3, <2>4, <2>6 DEF NoStallUp, ReadsP
    <2>9. NoStallDown
      <3> SUFFICES ASSUME Alive(c.backend), ~Pending("backend"), c.tin # Empty \/ c.tend # "open",
                          ~IsShutdown(c.proxy)
                   PROVE  c.readBackend /\ (Pending("proxy") \/ Len(c.cout) = SockCap)
        BY DEF NoStallDown
      <3>1. c.readBackend /\ (c.proxy = "Connecting" \/ c.session # Empty) BY <2>2, <2>3 DEF ReadsB
      <3>2. CASE c.proxy = "Connecting" BY <2>2, <2>3, <3>1, <3>2 DEF Starts
      <3>3. CASE c.proxy # "Connecting"
        <4>1. Alive(c.proxy) BY <1>0, <3>3, Statuses
        <4> QED BY <2>7, <3>1, <3>3, <4>1
      <3> QED BY <3>2, <3>3
    <2>10. NoStallSend BY <2>6, <2>7 DEF NoStallSend
    <2> QED BY <2>8, <2>9, <2>10 DEF NoStall
  <1> QED BY <1>1, <1>2

\* No wake-up is lost: for every buffer size and number of units, whatever ready leaves
\* unread or unsent is remembered in read_proxy, read_backend or a queue, and an edge of
\* the socket it waits for is still to come.
THEOREM NoLostWakeUp == Spec => []NoStall
  <1>1. Init => IInv /\ NInv BY InitLemma, NInit
  <1>2. IInv /\ NInv /\ [Next]_vars => (IInv /\ NInv)' BY StepLemma, NStep
  <1>3. IInv /\ NInv => NoStall BY AwakeNoStall
  <1> QED BY <1>1, <1>2, <1>3, PTL DEF Spec

-----------------------------------------------------------------------------
(* The relay: the invariant *)

\* The first unit of the payload.
First == IF req = "none" THEN 0 ELSE 1

\* q counts up from a.
Run(q, a) == \A k \in 1 .. Len(q) : q[k] = a + k - 1

\* The line towards the target, with the buffer h in the hand of dispatch.
UpLine(s, h) == targetGot \o s.tout \o s.sendBuffer \o s.data \o h

\* The line towards the client.
DownLine(s) == clientGot \o s.cout \o s.session

\* The number of the unit the client's socket delivers next.
ReadUpTo(s) == upSent - Len(s.cin)

WholeUp(s, h) == First + Len(UpLine(s, h)) = ReadUpTo(s)
WholeDown(s)  == Len(DownLine(s)) + Len(s.tin) = downSent

UpOrder(s, h) ==
    /\ Run(UpLine(s, h), First) /\ Run(s.cin, ReadUpTo(s))
    /\ ReadUpTo(s) \in Nat

DownOrder(s) ==
    /\ Run(DownLine(s), 1) /\ Run(s.tin, downSent - Len(s.tin) + 1)
    /\ Len(DownLine(s)) + Len(s.tin) <= downSent

\* When units of the client may be dropped: the records do not decrypt, the
\* backend is closed, or it could not be opened.
Excused(s) ==
    \/ s.cend = "bad" \/ IsShutdown(s.backend)
    \/ /\ s.backend = "None" /\ s.broken /\ IsShutdown(s.proxy)
       /\ s.phase = "DnsWait" => IsUdp

UpWhole(s, h) ==
    /\ s.phase = "HandShake" =>
         /\ UpLine(s, h) = Empty /\ s.backend = "None"
         /\ s.cend # "bad" => Len(s.cin) = upSent
    /\ s.phase # "HandShake" =>
         /\ First + Len(UpLine(s, h)) <= ReadUpTo(s)
         /\ WholeUp(s, h) \/ Excused(s)

DownWhole(s) == WholeDown(s) \/ (s.broken /\ IsShutdown(s.proxy))

\* The two endpoints and what they hold: data is cached only while there is no
\* backend, and PeerClosed always has the other side closed.
Backing(s) ==
    /\ IsUdp => s.data = Empty
    /\ s.backend # "None" => s.data = Empty /\ (IsUdp \/ s.target)
    /\ s.backend = "None" =>
         /\ s.sendBuffer = Empty /\ s.tin = Empty /\ s.session = Empty
         /\ s.tcon = "no" /\ s.tend = "open"
    /\ (s.backend = "None" /\ s.phase \in {"TCPForward", "UDPForward"})
         => s.broken /\ IsShutdown(s.proxy)
    /\ s.backend = "PeerClosed" => IsShutdown(s.proxy)
    /\ s.proxy = "PeerClosed" => IsShutdown(s.backend)

\* The query came back without an address, and no backend will be opened.
DnsFailed(s) ==
    /\ s.phase = "DnsWait" /\ req = "domain" /\ ~s.target
    /\ dns \in {"failed", "done"}

Clean(s) == ~s.broken /\ ~timedOut

\* What has been passed on when an endpoint is closed while the target is
\* reachable.
ToTarget(s) ==
    (Clean(s) /\ s.tend = "open") =>
      /\ IsShutdown(s.backend) => IsShutdown(s.proxy)
      /\ (s.cend = "fin" /\ IsShutdown(s.proxy)) => (s.cin = Empty \/ DnsFailed(s))
      /\ (s.cend = "fin" /\ IsShutdown(s.backend)) =>
           (s.sendBuffer = Empty /\ s.cin = Empty /\ WholeUp(s, Empty))

\* What has been passed on when an endpoint is closed while the client stays.
ToClient(s) ==
    Clean(s) =>
      /\ (s.cend = "open" /\ IsShutdown(s.proxy)) =>
           (\/ DnsFailed(s)
            \/ /\ IsShutdown(s.backend)
               /\ s.tend = "fin" => (s.tin = Empty /\ s.session = Empty))
      /\ (IsShutdown(s.backend) /\ s.tend = "fin") =>
           (s.tin = Empty \/ (IsShutdown(s.proxy) /\ s.cend # "open"))

\* What every method keeps true of the connection's record.
Relay(s, h) ==
    /\ UpOrder(s, h) /\ UpWhole(s, h) /\ DownOrder(s) /\ DownWhole(s)
    /\ Backing(s) /\ ToTarget(s) /\ ToClient(s)

\* A UDP request whose socket could not be opened stays in DnsWait with its
\* TLS endpoint shut down.
Refused(s) == (IsUdp /\ s.phase = "DnsWait") => IsShutdown(s.proxy)

-----------------------------------------------------------------------------
(* Lines *)

LEMMA ConcatLemma ==
    ASSUME NEW p \in Seq(Nat), NEW q \in Seq(Nat)
    PROVE  /\ p \o q \in Seq(Nat) /\ Len(p \o q) = Len(p) + Len(q)
           /\ Len(p) \in Nat /\ Len(q) \in Nat
           /\ p \o Empty = p /\ Empty \o p = p
  BY ConcatProperties, ConcatEmptySeq, LenProperties DEF Empty

LEMMA Assoc ==
    ASSUME NEW p \in Seq(Nat), NEW q \in Seq(Nat), NEW r \in Seq(Nat)
    PROVE  (p \o q) \o r = p \o (q \o r)
  BY SMTT(60), ConcatAssociative

LEMMA EmptyIff ==
    ASSUME NEW q \in Seq(Nat)
    PROVE  Len(q) \in Nat /\ (q = Empty <=> Len(q) = 0)
  BY EmptySeq, LenProperties DEF Empty

LEMMA RunEmpty == \A a : Run(Empty, a)
  <1>1. Len(Empty) = 0 BY EmptyLemma
  <1> QED BY <1>1 DEF Run

LEMMA RunConcat ==
    ASSUME NEW p \in Seq(Nat), NEW q \in Seq(Nat), NEW a \in Nat
    PROVE  Run(p \o q, a) <=> Run(p, a) /\ Run(q, a + Len(p))
  <1> DEFINE m == Len(p)
  <1> DEFINE n == Len(q)
  <1>1. /\ m \in Nat /\ n \in Nat /\ Len(p \o q) = m + n
        /\ \A i \in 1 .. m + n : (p \o q)[i] = IF i <= m THEN p[i] ELSE q[i - m]
    BY ConcatProperties, LenProperties
  <1>2. ASSUME Run(p \o q, a) PROVE Run(p, a) /\ Run(q, a + m)
    <2>1. ASSUME NEW k \in 1 .. m PROVE p[k] = a + k - 1
      <3>1. k \in 1 .. m + n /\ (p \o q)[k] = p[k] BY <1>1
      <3> QED BY <1>1, <1>2, <3>1 DEF Run
    <2>2. ASSUME NEW k \in 1 .. n PROVE q[k] = a + m + k - 1
      <3>1. m + k \in 1 .. m + n /\ ~(m + k <= m) /\ (m + k) - m = k BY <1>1
      <3>2. (p \o q)[m + k] = q[k] BY <1>1, <3>1
      <3>3. (p \o q)[m + k] = a + (m + k) - 1 BY <1>1, <1>2, <3>1 DEF Run
      <3> QED BY <1>1, <3>2, <3>3
    <2> QED BY <2>1, <2>2 DEF Run
  <1>3. ASSUME Run(p, a), Run(q, a + m) PROVE Run(p \o q, a)
    <2>1. ASSUME NEW k \in 1 .. m + n PROVE (p \o q)[k] = a + k - 1
      <3>1. CASE k <= m
        <4>1. k \in 1 .. m BY <1>1, <3>1
        <4> QED BY <1>1, <1>3, <3>1, <4>1 DEF Run
      <3>2. CASE ~(k <= m)
        <4>1. k - m \in 1 .. n BY <1>1, <3>2
        <4>2. q[k - m] = a + m + (k - m) - 1 BY <1>3, <4>1 DEF Run
        <4>3. (p \o q)[k] = q[k - m] BY <1>1, <3>2
        <4> QED BY <1>1, <4>1, <4>2, <4>3
      <3> QED BY <3>1, <3>2
    <2> QED BY <1>1, <2>1 DEF Run
  <1> QED BY <1>2, <1>3

LEMMA Glue ==
    ASSUME NEW q \in Seq(Nat), NEW n \in 0 .. Len(q)
    PROVE  Take(q, n) \o Drop(q, n) = q
  <1> DEFINE t == Take(q, n)
  <1> DEFINE d == Drop(q, n)
  <1> DEFINE m == Len(q)
  <1>0. m \in Nat BY LenProperties
  <1>1. \A i \in 1 .. m : q[i] \in Nat BY ElementOfSeq
  <1>2. t \in Seq(Nat) /\ Len(t) = n /\ \A i \in 1 .. n : t[i] = q[i]
    <2>1. \A i \in 1 .. n : q[i] \in Nat BY <1>0, <1>1
    <2>2. /\ SubSeq(q, 1, n) \in Seq(Nat)
          /\ Len(SubSeq(q, 1, n)) = IF 1 <= n THEN n - 1 + 1 ELSE 0
          /\ \A i \in 1 .. n - 1 + 1 : SubSeq(q, 1, n)[i] = q[1 + i - 1]
      BY <1>0, <2>1, SubSeqProperties
    <2>3. n - 1 + 1 = n /\ (~(1 <= n) => n = 0) BY <1>0
    <2>4. \A i \in 1 .. n : 1 + i - 1 = i BY <1>0
    <2> QED BY <2>2, <2>3, <2>4 DEF Take
  <1>3. d \in Seq(Nat) /\ Len(d) = m - n /\ \A i \in 1 .. m - n : d[i] = q[n + i]
    <2>1. \A i \in n + 1 .. m : q[i] \in Nat BY <1>0, <1>1
    <2>2. /\ SubSeq(q, n + 1, m) \in Seq(Nat)
          /\ Len(SubSeq(q, n + 1, m)) = IF n + 1 <= m THEN m - (n + 1) + 1 ELSE 0
          /\ \A i \in 1 .. m - (n + 1) + 1 : SubSeq(q, n + 1, m)[i] = q[n + 1 + i - 1]
      BY <1>0, <2>1, SubSeqProperties
    <2>3. m - (n + 1) + 1 = m - n /\ (~(n + 1 <= m) => m - n = 0) BY <1>0
    <2>4. \A i \in 1 .. m - n : n + 1 + i - 1 = n + i BY <1>0
    <2> QED BY <2>2, <2>3, <2>4 DEF Drop
  <1> HIDE DEF t, d
  <1>4. /\ t \o d \in Seq(Nat) /\ Len(t \o d) = n + (m - n)
        /\ \A i \in 1 .. n + (m - n) : (t \o d)[i] = IF i <= n THEN t[i] ELSE d[i - n]
    BY SMTT(60), <1>2, <1>3, ConcatProperties
  <1>5. n + (m - n) = m BY <1>0
  <1>6. \A i \in 1 .. m : (t \o d)[i] = q[i]
    <2> SUFFICES ASSUME NEW i \in 1 .. m PROVE (t \o d)[i] = q[i] OBVIOUS
    <2>1. CASE i <= n
      <3>1. i \in 1 .. n BY <1>0, <2>1
      <3> QED BY <1>2, <1>4, <1>5, <2>1, <3>1
    <2>2. CASE ~(i <= n)
      <3>1. i - n \in 1 .. m - n /\ n + (i - n) = i BY <1>0, <2>2
      <3> QED BY <1>3, <1>4, <1>5, <2>2, <3>1
    <2> QED BY <2>1, <2>2
  <1> QED BY <1>4, <1>5, <1>6, SeqEqual DEF t, d

LEMMA RunDrop ==
    ASSUME NEW q \in Seq(Nat), NEW n \in 0 .. Len(q), NEW a \in Nat, Run(q, a)
    PROVE  Run(Take(q, n), a) /\ Run(Drop(q, n), a + n)
  <1>1. /\ Take(q, n) \in Seq(Nat) /\ Len(Take(q, n)) = n /\ Drop(q, n) \in Seq(Nat)
    BY BufferLemma
  <1>2. Run(Take(q, n) \o Drop(q, n), a) BY Glue
  <1> QED BY <1>1, <1>2, RunConcat

-----------------------------------------------------------------------------
(* Framing *)

\* The record s, with h in hand, satisfies the invariant.
Sound(s, h) == Good(s) /\ h \in Seq(Nat) /\ PeersOK /\ Relay(s, h)

SameUp(s, t) ==
    /\ t.tout = s.tout /\ t.sendBuffer = s.sendBuffer /\ t.data = s.data /\ t.cin = s.cin
SameDown(s, t)  == t.cout = s.cout /\ t.session = s.session /\ t.tin = s.tin
SamePeers(s, t) == t.cend = s.cend /\ t.tend = s.tend /\ t.tcon = s.tcon

\* What the methods that do not dispatch establish.
SameStage(s, t) ==
    /\ t.phase = s.phase /\ t.target = s.target
    /\ IsShutdown(s.proxy) => IsShutdown(t.proxy)

LEMMA FirstNat == First \in Nat
  BY DEF First

LEMMA PeersNat ==
    ASSUME PeersOK
    PROVE  upSent \in Nat /\ downSent \in Nat /\ targetGot \in Seq(Nat) /\ clientGot \in Seq(Nat)
  BY DEF PeersOK

\* The hand is the end of the line.
LEMMA LineLemma ==
    ASSUME NEW s, Good(s), NEW h \in Seq(Nat), PeersOK
    PROVE  /\ UpLine(s, Empty) \in Seq(Nat) /\ Len(UpLine(s, Empty)) \in Nat
           /\ UpLine(s, h) = UpLine(s, Empty) \o h
           /\ UpLine(s, h) \in Seq(Nat) /\ Len(h) \in Nat
           /\ Len(UpLine(s, h)) = Len(UpLine(s, Empty)) + Len(h)
           /\ DownLine(s) \in Seq(Nat) /\ Len(DownLine(s)) \in Nat
  <1>1. /\ targetGot \in Seq(Nat) /\ clientGot \in Seq(Nat) /\ s.tout \in Seq(Nat)
        /\ s.sendBuffer \in Seq(Nat) /\ s.data \in Seq(Nat) /\ s.cout \in Seq(Nat)
        /\ s.session \in Seq(Nat)
    BY Fields, PeersNat
  <1>2. targetGot \o s.tout \in Seq(Nat) BY <1>1, ConcatLemma
  <1>3. targetGot \o s.tout \o s.sendBuffer \in Seq(Nat) BY <1>1, <1>2, ConcatLemma
  <1> DEFINE l == targetGot \o s.tout \o s.sendBuffer \o s.data
  <1>4. l \in Seq(Nat) BY <1>1, <1>3, ConcatLemma
  <1>5. UpLine(s, Empty) = l \o Empty /\ UpLine(s, h) = l \o h BY DEF UpLine
  <1> HIDE DEF l
  <1>6. UpLine(s, Empty) = l BY <1>4, <1>5, ConcatLemma
  <1>7. l \o h \in Seq(Nat) /\ Len(l \o h) = Len(l) + Len(h) /\ Len(l) \in Nat /\ Len(h) \in Nat
    BY <1>4, ConcatLemma
  <1>8. clientGot \o s.cout \in Seq(Nat) BY <1>1, ConcatLemma
  <1>9. DownLine(s) \in Seq(Nat) BY <1>1, <1>8, ConcatLemma DEF DownLine
  <1>10. Len(DownLine(s)) \in Nat BY <1>9, LenProperties
  <1> QED BY <1>4, <1>5, <1>6, <1>7, <1>9, <1>10

\* With no data cached, send_buffer and the hand follow the target's socket.
LEMMA BackLine ==
    ASSUME NEW s, Good(s), NEW h \in Seq(Nat), PeersOK, s.data = Empty
    PROVE  /\ UpLine(s, h) = (targetGot \o s.tout) \o (s.sendBuffer \o h)
           /\ targetGot \o s.tout \in Seq(Nat)
  <1>1. targetGot \in Seq(Nat) /\ s.tout \in Seq(Nat) /\ s.sendBuffer \in Seq(Nat)
    BY Fields, PeersNat
  <1> DEFINE l == targetGot \o s.tout
  <1>2. l \in Seq(Nat) BY <1>1, ConcatLemma
  <1>3. UpLine(s, h) = ((l \o s.sendBuffer) \o Empty) \o h BY DEF UpLine
  <1> HIDE DEF l
  <1>4. l \o s.sendBuffer \in Seq(Nat) BY <1>1, <1>2, ConcatLemma
  <1>5. UpLine(s, h) = (l \o s.sendBuffer) \o h BY <1>3, <1>4, ConcatLemma
  <1>6. (l \o s.sendBuffer) \o h = l \o (s.sendBuffer \o h) BY <1>1, <1>2, Assoc
  <1>7. UpLine(s, h) = l \o (s.sendBuffer \o h) BY <1>5, <1>6
  <1> QED BY <1>2, <1>7 DEF l

LEMMA SameUpLemma ==
    ASSUME NEW s, NEW t, NEW h, SameUp(s, t)
    PROVE  /\ UpLine(t, h) = UpLine(s, h) /\ ReadUpTo(t) = ReadUpTo(s)
           /\ WholeUp(t, h) = WholeUp(s, h) /\ UpOrder(t, h) = UpOrder(s, h)
           /\ WholeUp(t, Empty) = WholeUp(s, Empty)
  <1>1. UpLine(t, h) = UpLine(s, h) /\ UpLine(t, Empty) = UpLine(s, Empty)
    BY DEF SameUp, UpLine
  <1>2. ReadUpTo(t) = ReadUpTo(s) /\ t.cin = s.cin BY DEF SameUp, ReadUpTo
  <1> QED BY <1>1, <1>2 DEF WholeUp, UpOrder

LEMMA SameDownLemma ==
    ASSUME NEW s, NEW t, SameDown(s, t)
    PROVE  /\ WholeDown(t) = WholeDown(s) /\ DownOrder(t) = DownOrder(s)
  <1>1. DownLine(t) = DownLine(s) /\ t.tin = s.tin BY DEF SameDown, DownLine
  <1> QED BY <1>1 DEF WholeDown, DownOrder

\* Flags and marks are not part of the invariant.
LEMMA FrameLemma ==
    ASSUME NEW s, NEW t, NEW h, Relay(s, h), SameUp(s, t), SameDown(s, t), SamePeers(s, t),
           t.phase = s.phase, t.target = s.target, t.proxy = s.proxy,
           t.backend = s.backend, t.broken = s.broken
    PROVE  Relay(t, h)
  <1>1. /\ UpLine(t, h) = UpLine(s, h) /\ ReadUpTo(t) = ReadUpTo(s)
        /\ WholeUp(t, h) = WholeUp(s, h) /\ UpOrder(t, h) = UpOrder(s, h)
        /\ WholeUp(t, Empty) = WholeUp(s, Empty)
    BY SameUpLemma
  <1>2. WholeDown(t) = WholeDown(s) /\ DownOrder(t) = DownOrder(s) BY SameDownLemma
  <1>3. UpWhole(t, h) BY <1>1 DEF Relay, UpWhole, Excused, SameUp, SamePeers
  <1>4. DownWhole(t) BY <1>2 DEF Relay, DownWhole
  <1>5. Backing(t) BY DEF Relay, Backing, SameUp, SameDown, SamePeers
  <1>6. ToTarget(t) BY <1>1 DEF Relay, ToTarget, Clean, DnsFailed, SameUp, SamePeers
  <1>7. ToClient(t) BY DEF Relay, ToClient, Clean, DnsFailed, SameDown, SamePeers
  <1> QED BY <1>1, <1>2, <1>3, <1>4, <1>5, <1>6, <1>7 DEF Relay

\* The TLS endpoint is shut down for a reason: it was already, the client has
\* reset, the connection is broken, or the name has no address.  A failed
\* setup also moves on to its forwarding phase.
LEMMA ProxyShut ==
    ASSUME NEW s, NEW t, NEW h, Good(s), Relay(s, h),
           SameUp(s, t), SameDown(s, t), SamePeers(s, t),
           t.target = s.target, t.backend = s.backend, t.proxy = Shutdown(s.proxy),
           t.broken \in BOOLEAN, s.broken => t.broken,
           \/ IsShutdown(s.proxy) \/ s.cend = "rst" \/ t.broken \/ DnsFailed(t),
           \/ t.phase = s.phase
           \/ t.broken /\ s.phase = "DnsWait" /\ t.phase \in {"TCPForward", "UDPForward"}
    PROVE  Relay(t, h)
  <1>0. IsShutdown(t.proxy) /\ t.proxy # "PeerClosed" BY DEF IsShutdown, Shutdown
  <1>1. /\ UpLine(t, h) = UpLine(s, h) /\ ReadUpTo(t) = ReadUpTo(s)
        /\ WholeUp(t, h) = WholeUp(s, h) /\ UpOrder(t, h) = UpOrder(s, h)
        /\ WholeUp(t, Empty) = WholeUp(s, Empty)
    BY SameUpLemma
  <1>2. WholeDown(t) = WholeDown(s) /\ DownOrder(t) = DownOrder(s) BY SameDownLemma
  <1>3. UpWhole(t, h) BY <1>0, <1>1 DEF Relay, UpWhole, Excused, SameUp, SamePeers
  <1>4. DownWhole(t) BY <1>0, <1>2 DEF Relay, DownWhole
  <1>5. Backing(t) BY <1>0 DEF Relay, Backing, SameUp, SameDown, SamePeers
  <1>6. ToTarget(t) BY <1>0, <1>1 DEF Relay, ToTarget, Clean, DnsFailed, SameUp, SamePeers
  <1>7. ToClient(t) BY <1>0 DEF Relay, ToClient, Clean, DnsFailed, SameDown, SamePeers
  <1> QED BY <1>1, <1>2, <1>3, <1>4, <1>5, <1>6, <1>7 DEF Relay

\* An excused connection may drop what it has in hand.
LEMMA DropHand ==
    ASSUME NEW s, NEW h, Sound(s, h), Excused(s)
    PROVE  Sound(s, Empty)
  <1>0. h \in Seq(Nat) /\ Good(s) /\ PeersOK BY DEF Sound
  <1>1. /\ UpLine(s, Empty) \in Seq(Nat) /\ Len(UpLine(s, Empty)) \in Nat
        /\ UpLine(s, h) = UpLine(s, Empty) \o h /\ Len(h) \in Nat
        /\ Len(UpLine(s, h)) = Len(UpLine(s, Empty)) + Len(h)
    BY <1>0, LineLemma
  <1>2. Run(UpLine(s, h), First) BY DEF Sound, Relay, UpOrder
  <1>3. Run(UpLine(s, Empty), First) BY <1>0, <1>1, <1>2, FirstNat, RunConcat
  <1>4. UpOrder(s, Empty) BY <1>3 DEF Sound, Relay, UpOrder
  <1>5. ASSUME UpLine(s, h) = Empty PROVE UpLine(s, Empty) = Empty
    <2>2. Len(UpLine(s, h)) = 0 BY <1>5, EmptyLemma
    <2>1. Len(UpLine(s, Empty)) = 0 BY <1>1, <2>2
    <2> QED BY <1>1, <2>1, EmptyIff
  <1>6. ASSUME First + Len(UpLine(s, h)) <= ReadUpTo(s)
        PROVE  First + Len(UpLine(s, Empty)) <= ReadUpTo(s)
    BY <1>1, <1>6, FirstNat DEF Sound, Relay, UpOrder
  <1>7. UpWhole(s, Empty) BY <1>5, <1>6 DEF Sound, Relay, UpWhole
  <1> QED BY <1>0, <1>4, <1>7, EmptyLemma DEF Sound, Relay

-----------------------------------------------------------------------------
(* The methods of the endpoints *)

LEMMA SoundKeep ==
    ASSUME NEW s, NEW t, NEW h, Sound(s, h), Keep(s, t), NEW k \in Seq(Nat), Relay(t, k)
    PROVE  Sound(t, k)
  BY KeepGood DEF Sound

LEMMA SoundDoSend ==
    ASSUME NEW s, NEW h, Sound(s, h)
    PROVE  Sound(DoSendProxy(s), h) /\ SameStage(s, DoSendProxy(s))
  <1> DEFINE n == Smaller(Len(s.session), SockCap - Len(s.cout))
  <1> DEFINE r == [s EXCEPT !.cout = @ \o Take(s.session, n), !.session = Drop(s.session, n),
                            !.proxyWritable = (n = Len(s.session)),
                            !.cblk = @ \/ n < Len(s.session)]
  <1> DEFINE f == [s EXCEPT !.proxyWritable = TRUE]
  <1> DEFINE d == [s EXCEPT !.proxyWritable = TRUE, !.proxy = Shutdown(@)]
  <1>0. Good(s) /\ h \in Seq(Nat) /\ PeersOK /\ Relay(s, h) /\ s \in ConnState
    BY DEF Sound, Good
  <1>1. Keep(s, DoSendProxy(s)) BY <1>0, DoSendProxyLemma
  <1>2. SameStage(s, s) BY DEF SameStage
  <1>3. Relay(f, h) /\ SameStage(s, f)
    <2>1. /\ SameUp(s, f) /\ SameDown(s, f) /\ SamePeers(s, f)
          /\ f.phase = s.phase /\ f.target = s.target /\ f.proxy = s.proxy
          /\ f.backend = s.backend /\ f.broken = s.broken
      BY <1>0 DEF ConnState, SameUp, SameDown, SamePeers
    <2> HIDE DEF f
    <2>2. Relay(f, h) BY <1>0, <2>1, FrameLemma
    <2> QED BY <2>1, <2>2 DEF SameStage
  <1>4. ASSUME IsShutdown(s.proxy) \/ s.cend = "rst" PROVE Relay(d, h) /\ SameStage(s, d)
    <2>1. /\ SameUp(s, d) /\ SameDown(s, d) /\ SamePeers(s, d)
          /\ d.phase = s.phase /\ d.target = s.target /\ d.proxy = Shutdown(s.proxy)
          /\ d.backend = s.backend /\ d.broken = s.broken
      BY <1>0 DEF ConnState, SameUp, SameDown, SamePeers
    <2>2. s.broken \in BOOLEAN BY <1>0 DEF ConnState
    <2> HIDE DEF d
    <2>3. d.broken \in BOOLEAN /\ (s.broken => d.broken) BY <2>1, <2>2
    <2>4. Relay(d, h) BY <1>0, <1>4, <2>1, <2>3, ProxyShut
    <2>5. IsShutdown(d.proxy) BY <2>1 DEF IsShutdown, Shutdown
    <2> QED BY <2>1, <2>4, <2>5 DEF SameStage
  <1>5. ASSUME ~IsShutdown(s.proxy), s.session # Empty PROVE Relay(r, h) /\ SameStage(s, r)
    <2>1. /\ SameUp(s, r) /\ SamePeers(s, r) /\ r.tin = s.tin
          /\ r.phase = s.phase /\ r.target = s.target /\ r.proxy = s.proxy
          /\ r.backend = s.backend /\ r.broken = s.broken
          /\ r.cout = s.cout \o Take(s.session, n) /\ r.session = Drop(s.session, n)
      BY <1>0 DEF ConnState, SameUp, SamePeers
    <2>2. n \in 0 .. Len(s.session) BY <1>0, Fields DEF Smaller
    <2> HIDE DEF r, n
    <2>3. /\ Take(s.session, n) \in Seq(Nat) /\ Drop(s.session, n) \in Seq(Nat)
          /\ Take(s.session, n) \o Drop(s.session, n) = s.session
          /\ clientGot \in Seq(Nat) /\ s.cout \in Seq(Nat)
      BY <1>0, <2>2, BufferLemma, Glue, Fields, PeersNat
    <2>4. DownLine(r) = DownLine(s)
      <3> DEFINE a == Take(s.session, n)
      <3> DEFINE b == Drop(s.session, n)
      <3> HIDE DEF a, b
      <3>1. a \in Seq(Nat) /\ b \in Seq(Nat) /\ a \o b = s.session BY <2>3 DEF a, b
      <3>2. clientGot \o s.cout \in Seq(Nat) BY <2>3, ConcatLemma
      <3>3. DownLine(r) = (clientGot \o (s.cout \o a)) \o b BY <2>1 DEF DownLine, a, b
      <3>4. clientGot \o (s.cout \o a) = (clientGot \o s.cout) \o a BY <2>3, <3>1, Assoc
      <3>5. ((clientGot \o s.cout) \o a) \o b = (clientGot \o s.cout) \o (a \o b)
        BY <3>1, <3>2, Assoc
      <3> QED BY <3>1, <3>3, <3>4, <3>5 DEF DownLine
    <2>5. WholeDown(r) = WholeDown(s) /\ DownOrder(r) = DownOrder(s)
      BY <2>1, <2>4 DEF WholeDown, DownOrder
    <2>6. /\ UpLine(r, h) = UpLine(s, h) /\ ReadUpTo(r) = ReadUpTo(s)
          /\ WholeUp(r, h) = WholeUp(s, h) /\ UpOrder(r, h) = UpOrder(s, h)
          /\ WholeUp(r, Empty) = WholeUp(s, Empty)
      BY <2>1, SameUpLemma
    <2>7. UpWhole(r, h) BY <1>0, <2>1, <2>6 DEF Relay, UpWhole, Excused, SameUp, SamePeers
    <2>8. DownWhole(r) BY <1>0, <2>1, <2>5 DEF Relay, DownWhole
    <2>9. Backing(r) BY <1>0, <1>5, <2>1 DEF Relay, Backing, SameUp, SamePeers
    <2>10. ToTarget(r)
      BY <1>0, <2>1, <2>6 DEF Relay, ToTarget, Clean, DnsFailed, SameUp, SamePeers
    <2>11. ToClient(r) BY <1>0, <1>5, <2>1 DEF Relay, ToClient, Clean, DnsFailed, SamePeers
    <2>12. Relay(r, h) BY <1>0, <2>5, <2>6, <2>7, <2>8, <2>9, <2>10, <2>11 DEF Relay
    <2> QED BY <2>1, <2>12 DEF SameStage
  <1>6. Relay(DoSendProxy(s), h) /\ SameStage(s, DoSendProxy(s))
    <2>1. \/ DoSendProxy(s) = s
          \/ DoSendProxy(s) = f
          \/ (IsShutdown(s.proxy) \/ s.cend = "rst") /\ DoSendProxy(s) = d
          \/ ~IsShutdown(s.proxy) /\ s.session # Empty /\ DoSendProxy(s) = r
      BY DEF DoSendProxy
    <2> HIDE DEF f, d, r
    <2> QED BY <1>0, <1>2, <1>3, <1>4, <1>5, <2>1
  <1> QED BY <1>0, <1>1, <1>6, SoundKeep

LEMMA SoundTcpRead ==
    ASSUME NEW s, NEW h, Sound(s, h), s.backend # "None", Alive(s.proxy)
    PROVE  Sound(TcpRead(s), h) /\ SameStage(s, TcpRead(s))
  <1> DEFINE room == SessLimit - Len(s.session)
  <1> DEFINE full == [s EXCEPT !.session = @ \o Take(s.tin, room), !.tin = Drop(s.tin, room + 1),
                               !.proxy = Shutdown(@), !.broken = TRUE]
  <1> DEFINE rest == [s EXCEPT !.session = @ \o s.tin, !.tin = Empty,
                               !.backend = IF s.tend # "open" THEN Shutdown(@) ELSE @]
  <1>0. Good(s) /\ h \in Seq(Nat) /\ PeersOK /\ Relay(s, h) /\ s \in ConnState
    BY DEF Sound, Good
  <1>1. Keep(s, TcpRead(s)) BY <1>0, TcpReadLemma
  <1>2. ~IsShutdown(s.proxy) BY DEF Alive, IsShutdown
  <1> DEFINE l == DownLine(s)
  <1> DEFINE m == Len(s.tin)
  <1>3. /\ WholeDown(s) /\ Run(l, 1) /\ Run(s.tin, downSent - m + 1)
        /\ Len(l) + m = downSent
    BY <1>0, <1>2 DEF Relay, DownWhole, DownOrder, WholeDown
  <1>4. /\ l \in Seq(Nat) /\ Len(l) \in Nat /\ m \in Nat /\ s.tin \in Seq(Nat)
        /\ s.session \in Seq(Nat) /\ s.cout \in Seq(Nat) /\ clientGot \in Seq(Nat)
        /\ clientGot \o s.cout \in Seq(Nat) /\ downSent \in Nat
    BY <1>0, LineLemma, Fields, PeersNat, ConcatLemma
  <1> DEFINE w == Len(l)
  <1>a. w \in Nat /\ m \in Nat /\ downSent \in Nat /\ w + m = downSent BY <1>3, <1>4
  <1>5. downSent - m + 1 = 1 + Len(l)
    <2> HIDE DEF w, m
    <2>1. downSent - m + 1 = 1 + w BY <1>a
    <2> QED BY <2>1 DEF w
  <1>6. Run(s.tin, 1 + Len(l)) BY <1>3, <1>5
  <1>7. ASSUME NEW t, NEW q \in Seq(Nat), t.session = s.session \o q, t.cout = s.cout
        PROVE  DownLine(t) = l \o q
    <2>1. DownLine(t) = (clientGot \o s.cout) \o (s.session \o q) BY <1>7 DEF DownLine
    <2>2. l = (clientGot \o s.cout) \o s.session BY DEF DownLine
    <2> HIDE DEF l
    <2>3. ((clientGot \o s.cout) \o s.session) \o q = (clientGot \o s.cout) \o (s.session \o q)
      BY ZenonT(60), <1>4, Assoc
    <2> QED BY <2>1, <2>2, <2>3
  <1>8. CASE Len(s.tin) > room
    <2>1. /\ SameUp(s, full) /\ SamePeers(s, full) /\ full.cout = s.cout
          /\ full.phase = s.phase /\ full.target = s.target /\ full.proxy = Shutdown(s.proxy)
          /\ full.backend = s.backend /\ full.broken = TRUE
          /\ full.session = s.session \o Take(s.tin, room) /\ full.tin = Drop(s.tin, room + 1)
      BY <1>0 DEF ConnState, SameUp, SamePeers
    <2>2. TcpRead(s) = full BY <1>8 DEF TcpRead
    <2>3. room \in 0 .. m /\ room + 1 \in 0 .. m
      <3>1. Len(s.session) \in Nat /\ Len(s.session) <= SessLimit /\ SessLimit \in Nat
        BY <1>0, Fields
      <3> DEFINE j == Len(s.session)
      <3>2. m > room /\ j \in Nat /\ j <= SessLimit /\ room = SessLimit - j BY <1>8, <3>1
      <3> HIDE DEF m, room, j
      <3> QED BY <1>a, <3>1, <3>2
    <2> HIDE DEF room, full
    <2>4. /\ Take(s.tin, room) \in Seq(Nat) /\ Len(Take(s.tin, room)) = room
          /\ Drop(s.tin, room + 1) \in Seq(Nat) /\ Len(Drop(s.tin, room + 1)) = m - (room + 1)
      BY <1>4, <2>3, BufferLemma
    <2>5. /\ Run(Take(s.tin, room), 1 + Len(l))
          /\ Run(Drop(s.tin, room + 1), 1 + Len(l) + (room + 1))
      <3>1. 1 + Len(l) \in Nat BY <1>4
      <3> HIDE DEF l, m
      <3>2. room \in 0 .. Len(s.tin) /\ room + 1 \in 0 .. Len(s.tin) BY <2>3 DEF m
      <3> QED BY <1>4, <1>6, <3>1, <3>2, RunDrop
    <2>6. DownLine(full) = l \o Take(s.tin, room) BY <1>7, <2>1, <2>4
    <2>7. Run(DownLine(full), 1)
      <3> HIDE DEF l
      <3> QED BY <1>3, <1>4, <2>4, <2>5, <2>6, RunConcat
    <2>8. Len(DownLine(full)) = Len(l) + room
      <3> HIDE DEF l
      <3>1. Len(l \o Take(s.tin, room)) = Len(l) + Len(Take(s.tin, room))
        BY <1>4, <2>4, ConcatLemma
      <3> QED BY <2>4, <2>6, <3>1
    <2>9. DownOrder(full)
      <3>1. Len(full.tin) = m - (room + 1) BY <2>1, <2>4
      <3>2. /\ 1 + w + (room + 1) = downSent - (m - (room + 1)) + 1
            /\ (w + room) + (m - (room + 1)) <= downSent
        <4> HIDE DEF w, m
        <4> QED BY <1>a, <2>3
      <3>3. Run(full.tin, downSent - Len(full.tin) + 1) BY <2>1, <2>5, <3>1, <3>2
      <3>4. Len(DownLine(full)) + Len(full.tin) <= downSent BY <2>8, <3>1, <3>2
      <3> QED BY <2>7, <3>3, <3>4 DEF DownOrder
    <2>10. /\ UpLine(full, h) = UpLine(s, h) /\ ReadUpTo(full) = ReadUpTo(s)
           /\ WholeUp(full, h) = WholeUp(s, h) /\ UpOrder(full, h) = UpOrder(s, h)
      BY <2>1, SameUpLemma
    <2>11. IsShutdown(full.proxy) /\ full.proxy # "PeerClosed" BY <2>1 DEF IsShutdown, Shutdown
    <2>12. UpWhole(full, h)
      BY <1>0, <2>1, <2>10, <2>11 DEF Relay, UpWhole, Excused, SameUp, SamePeers
    <2>13. DownWhole(full) BY <2>1, <2>11 DEF DownWhole
    <2>14. Backing(full) BY <1>0, <2>1, <2>11 DEF Relay, Backing, SameUp, SamePeers
    <2>15. ToTarget(full) /\ ToClient(full) BY <2>1 DEF ToTarget, ToClient, Clean
    <2>16. Relay(full, h)
      BY <1>0, <2>9, <2>10, <2>12, <2>13, <2>14, <2>15 DEF Relay
    <2>17. SameStage(s, full) BY <2>1, <2>11 DEF SameStage
    <2> QED BY <1>0, <1>1, <2>2, <2>16, <2>17, SoundKeep
  <1>9. CASE ~(Len(s.tin) > room)
    <2>1. /\ SameUp(s, rest) /\ SamePeers(s, rest) /\ rest.cout = s.cout
          /\ rest.phase = s.phase /\ rest.target = s.target /\ rest.proxy = s.proxy
          /\ rest.broken = s.broken
          /\ rest.backend = IF s.tend # "open" THEN Shutdown(s.backend) ELSE s.backend
          /\ rest.session = s.session \o s.tin /\ rest.tin = Empty
      BY <1>0 DEF ConnState, SameUp, SamePeers
    <2>2. TcpRead(s) = rest BY <1>9 DEF TcpRead
    <2> HIDE DEF rest
    <2>3. DownLine(rest) = l \o s.tin BY <1>4, <1>7, <2>1
    <2>4. Run(DownLine(rest), 1) /\ Len(DownLine(rest)) = downSent
      <3> HIDE DEF l
      <3>1. Run(l \o s.tin, 1) BY <1>3, <1>4, <1>6, RunConcat
      <3>2. Len(l \o s.tin) = Len(l) + m BY <1>4, ConcatLemma
      <3> QED BY <1>3, <2>3, <3>1, <3>2
    <2>5. Len(rest.tin) = 0 BY <2>1, EmptyLemma
    <2>6. DownOrder(rest) /\ WholeDown(rest)
      BY <1>4, <2>1, <2>4, <2>5, RunEmpty DEF DownOrder, WholeDown
    <2>7. /\ UpLine(rest, h) = UpLine(s, h) /\ ReadUpTo(rest) = ReadUpTo(s)
          /\ WholeUp(rest, h) = WholeUp(s, h) /\ UpOrder(rest, h) = UpOrder(s, h)
          /\ WholeUp(rest, Empty) = WholeUp(s, Empty)
      BY <2>1, SameUpLemma
    <2>8. /\ rest.backend # "PeerClosed" \/ rest.backend = s.backend
          /\ IsShutdown(s.backend) => IsShutdown(rest.backend)
          /\ s.tend = "open" => rest.backend = s.backend
      BY <2>1 DEF Shutdown, IsShutdown
    <2>9. rest.backend # "None" BY <2>1 DEF Shutdown
    <2>10. UpWhole(rest, h)
      BY <1>0, <2>1, <2>7, <2>8, <2>9 DEF Relay, UpWhole, Excused, SameUp, SamePeers
    <2>11. DownWhole(rest) BY <2>6 DEF DownWhole
    <2>12. Backing(rest) BY <1>0, <2>1, <2>8, <2>9 DEF Relay, Backing, SameUp, SamePeers
    <2>13. ToTarget(rest)
      BY <1>0, <2>1, <2>7, <2>8 DEF Relay, ToTarget, Clean, DnsFailed, SameUp, SamePeers
    <2>14. ToClient(rest) BY <1>2, <2>1 DEF ToClient
    <2>15. Relay(rest, h)
      BY <1>0, <2>6, <2>7, <2>10, <2>11, <2>12, <2>13, <2>14 DEF Relay
    <2>16. SameStage(s, rest) BY <2>1 DEF SameStage
    <2> QED BY <1>0, <1>1, <2>2, <2>15, <2>16, SoundKeep
  <1> QED BY <1>8, <1>9

LEMMA SameStageTrans ==
    ASSUME NEW s, NEW t, NEW u, SameStage(s, t), SameStage(t, u)
    PROVE  SameStage(s, u)
  BY DEF SameStage

LEMMA SoundReadBackend ==
    ASSUME NEW s, NEW h, Sound(s, h), s.backend # "None", Alive(s.proxy)
    PROVE  Sound(DoReadBackend(s), h) /\ SameStage(s, DoReadBackend(s))
  <1> DEFINE t == TcpRead(s)
  <1>1. DoReadBackend(s) = DoSendProxy(t) BY DEF DoReadBackend, TcpDoRead, UdpDoRead
  <1>2. Sound(t, h) /\ SameStage(s, t) BY SoundTcpRead
  <1> HIDE DEF t
  <1>3. Sound(DoSendProxy(t), h) /\ SameStage(t, DoSendProxy(t)) BY <1>2, SoundDoSend
  <1> QED BY <1>1, <1>2, <1>3, SameStageTrans

\* A dispatch puts the hand behind send_buffer, writes a part of both and keeps
\* a part; what it neither writes nor keeps it may drop only with the backend.
LEMMA Dispatched ==
    ASSUME NEW s, NEW h, Sound(s, h), NEW t, Good(t), s.backend # "None",
           h = Empty \/ ~IsShutdown(s.backend), ~(s.sendBuffer = Empty /\ h = Empty),
           SameDown(s, t), SamePeers(s, t), t.cin = s.cin, t.data = s.data,
           t.phase = s.phase, t.target = s.target, t.proxy = s.proxy,
           t.broken \in BOOLEAN, s.broken => t.broken,
           NEW lost \in Seq(Nat), UpLine(s, h) = UpLine(t, Empty) \o lost,
           \/ t.backend = s.backend /\ lost = Empty
           \/ /\ t.backend = Shutdown(s.backend)
              /\ t.broken \/ s.tend = "rst" \/ IsShutdown(s.backend)
    PROVE  Sound(t, Empty) /\ SameStage(s, t)
  <1>0. Good(s) /\ h \in Seq(Nat) /\ PeersOK /\ Relay(s, h) BY DEF Sound
  <1>1. /\ UpLine(t, Empty) \in Seq(Nat) /\ Len(UpLine(t, Empty)) \in Nat /\ Len(lost) \in Nat
        /\ Len(UpLine(s, h)) = Len(UpLine(t, Empty)) + Len(lost)
    <2>1. UpLine(t, Empty) \in Seq(Nat) BY <1>0, EmptyLemma, LineLemma
    <2> QED BY <2>1, ConcatLemma
  <1>2. ReadUpTo(t) = ReadUpTo(s) /\ ReadUpTo(s) \in Nat BY <1>0 DEF ReadUpTo, Relay, UpOrder
  <1>3. UpOrder(t, Empty)
    <2>1. Run(UpLine(t, Empty), First)
      BY <1>0, <1>1, FirstNat, RunConcat DEF Relay, UpOrder
    <2> QED BY <1>0, <1>2, <2>1 DEF Relay, UpOrder
  <1>4. s.phase # "HandShake" BY <1>0 DEF Relay, UpWhole
  <1>5. First + Len(UpLine(t, Empty)) <= ReadUpTo(t)
    <2> DEFINE a == Len(UpLine(t, Empty))
    <2> DEFINE b == Len(UpLine(s, h))
    <2> DEFINE k == Len(lost)
    <2>1. /\ First \in Nat /\ a \in Nat /\ k \in Nat /\ b = a + k
          /\ First + b <= ReadUpTo(s) /\ ReadUpTo(s) \in Nat
      BY <1>0, <1>1, <1>2, <1>4, FirstNat DEF Relay, UpWhole
    <2> HIDE DEF a, b, k
    <2>2. First + a <= ReadUpTo(s) BY <2>1
    <2> QED BY <1>2, <2>2 DEF a
  <1>6. lost = Empty => (WholeUp(t, Empty) = WholeUp(s, h))
    <2> SUFFICES ASSUME lost = Empty PROVE WholeUp(t, Empty) = WholeUp(s, h) OBVIOUS
    <2>1. UpLine(s, h) = UpLine(t, Empty) BY <1>1, ConcatLemma
    <2> QED BY <1>2, <2>1 DEF WholeUp
  <1>7. /\ IsShutdown(Shutdown(s.backend)) /\ Shutdown(s.backend) # "None"
        /\ Shutdown(s.backend) # "PeerClosed"
    BY DEF IsShutdown, Shutdown
  <1>8. UpWhole(t, Empty)
    BY <1>0, <1>4, <1>5, <1>6, <1>7 DEF Relay, UpWhole, Excused, SamePeers
  <1>9. DownOrder(t) /\ DownWhole(t)
    BY <1>0, SameDownLemma DEF Relay, DownWhole
  <1>10. Backing(t) BY <1>0, <1>7 DEF Relay, Backing, SameDown, SamePeers
  <1>11. ToTarget(t) BY <1>0, <1>7 DEF Relay, ToTarget, Clean, DnsFailed, SamePeers
  <1>12. ToClient(t) BY <1>0, <1>7 DEF Relay, ToClient, Clean, DnsFailed, SameDown, SamePeers
  <1>13. Relay(t, Empty) BY <1>3, <1>8, <1>9, <1>10, <1>11, <1>12 DEF Relay
  <1>14. SameStage(s, t) BY DEF SameStage
  <1> QED BY <1>0, <1>13, <1>14, EmptyLemma DEF Sound

\* t has written the first n units of w, which is send_buffer and the hand.
Writes(s, h, t, w, n) ==
    /\ Sound(s, h) /\ Good(t) /\ s.backend # "None"
    /\ w = s.sendBuffer \o h /\ n \in 0 .. Len(w)
    /\ t.data = s.data /\ t.tout = s.tout \o Take(w, n)

\* The lines before and after such a write.
LEMMA Written ==
    ASSUME NEW s, NEW h, NEW t, NEW w, NEW n, Writes(s, h, t, w, n)
    PROVE  /\ t.sendBuffer = Drop(w, n) => UpLine(s, h) = UpLine(t, Empty) \o Empty
           /\ t.sendBuffer = Empty => UpLine(s, h) = UpLine(t, Empty) \o Drop(w, n)
           /\ Drop(w, n) \in Seq(Nat)
  <1>0. /\ Good(s) /\ h \in Seq(Nat) /\ PeersOK /\ s.data = Empty
        /\ s.sendBuffer \in Seq(Nat) /\ s.tout \in Seq(Nat) /\ targetGot \in Seq(Nat)
    BY Fields, PeersNat DEF Writes, Sound, Relay, Backing
  <1>a. /\ w = s.sendBuffer \o h /\ n \in 0 .. Len(w) /\ Good(t)
        /\ t.data = s.data /\ t.tout = s.tout \o Take(w, n)
    BY DEF Writes
  <1> DEFINE a == Take(w, n)
  <1> DEFINE b == Drop(w, n)
  <1> DEFINE l == targetGot \o s.tout
  <1>1. w \in Seq(Nat) BY <1>0, <1>a, ConcatLemma
  <1>2. a \in Seq(Nat) /\ b \in Seq(Nat) /\ a \o b = w BY <1>a, <1>1, BufferLemma, Glue
  <1>3. UpLine(s, h) = l \o w /\ l \in Seq(Nat) BY <1>0, <1>a, BackLine
  <1>4. UpLine(t, Empty) = (targetGot \o t.tout) \o (t.sendBuffer \o Empty)
    BY <1>0, <1>a, BackLine, EmptyLemma
  <1>5. t.tout = s.tout \o a BY <1>a
  <1> HIDE DEF a, b
  <1>6. targetGot \o t.tout = l \o a
    <2>1. targetGot \o (s.tout \o a) = (targetGot \o s.tout) \o a BY <1>0, <1>2, Assoc
    <2> QED BY <1>5, <2>1
  <1> HIDE DEF l
  <1>7. (l \o a) \o b = l \o w
    <2>1. l \in Seq(Nat) BY <1>3
    <2>2. (l \o a) \o b = l \o (a \o b) BY <1>2, <2>1, Assoc
    <2> QED BY <1>2, <2>2
  <1>8. l \o a \in Seq(Nat) /\ (l \o a) \o b \in Seq(Nat) BY <1>2, <1>3, ConcatLemma
  <1>9. ASSUME t.sendBuffer = b PROVE UpLine(s, h) = UpLine(t, Empty) \o Empty
    <2>1. b \o Empty = b BY <1>2, ConcatLemma
    <2>2. UpLine(t, Empty) = (l \o a) \o b BY <1>4, <1>6, <1>9, <2>1
    <2>3. ((l \o a) \o b) \o Empty = (l \o a) \o b BY <1>8, ConcatLemma
    <2> QED BY <1>3, <1>7, <2>2, <2>3
  <1>10. ASSUME t.sendBuffer = Empty PROVE UpLine(s, h) = UpLine(t, Empty) \o b
    <2>1. Empty \o Empty = Empty BY EmptyLemma, ConcatLemma
    <2>2. (l \o a) \o Empty = l \o a BY <1>8, ConcatLemma
    <2>3. UpLine(t, Empty) = l \o a BY <1>4, <1>6, <1>10, <2>1, <2>2
    <2> QED BY <1>3, <1>7, <2>3
  <1> QED BY <1>2, <1>9, <1>10 DEF b

LEMMA SoundWriteOut ==
    ASSUME NEW s, NEW h, Sound(s, h), s.backend # "None",
           h = Empty \/ ~IsShutdown(s.backend), ~(s.sendBuffer = Empty /\ h = Empty),
           NEW n \in 0 .. Len(s.sendBuffer \o h), Len(s.tout) + n <= SockCap
    PROVE  /\ Sound(WriteOut(s, s.sendBuffer \o h, n), Empty)
           /\ SameStage(s, WriteOut(s, s.sendBuffer \o h, n))
  <1> DEFINE w == s.sendBuffer \o h
  <1> DEFINE t == WriteOut(s, w, n)
  <1>0. /\ Good(s) /\ s \in ConnState /\ h \in Seq(Nat) /\ s.sendBuffer \in Seq(Nat)
        /\ s.broken \in BOOLEAN
    BY Fields DEF Sound, Good, ConnState
  <1>1. w \in Seq(Nat) BY <1>0, ConcatLemma
  <1>2. Good(t) BY <1>0, <1>1, WriteOutLemma, KeepGood
  <1>3. /\ t.tout = s.tout \o Take(w, n) /\ t.sendBuffer = Drop(w, n)
        /\ SameDown(s, t) /\ SamePeers(s, t) /\ t.cin = s.cin /\ t.data = s.data
        /\ t.phase = s.phase /\ t.target = s.target /\ t.proxy = s.proxy
        /\ t.backend = s.backend /\ t.broken = s.broken
    BY <1>0 DEF WriteOut, ConnState, SameDown, SamePeers
  <1> HIDE DEF t
  <1>4. UpLine(s, h) = UpLine(t, Empty) \o Empty
    <2>1. w = s.sendBuffer \o h /\ n \in 0 .. Len(w) OBVIOUS
    <2> HIDE DEF w
    <2>2. Writes(s, h, t, w, n) BY <1>2, <1>3, <2>1 DEF Writes
    <2> QED BY <1>3, <2>2, Written
  <1>5. Sound(t, Empty) /\ SameStage(s, t)
    BY <1>0, <1>2, <1>3, <1>4, EmptyLemma, Dispatched
  <1> QED BY <1>5 DEF t

\* A failed write of TCP, or of UDP: send_buffer and the hand are dropped.
LEMMA SoundFailed ==
    ASSUME NEW s, NEW h, Sound(s, h), s.backend # "None",
           h = Empty \/ ~IsShutdown(s.backend), ~(s.sendBuffer = Empty /\ h = Empty),
           s.tend = "rst" \/ IsShutdown(s.backend)
    PROVE  /\ Sound([s EXCEPT !.sendBuffer = Empty, !.backend = Shutdown(@)], Empty)
           /\ SameStage(s, [s EXCEPT !.sendBuffer = Empty, !.backend = Shutdown(@)])
  <1> DEFINE w == s.sendBuffer \o h
  <1> DEFINE t == [s EXCEPT !.sendBuffer = Empty, !.backend = Shutdown(@)]
  <1>0. /\ Good(s) /\ s \in ConnState /\ h \in Seq(Nat) /\ s.sendBuffer \in Seq(Nat)
        /\ s.broken \in BOOLEAN /\ s.tout \in Seq(Nat)
    BY Fields DEF Sound, Good, ConnState
  <1>1. w \in Seq(Nat) /\ Len(w) \in Nat BY <1>0, ConcatLemma
  <1>2. Good(t) BY <1>0, FailedSend, KeepGood
  <1>3. /\ t.tout = s.tout /\ t.sendBuffer = Empty
        /\ SameDown(s, t) /\ SamePeers(s, t) /\ t.cin = s.cin /\ t.data = s.data
        /\ t.phase = s.phase /\ t.target = s.target /\ t.proxy = s.proxy
        /\ t.backend = Shutdown(s.backend) /\ t.broken = s.broken
    BY <1>0 DEF ConnState, SameDown, SamePeers
  <1> HIDE DEF t
  <1>9. w = s.sendBuffer \o h OBVIOUS
  <1> HIDE DEF w
  <1>4. 0 \in 0 .. Len(w) /\ Take(w, 0) \in Seq(Nat) /\ Len(Take(w, 0)) = 0
    <2>1. 0 \in 0 .. Len(w) BY <1>1
    <2> QED BY <1>1, <2>1, BufferLemma
  <1>5. Take(w, 0) = Empty BY <1>4, EmptyIff
  <1>6. t.tout = s.tout \o Take(w, 0) BY <1>0, <1>3, <1>5, ConcatLemma
  <1>7. UpLine(s, h) = UpLine(t, Empty) \o Drop(w, 0) /\ Drop(w, 0) \in Seq(Nat)
    <2>1. Writes(s, h, t, w, 0) BY <1>2, <1>3, <1>4, <1>6, <1>9 DEF Writes
    <2> QED BY <1>3, <2>1, Written
  <1>8. Sound(t, Empty) /\ SameStage(s, t)
    BY <1>0, <1>2, <1>3, <1>7, Dispatched
  <1> QED BY <1>8 DEF t

LEMMA NothingInHand ==
    ASSUME NEW p \in Seq(Nat), NEW q \in Seq(Nat)
    PROVE  p \o q = Empty <=> (p = Empty /\ q = Empty)
  <1>1. /\ Len(p) \in Nat /\ Len(q) \in Nat /\ p \o q \in Seq(Nat)
        /\ Len(p \o q) = Len(p) + Len(q)
    BY ConcatLemma
  <1>2. /\ p = Empty <=> Len(p) = 0
        /\ q = Empty <=> Len(q) = 0
        /\ p \o q = Empty <=> Len(p \o q) = 0
    BY <1>1, EmptyIff
  <1> DEFINE a == Len(p)
  <1> DEFINE b == Len(q)
  <1>3. a \in Nat /\ b \in Nat BY <1>1
  <1> HIDE DEF a, b
  <1>4. a + b = 0 <=> (a = 0 /\ b = 0) BY <1>3
  <1> QED BY <1>1, <1>2, <1>4 DEF a, b

LEMMA SoundTcpDispatch ==
    ASSUME NEW s, NEW h, Sound(s, h), s.backend # "None", h = Empty \/ ~IsShutdown(s.backend)
    PROVE  Sound(TcpDispatch(s, h), Empty) /\ SameStage(s, TcpDispatch(s, h))
  <1> DEFINE w == s.sendBuffer \o h
  <1>0. Good(s) /\ h \in Seq(Nat) /\ s.sendBuffer \in Seq(Nat) BY Fields DEF Sound
  <1>1. /\ w \in Seq(Nat) /\ Len(w) \in Nat
        /\ w = Empty <=> (s.sendBuffer = Empty /\ h = Empty)
    BY <1>0, ConcatLemma, NothingInHand, LenProperties
  <1>2. CASE w = Empty
    <2>1. TcpDispatch(s, h) = s BY <1>2 DEF TcpDispatch
    <2>2. SameStage(s, s) BY DEF SameStage
    <2> QED BY <1>1, <1>2, <2>1, <2>2
  <1>3. CASE w # Empty /\ (s.tend = "rst" \/ IsShutdown(s.backend))
    <2>1. TcpDispatch(s, h) = [s EXCEPT !.sendBuffer = Empty, !.backend = Shutdown(@)]
      BY <1>3 DEF TcpDispatch
    <2> QED BY <1>1, <1>3, <2>1, SoundFailed
  <1>4. CASE w # Empty /\ ~(s.tend = "rst" \/ IsShutdown(s.backend))
    <2>1. TcpDispatch(s, h) = WriteOut(s, w, Smaller(Len(w), Room(s)))
      BY <1>4 DEF TcpDispatch
    <2>2. /\ Smaller(Len(w), Room(s)) \in 0 .. Len(w)
          /\ Len(s.tout) + Smaller(Len(w), Room(s)) <= SockCap
      BY <1>0, <1>1, RoomOf
    <2> QED BY <1>1, <1>4, <2>1, <2>2, SoundWriteOut
  <1> QED BY <1>2, <1>3, <1>4

LEMMA SoundUdpDispatch ==
    ASSUME NEW s, NEW h, Sound(s, h), s.backend # "None", h = Empty \/ ~IsShutdown(s.backend)
    PROVE  Sound(UdpDispatch(s, h), Empty) /\ SameStage(s, UdpDispatch(s, h))
  <1> DEFINE w == s.sendBuffer \o h
  <1> DEFINE good == GoodPackets(w)
  <1> DEFINE cut == [s EXCEPT !.tout = @ \o Take(w, good), !.sendBuffer = Empty,
                              !.backend = Shutdown(@), !.broken = TRUE]
  <1>0. /\ Good(s) /\ h \in Seq(Nat) /\ s.sendBuffer \in Seq(Nat) /\ s \in ConnState
    BY Fields DEF Sound, Good
  <1>1. /\ w \in Seq(Nat) /\ Len(w) \in Nat
        /\ w = Empty <=> (s.sendBuffer = Empty /\ h = Empty)
    BY <1>0, ConcatLemma, NothingInHand, LenProperties
  <1>2. CASE w = Empty
    <2>1. UdpDispatch(s, h) = s BY <1>2 DEF UdpDispatch
    <2>2. SameStage(s, s) BY DEF SameStage
    <2> QED BY <1>1, <1>2, <2>1, <2>2
  <1>3. CASE w # Empty /\ s.tend = "rst"
    <2>1. UdpDispatch(s, h) = [s EXCEPT !.sendBuffer = Empty, !.backend = Shutdown(@)]
      BY <1>3 DEF UdpDispatch
    <2> QED BY <1>1, <1>3, <2>1, SoundFailed
  <1>4. CASE w # Empty /\ s.tend # "rst" /\ good < Len(w) /\ good <= Room(s)
    <2>1. UdpDispatch(s, h) = cut BY <1>4 DEF UdpDispatch
    <2>2. Good(UdpDispatch(s, h)) BY <1>0, UdpDispatchLemma, KeepGood
    <2>3. /\ cut.tout = s.tout \o Take(w, good) /\ cut.sendBuffer = Empty
          /\ SameDown(s, cut) /\ SamePeers(s, cut) /\ cut.cin = s.cin /\ cut.data = s.data
          /\ cut.phase = s.phase /\ cut.target = s.target /\ cut.proxy = s.proxy
          /\ cut.backend = Shutdown(s.backend) /\ cut.broken = TRUE
      BY <1>0 DEF ConnState, SameDown, SamePeers
    <2>4. good \in 0 .. Len(w) BY <1>1, GoodPacketsLemma
    <2> HIDE DEF cut, good
    <2>5. Good(cut) BY <2>1, <2>2
    <2>6. UpLine(s, h) = UpLine(cut, Empty) \o Drop(w, good) /\ Drop(w, good) \in Seq(Nat)
      <3>1. w = s.sendBuffer \o h OBVIOUS
      <3> HIDE DEF w
      <3>2. Writes(s, h, cut, w, good) BY <2>3, <2>4, <2>5, <3>1 DEF Writes
      <3> QED BY <2>3, <3>2, Written
    <2>7. Sound(cut, Empty) /\ SameStage(s, cut)
      BY <1>1, <1>4, <2>3, <2>5, <2>6, Dispatched
    <2> QED BY <2>1, <2>7
  <1>5. CASE w # Empty /\ s.tend # "rst" /\ ~(good < Len(w) /\ good <= Room(s))
    <2>1. UdpDispatch(s, h) = WriteOut(s, w, Smaller(Len(w), Room(s)))
      BY <1>5 DEF UdpDispatch
    <2>2. /\ Smaller(Len(w), Room(s)) \in 0 .. Len(w)
          /\ Len(s.tout) + Smaller(Len(w), Room(s)) <= SockCap
      BY <1>0, <1>1, RoomOf
    <2> QED BY <1>1, <1>5, <2>1, <2>2, SoundWriteOut
  <1> QED BY <1>2, <1>3, <1>4, <1>5

LEMMA SoundBackendDispatch ==
    ASSUME NEW s, NEW h, Sound(s, h), s.backend # "None", h = Empty \/ ~IsShutdown(s.backend)
    PROVE  Sound(BackendDispatch(s, h), Empty) /\ SameStage(s, BackendDispatch(s, h))
  BY SoundTcpDispatch, SoundUdpDispatch DEF BackendDispatch

-----------------------------------------------------------------------------
(* Connection *)

LEMMA ReadFields ==
    ASSUME NEW s, s \in ConnState
    PROVE  LET r == DoReadProxy(s) IN
           /\ r.tout = s.tout /\ r.sendBuffer = s.sendBuffer /\ r.data = s.data
           /\ r.cin = Empty /\ SameDown(s, r) /\ SamePeers(s, r)
           /\ r.phase = s.phase /\ r.target = s.target /\ r.backend = s.backend
           /\ r.broken = s.broken
           /\ r.proxy = IF s.cend # "open" THEN Shutdown(s.proxy) ELSE s.proxy
  BY DEF DoReadProxy, ConnState, SameDown, SamePeers

\* What do_read of the TLS endpoint establishes, whatever becomes of the data.
LEMMA ReadLemma ==
    ASSUME NEW s, Sound(s, Empty), NEW r, r = DoReadProxy(s)
    PROVE  /\ Good(r) /\ SameStage(s, r) /\ r.cin = Empty /\ ReadUpTo(r) = upSent
           /\ DownOrder(r) /\ DownWhole(r) /\ Backing(r) /\ ToClient(r)
           /\ r.backend = s.backend /\ r.phase = s.phase /\ r.cend = s.cend
           /\ r.broken = s.broken /\ (IsShutdown(s.proxy) => IsShutdown(r.proxy))
           /\ UpLine(r, Empty) = UpLine(s, Empty)
  <1>0. Good(s) /\ s \in ConnState /\ PeersOK /\ Relay(s, Empty) BY DEF Sound, Good
  <1>1. /\ r.tout = s.tout /\ r.sendBuffer = s.sendBuffer /\ r.data = s.data
        /\ r.cin = Empty /\ SameDown(s, r) /\ SamePeers(s, r)
        /\ r.phase = s.phase /\ r.target = s.target /\ r.backend = s.backend
        /\ r.broken = s.broken
        /\ r.proxy = IF s.cend # "open" THEN Shutdown(s.proxy) ELSE s.proxy
    BY <1>0, ReadFields
  <1>2. Good(r) BY <1>0, DoReadProxyLemma, KeepGood
  <1>3. /\ IsShutdown(s.proxy) => IsShutdown(r.proxy)
        /\ r.proxy = "PeerClosed" => s.proxy = "PeerClosed"
        /\ s.cend = "open" => r.proxy = s.proxy
    BY <1>1 DEF IsShutdown, Shutdown
  <1>4. SameStage(s, r) BY <1>1, <1>3 DEF SameStage
  <1>5. ReadUpTo(r) = upSent
    <2>1. Len(r.cin) = 0 /\ upSent \in Nat BY <1>0, <1>1, EmptyLemma, PeersNat
    <2> QED BY <2>1 DEF ReadUpTo
  <1>6. DownOrder(r) /\ DownWhole(r)
    BY <1>0, <1>1, <1>3, SameDownLemma DEF Relay, DownWhole
  <1>7. Backing(r) BY <1>0, <1>1, <1>3 DEF Relay, Backing, SameDown, SamePeers
  <1>8. ToClient(r) BY <1>0, <1>1, <1>3 DEF Relay, ToClient, Clean, DnsFailed, SameDown, SamePeers
  <1>9. UpLine(r, Empty) = UpLine(s, Empty) BY <1>1 DEF UpLine
  <1> QED BY <1>1, <1>2, <1>3, <1>4, <1>5, <1>6, <1>7, <1>8, <1>9 DEF SamePeers

\* do_read finds nothing, or what it finds is dropped with an excuse.
LEMMA ReadDropped ==
    ASSUME NEW s, Sound(s, Empty),
           \/ s.cin = Empty \/ s.cend = "bad"
           \/ s.phase # "HandShake" /\ Excused(s)
    PROVE  Sound(DoReadProxy(s), Empty) /\ SameStage(s, DoReadProxy(s))
  <1> DEFINE r == DoReadProxy(s)
  <1>0. Good(s) /\ PeersOK /\ Relay(s, Empty) BY DEF Sound
  <1>1. r = DoReadProxy(s) OBVIOUS
  <1>a. r.tend = s.tend /\ r.sendBuffer = s.sendBuffer BY <1>0, ReadFields DEF SamePeers, Good
  <1> HIDE DEF r
  <1>2. /\ Good(r) /\ SameStage(s, r) /\ r.cin = Empty /\ ReadUpTo(r) = upSent
        /\ DownOrder(r) /\ DownWhole(r) /\ Backing(r) /\ ToClient(r)
        /\ r.backend = s.backend /\ r.phase = s.phase /\ r.cend = s.cend
        /\ r.broken = s.broken /\ (IsShutdown(s.proxy) => IsShutdown(r.proxy))
        /\ UpLine(r, Empty) = UpLine(s, Empty)
    BY <1>1, ReadLemma
  <1>3. /\ upSent \in Nat /\ Len(s.cin) \in Nat /\ ReadUpTo(s) = upSent - Len(s.cin)
        /\ ReadUpTo(s) \in Nat
    BY <1>0, PeersNat, Fields, LenProperties DEF ReadUpTo, Relay, UpOrder
  <1>4. ReadUpTo(s) <= ReadUpTo(r) BY <1>2, <1>3
  <1>5. s.cin = Empty => ReadUpTo(s) = ReadUpTo(r)
    <2> SUFFICES ASSUME s.cin = Empty PROVE ReadUpTo(s) = ReadUpTo(r) OBVIOUS
    <2>1. Len(s.cin) = 0 BY EmptyLemma
    <2> QED BY <1>2, <1>3, <2>1
  <1>6. UpOrder(r, Empty) BY <1>0, <1>2, <1>3, RunEmpty DEF Relay, UpOrder
  <1>7. ASSUME First + Len(UpLine(s, Empty)) <= ReadUpTo(s)
        PROVE  First + Len(UpLine(r, Empty)) <= ReadUpTo(r)
    <2> DEFINE a == First + Len(UpLine(s, Empty))
    <2>1. a \in Nat BY <1>0, LineLemma, EmptyLemma, FirstNat
    <2>2. a <= ReadUpTo(s) /\ ReadUpTo(r) \in Nat BY <1>2, <1>3, <1>7
    <2> HIDE DEF a
    <2>3. a <= ReadUpTo(r) BY <1>3, <1>4, <2>1, <2>2
    <2> QED BY <1>2, <2>3 DEF a
  <1>8. s.cin = Empty => (WholeUp(r, Empty) = WholeUp(s, Empty)) BY <1>2, <1>5 DEF WholeUp
  <1>9. Excused(s) => Excused(r) BY <1>2 DEF Excused
  <1>10. UpWhole(r, Empty)
    <2>1. ASSUME s.phase = "HandShake"
          PROVE  /\ UpLine(r, Empty) = Empty /\ r.backend = "None"
                 /\ r.cend # "bad" => Len(r.cin) = upSent
      BY <1>0, <1>2, <2>1 DEF Relay, UpWhole
    <2>2. ASSUME s.phase # "HandShake"
          PROVE  /\ First + Len(UpLine(r, Empty)) <= ReadUpTo(r)
                 /\ WholeUp(r, Empty) \/ Excused(r)
      <3>1. /\ First + Len(UpLine(s, Empty)) <= ReadUpTo(s)
            /\ WholeUp(s, Empty) \/ Excused(s)
        BY <1>0, <2>2 DEF Relay, UpWhole
      <3>2. s.cend = "bad" => Excused(r) BY <1>2 DEF Excused
      <3> QED BY <1>7, <1>8, <1>9, <3>1, <3>2
    <2> QED BY <1>2, <2>1, <2>2 DEF UpWhole
  <1>11. ToTarget(r) BY <1>0, <1>2, <1>8, <1>a DEF Relay, ToTarget, Clean
  <1>12. Sound(r, Empty)
    BY <1>0, <1>2, <1>6, <1>10, <1>11, EmptyLemma DEF Sound, Relay
  <1> QED BY <1>2, <1>12 DEF r

\* After the handshake, what do_read finds is the next piece of the line.
LEMMA ReadInHand ==
    ASSUME NEW s, Sound(s, Empty), s.phase # "HandShake", WholeUp(s, Empty)
    PROVE  /\ Sound(DoReadProxy(s), s.cin) /\ SameStage(s, DoReadProxy(s))
           /\ WholeUp(DoReadProxy(s), s.cin)
  <1> DEFINE r == DoReadProxy(s)
  <1> DEFINE h == s.cin
  <1>0. Good(s) /\ PeersOK /\ Relay(s, Empty) /\ h \in Seq(Nat) BY Fields DEF Sound
  <1>1. r = DoReadProxy(s) OBVIOUS
  <1>a. r.tend = s.tend /\ r.sendBuffer = s.sendBuffer BY <1>0, ReadFields DEF SamePeers, Good
  <1> HIDE DEF r
  <1>2. /\ Good(r) /\ SameStage(s, r) /\ r.cin = Empty /\ ReadUpTo(r) = upSent
        /\ DownOrder(r) /\ DownWhole(r) /\ Backing(r) /\ ToClient(r)
        /\ r.backend = s.backend /\ r.phase = s.phase /\ r.cend = s.cend
        /\ r.broken = s.broken /\ (IsShutdown(s.proxy) => IsShutdown(r.proxy))
        /\ UpLine(r, Empty) = UpLine(s, Empty)
    BY <1>1, ReadLemma
  <1> DEFINE l == UpLine(s, Empty)
  <1>3. /\ l \in Seq(Nat) /\ Len(l) \in Nat /\ UpLine(r, h) = l \o h /\ Len(h) \in Nat
        /\ Len(UpLine(r, h)) = Len(l) + Len(h)
    <2>1. /\ UpLine(r, Empty) \in Seq(Nat) /\ Len(UpLine(r, Empty)) \in Nat
          /\ UpLine(r, h) = UpLine(r, Empty) \o h /\ Len(h) \in Nat
          /\ Len(UpLine(r, h)) = Len(UpLine(r, Empty)) + Len(h)
      <3> HIDE DEF h
      <3> QED BY <1>0, <1>2, LineLemma
    <2> QED BY <1>2, <2>1
  <1>4. /\ upSent \in Nat /\ ReadUpTo(s) = upSent - Len(h) /\ First \in Nat
        /\ First + Len(l) = ReadUpTo(s)
    BY <1>0, PeersNat, FirstNat DEF ReadUpTo, WholeUp
  <1>5. UpOrder(r, h)
    <2>1. Run(l, First) /\ Run(h, First + Len(l)) BY <1>0, <1>4 DEF Relay, UpOrder
    <2> HIDE DEF l, h
    <2>2. Run(l \o h, First) BY <1>0, <1>3, <1>4, <2>1, RunConcat
    <2> QED BY <1>2, <1>3, <1>4, <2>2, RunEmpty DEF UpOrder
  <1>6. First + Len(UpLine(r, h)) = ReadUpTo(r)
    <2> DEFINE a == Len(l)
    <2> DEFINE b == Len(h)
    <2>1. a \in Nat /\ b \in Nat /\ First + a = upSent - b BY <1>3, <1>4
    <2> HIDE DEF a, b
    <2>2. First + (a + b) = upSent BY <1>4, <2>1
    <2> QED BY <1>2, <1>3, <2>2 DEF a, b
  <1>7. UpWhole(r, h) BY <1>2, <1>4, <1>6 DEF UpWhole, WholeUp
  <1>8. s.cin = Empty => WholeUp(r, Empty) BY <1>6 DEF WholeUp
  <1>9. ToTarget(r) BY <1>0, <1>2, <1>8, <1>a DEF Relay, ToTarget, Clean
  <1>10. Sound(r, h) BY <1>0, <1>2, <1>5, <1>7, <1>9 DEF Sound, Relay
  <1> QED BY <1>2, <1>6, <1>10 DEF r, WholeUp

\* The first read takes the request head off and leaves the payload in hand.
LEMMA ReadHead ==
    ASSUME NEW s, Sound(s, Empty), s.phase = "HandShake", s.cend # "bad", s.cin # Empty,
           NEW o \in Outcome
    PROVE  LET t == TryHandshake(DoReadProxy(s), o)
               h == Payload(DoReadProxy(s), s.cin)
           IN  /\ Sound(t, h) /\ WholeUp(t, h)
               /\ t.phase = "DnsWait" /\ t.backend = "None"
               /\ Queries(s, o) => ~t.target
  <1> DEFINE r == DoReadProxy(s)
  <1> DEFINE t == TryHandshake(r, o)
  <1> DEFINE h == Payload(r, s.cin)
  <1>0. Good(s) /\ PeersOK /\ Relay(s, Empty) /\ s.cin \in Seq(Nat) BY Fields DEF Sound
  <1>1. r = DoReadProxy(s) OBVIOUS
  <1>a. /\ r.tend = s.tend /\ r.sendBuffer = s.sendBuffer /\ r.tcon = s.tcon
        /\ SameDown(s, r) /\ r.data = s.data /\ r.cend = s.cend
        /\ s.cend = "open" => r.proxy = s.proxy
    BY <1>0, ReadFields DEF SamePeers, Good
  <1>b. r.backend = "None"
    BY <1>0, ReadFields DEF Good, Relay, UpWhole
  <1>c. h = IF req # "none" THEN Tail(s.cin) ELSE s.cin
    BY <1>0, ReadFields DEF Good, Payload
  <1> HIDE DEF r
  <1>2. /\ Good(r) /\ r.cin = Empty /\ ReadUpTo(r) = upSent
        /\ DownOrder(r) /\ DownWhole(r) /\ Backing(r) /\ ToClient(r)
        /\ r.phase = "HandShake" /\ r.broken = s.broken
        /\ UpLine(r, Empty) = UpLine(s, Empty)
    BY <1>1, ReadLemma
  <1>3. Good(t) BY <1>2, <1>b, TryHandshakeLemma, MovesGood
  <1>4. /\ SameUp(r, t) /\ SameDown(r, t) /\ SamePeers(r, t) /\ t.phase = "DnsWait"
        /\ t.backend = r.backend /\ t.proxy = r.proxy /\ t.broken = r.broken
        /\ t.target = (req \in {"ip", "none"} \/ (req = "domain" /\ o.hit))
    BY <1>2 DEF Good, ConnState, TryHandshake, SameUp, SameDown, SamePeers
  <1> HIDE DEF t, h
  <1>5. s.cin # << >> BY DEF Empty
  <1>6. /\ UpLine(s, Empty) = Empty /\ Len(s.cin) = upSent /\ upSent \in Nat
        /\ Run(s.cin, 0)
    <2>1. UpLine(s, Empty) = Empty /\ Len(s.cin) = upSent /\ upSent \in Nat
      BY <1>0, PeersNat DEF Relay, UpWhole
    <2>2. ReadUpTo(s) = 0 BY <2>1 DEF ReadUpTo
    <2> QED BY <1>0, <2>1, <2>2 DEF Relay, UpOrder
  <1>7. h \in Seq(Nat) /\ Run(h, First) /\ First + Len(h) = upSent
    <2>1. CASE req = "none"
      <3>1. h = s.cin /\ First = 0 BY <1>c, <2>1 DEF First
      <3> QED BY <1>0, <1>6, <3>1
    <2>2. CASE req # "none"
      <3>1. h = Tail(s.cin) /\ First = 1 BY <1>c, <2>2 DEF First
      <3>2. /\ Tail(s.cin) \in Seq(Nat) /\ Len(Tail(s.cin)) = Len(s.cin) - 1
            /\ \A i \in 1 .. Len(Tail(s.cin)) : Tail(s.cin)[i] = s.cin[i + 1]
        BY <1>0, <1>5, HeadTailProperties
      <3>3. 1 + Len(h) = upSent BY <1>6, <3>1, <3>2
      <3>4. ASSUME NEW k \in 1 .. Len(h) PROVE h[k] = 1 + k - 1
        <4>1. Len(h) = upSent - 1 BY <1>6, <3>1, <3>2
        <4>2. k \in Nat /\ k + 1 \in 1 .. upSent BY <1>6, <4>1
        <4>3. s.cin[k + 1] = 0 + (k + 1) - 1 BY <1>6, <4>2 DEF Run
        <4>4. h[k] = s.cin[k + 1] BY <3>1, <3>2
        <4> QED BY <4>2, <4>3, <4>4
      <3> QED BY <3>1, <3>2, <3>3, <3>4 DEF Run
    <2> QED BY <2>1, <2>2
  <1>8. UpLine(t, h) = h
    <2>1. UpLine(t, Empty) = UpLine(r, Empty) BY <1>4, SameUpLemma
    <2>2. UpLine(t, h) = UpLine(t, Empty) \o h BY <1>0, <1>3, <1>7, LineLemma
    <2> QED BY <1>2, <1>6, <1>7, <2>1, <2>2, ConcatLemma
  <1>9. t.cin = Empty /\ ReadUpTo(t) = upSent BY <1>2, <1>4, SameUpLemma DEF SameUp
  <1>10. UpOrder(t, h) /\ WholeUp(t, h)
    BY <1>6, <1>7, <1>8, <1>9, RunEmpty DEF UpOrder, WholeUp
  <1>11. UpWhole(t, h) BY <1>4, <1>6, <1>7, <1>8, <1>9, <1>10 DEF UpWhole
  <1>12. DownOrder(t) /\ DownWhole(t) BY <1>2, <1>4, SameDownLemma DEF DownWhole
  <1>13. Backing(t) BY <1>2, <1>4, <1>b DEF Backing, SameUp, SameDown, SamePeers
  <1>14. ~IsShutdown("None") BY DEF IsShutdown
  <1>15. ToTarget(t) BY <1>4, <1>9, <1>14, <1>b DEF ToTarget
  <1>16. ToClient(t) BY <1>2, <1>4, <1>14, <1>b DEF ToClient, Clean, DnsFailed, SamePeers
  <1>17. Sound(t, h) BY <1>0, <1>3, <1>7, <1>10, <1>11, <1>12, <1>13, <1>15, <1>16 DEF Sound, Relay
  <1>18. Queries(s, o) => ~t.target BY <1>4 DEF Queries
  <1> QED BY <1>4, <1>10, <1>17, <1>18, <1>b DEF t, h, r

\* What dispatch in DnsWait establishes.
Left(s, t) ==
    /\ Sound(t, Empty) /\ Refused(t) /\ t.phase # "HandShake"
    /\ t.phase = "DnsWait" => t.target = s.target

\* The socket towards the target could not be opened, or not be registered.
LEMMA SetupFailed ==
    ASSUME NEW s, NEW h, Sound(s, h), s.phase = "DnsWait", s.backend = "None", NEW t, Good(t),
           SameUp(s, t), SameDown(s, t), SamePeers(s, t), t.target = s.target,
           t.backend = s.backend, t.proxy = Shutdown(s.proxy), t.broken = TRUE,
           t.phase \in {"DnsWait", "TCPForward", "UDPForward"},
           IsUdp \/ h = Empty
    PROVE  Left(s, t)
  <1>0. Good(s) /\ h \in Seq(Nat) /\ PeersOK /\ Relay(s, h) BY DEF Sound
  <1>1. Relay(t, h) BY <1>0, ProxyShut
  <1>2. Sound(t, h) BY <1>0, <1>1 DEF Sound
  <1>3. IsShutdown(t.proxy) BY DEF IsShutdown, Shutdown
  <1>4. IsUdp => Excused(t) BY <1>3 DEF Excused
  <1>5. Sound(t, Empty) BY <1>2, <1>4, DropHand
  <1> QED BY <1>3, <1>5 DEF Left, Refused

LEMMA UdpOpened ==
    ASSUME NEW s, NEW h, Sound(s, h), s.phase = "DnsWait", s.backend = "None", WholeUp(s, h),
           IsUdp, NEW t, Good(t), SameUp(s, t), SameDown(s, t),
           t.cend = s.cend, t.tend = s.tend, t.broken = s.broken, t.target = s.target,
           t.proxy = s.proxy, t.backend = "Established", t.phase = "UDPForward"
    PROVE  Sound(t, h)
  <1>0. Good(s) /\ h \in Seq(Nat) /\ PeersOK /\ Relay(s, h) BY DEF Sound
  <1>1. /\ UpLine(t, h) = UpLine(s, h) /\ ReadUpTo(t) = ReadUpTo(s)
        /\ WholeUp(t, h) = WholeUp(s, h) /\ UpOrder(t, h) = UpOrder(s, h)
    BY ZenonT(60), SameUpLemma
  <1>2. ~IsShutdown("Established") /\ ~IsShutdown("None") BY DEF IsShutdown
  <1>3. req # "domain" BY DEF IsUdp
  <1>4. UpWhole(t, h) BY <1>0, <1>1 DEF Relay, UpWhole
  <1>5. DownOrder(t) /\ DownWhole(t) BY <1>0, SameDownLemma DEF Relay, DownWhole
  <1>6. Backing(t) BY <1>0, <1>2 DEF Relay, Backing, SameUp
  <1>7. ToTarget(t) BY <1>0, <1>2, <1>3 DEF Relay, ToTarget, Clean, DnsFailed, SameUp
  <1>8. ToClient(t) BY <1>0, <1>2, <1>3 DEF Relay, ToClient, Clean, DnsFailed
  <1> QED BY <1>0, <1>1, <1>4, <1>5, <1>6, <1>7, <1>8 DEF Sound, Relay

LEMMA SoundSetupUdp ==
    ASSUME NEW s, NEW h, Sound(s, h), s.phase = "DnsWait", s.backend = "None", WholeUp(s, h),
           IsUdp, NEW o \in Outcome
    PROVE  Left(s, DispatchDnsWait(s, h, o))
  <1> DEFINE t == SetupUdp(s, o)
  <1>0. /\ Good(s) /\ s \in ConnState /\ h \in Seq(Nat)
        /\ Good(t)
    BY SetupUdpLemma, MovesGood DEF Sound, Good
  <1>1. DispatchDnsWait(s, h, o) = IF t.phase = "UDPForward" THEN Forward(t, h) ELSE t
    BY DEF DispatchDnsWait
  <1>2. CASE o.open \in {"connectErr", "registerErr"}
    <2>1. /\ SameUp(s, t) /\ SameDown(s, t) /\ SamePeers(s, t) /\ t.target = s.target
          /\ t.backend = s.backend /\ t.proxy = Shutdown(s.proxy) /\ t.broken = TRUE
          /\ t.phase \in {"DnsWait", "TCPForward", "UDPForward"}
      BY <1>0, <1>2 DEF SetupUdp, ConnState, SameUp, SameDown, SamePeers
    <2> HIDE DEF t
    <2>2. Left(s, t) BY <1>0, <2>1, SetupFailed
    <2>3. Forward(t, h) = t BY <2>1 DEF Forward
    <2> QED BY <1>1, <2>2, <2>3
  <1>3. CASE o.open \notin {"connectErr", "registerErr"}
    <2>1. /\ SameUp(s, t) /\ SameDown(s, t) /\ t.cend = s.cend /\ t.tend = s.tend
          /\ t.broken = s.broken /\ t.target = s.target /\ t.proxy = s.proxy
          /\ t.backend = "Established" /\ t.phase = "UDPForward"
      BY <1>0, <1>3 DEF SetupUdp, ConnState, SameUp, SameDown
    <2> HIDE DEF t
    <2>2. Sound(t, h) BY <1>0, <2>1, UdpOpened
    <2>3. Forward(t, h) = BackendDispatch(t, h) BY <2>1 DEF Forward
    <2>4. ~IsShutdown(t.backend) BY <2>1 DEF IsShutdown
    <2>5. Sound(BackendDispatch(t, h), Empty) /\ SameStage(t, BackendDispatch(t, h))
      BY <2>1, <2>2, <2>4, SoundBackendDispatch
    <2>6. Left(s, BackendDispatch(t, h)) BY <2>1, <2>5 DEF Left, Refused, SameStage
    <2> QED BY <1>1, <2>1, <2>3, <2>6
  <1> QED BY <1>2, <1>3

\* With an address, the cached data goes from the line's end into the hand.
LEMMA TcpOpened ==
    ASSUME NEW s, Sound(s, Empty), s.phase = "DnsWait", s.backend = "None", s.target, ~IsUdp,
           NEW t, Good(t), SameDown(s, t), t.tout = s.tout, t.sendBuffer = s.sendBuffer,
           t.data = Empty, t.cin = s.cin,
           t.cend = s.cend, t.tend = s.tend, t.broken = s.broken, t.target = s.target,
           t.proxy = s.proxy, t.backend = "Established", t.phase = s.phase
    PROVE  Sound(t, s.data)
  <1>0. Good(s) /\ s.data \in Seq(Nat) /\ PeersOK /\ Relay(s, Empty) BY Fields DEF Sound
  <1>1. UpLine(t, s.data) = UpLine(s, Empty)
    <2> DEFINE l == targetGot \o s.tout \o s.sendBuffer
    <2>1. l \in Seq(Nat)
      <3>1. targetGot \in Seq(Nat) /\ s.tout \in Seq(Nat) /\ s.sendBuffer \in Seq(Nat)
        BY <1>0, Fields, PeersNat
      <3>2. targetGot \o s.tout \in Seq(Nat) BY <3>1, ConcatLemma
      <3> QED BY <3>1, <3>2, ConcatLemma
    <2>2. UpLine(t, s.data) = (l \o Empty) \o s.data /\ UpLine(s, Empty) = (l \o s.data) \o Empty
      BY DEF UpLine
    <2> HIDE DEF l
    <2>3. l \o s.data \in Seq(Nat) /\ l \o Empty = l BY <1>0, <2>1, ConcatLemma
    <2>4. (l \o s.data) \o Empty = l \o s.data BY <2>3, ConcatLemma
    <2> QED BY <2>2, <2>3, <2>4
  <1>2. ReadUpTo(t) = ReadUpTo(s) BY DEF ReadUpTo
  <1>3. WholeUp(t, s.data) = WholeUp(s, Empty) /\ UpOrder(t, s.data)
    BY <1>0, <1>1, <1>2 DEF WholeUp, UpOrder, Relay
  <1>4. ~IsShutdown("Established") /\ ~IsShutdown("None") BY DEF IsShutdown
  <1>5. UpWhole(t, s.data) BY <1>0, <1>1, <1>2, <1>3, <1>4 DEF Relay, UpWhole, Excused
  <1>6. DownOrder(t) /\ DownWhole(t) BY <1>0, SameDownLemma DEF Relay, DownWhole
  <1>7. Backing(t) BY <1>0, <1>4 DEF Relay, Backing
  <1>8. ToTarget(t) BY <1>0, <1>4 DEF Relay, ToTarget, Clean, DnsFailed
  <1>9. ToClient(t) BY <1>0, <1>4 DEF Relay, ToClient, Clean, DnsFailed
  <1> QED BY <1>0, <1>3, <1>5, <1>6, <1>7, <1>8, <1>9 DEF Sound, Relay

\* try_setup_tcp_target ends with the change to the forwarding phase.
LEMMA Forwarding ==
    ASSUME NEW s, Sound(s, Empty), s.phase = "DnsWait", s.backend # "None", ~IsUdp,
           NEW t, t = [s EXCEPT !.phase = "TCPForward"]
    PROVE  Sound(t, Empty) /\ t.phase = "TCPForward"
  <1>0. Good(s) /\ s \in ConnState /\ PeersOK /\ Relay(s, Empty) BY DEF Sound, Good
  <1>1. /\ SameUp(s, t) /\ SameDown(s, t) /\ SamePeers(s, t) /\ t.target = s.target
        /\ t.backend = s.backend /\ t.proxy = s.proxy /\ t.broken = s.broken
        /\ t.phase = "TCPForward"
    BY <1>0 DEF ConnState, SameUp, SameDown, SamePeers
  <1>a. t \in ConnState BY <1>0 DEF ConnState
  <1>2. Good(t) BY <1>0, <1>1, <1>a DEF Good, SameUp, SameDown
  <1>3. /\ UpLine(t, Empty) = UpLine(s, Empty) /\ ReadUpTo(t) = ReadUpTo(s)
        /\ WholeUp(t, Empty) = WholeUp(s, Empty) /\ UpOrder(t, Empty) = UpOrder(s, Empty)
    BY <1>1, SameUpLemma
  <1>4. s.target BY <1>0 DEF Relay, Backing
  <1>5. UpWhole(t, Empty) BY <1>0, <1>1, <1>3 DEF Relay, UpWhole, Excused, SamePeers
  <1>6. DownOrder(t) /\ DownWhole(t) BY <1>0, <1>1, SameDownLemma DEF Relay, DownWhole
  <1>7. Backing(t) BY <1>0, <1>1 DEF Relay, Backing, SameUp, SameDown, SamePeers
  <1>8. ToTarget(t) BY <1>0, <1>1, <1>3, <1>4 DEF Relay, ToTarget, Clean, DnsFailed, SameUp, SamePeers
  <1>9. ToClient(t) BY <1>0, <1>1, <1>4 DEF Relay, ToClient, Clean, DnsFailed, SameDown, SamePeers
  <1> QED BY <1>0, <1>1, <1>2, <1>3, <1>5, <1>6, <1>7, <1>8, <1>9, EmptyLemma DEF Sound, Relay

LEMMA SoundSetupTcp ==
    ASSUME NEW s, Sound(s, Empty), s.phase = "DnsWait", s.backend = "None", s.target, ~IsUdp,
           NEW o \in Outcome
    PROVE  Left(s, SetupTcp(s, o))
  <1> DEFINE f == SetupTcp(s, o)
  <1>0. /\ Good(s) /\ s \in ConnState /\ s.data \in Seq(Nat) /\ Good(f)
    BY SetupTcpLemma, MovesGood, Fields DEF Sound, Good
  <1>1. CASE o.open \in {"connectErr", "registerErr"}
    <2>1. /\ SameUp(s, f) /\ SameDown(s, f) /\ SamePeers(s, f) /\ f.target = s.target
          /\ f.backend = s.backend /\ f.proxy = Shutdown(s.proxy) /\ f.broken = TRUE
          /\ f.phase \in {"DnsWait", "TCPForward", "UDPForward"}
      BY <1>0, <1>1 DEF SetupTcp, ConnState, SameUp, SameDown, SamePeers
    <2> HIDE DEF f
    <2>2. Left(s, f) BY <1>0, <2>1, EmptyLemma, SetupFailed
    <2> QED BY <2>2 DEF f
  <1>2. CASE o.open \notin {"connectErr", "registerErr"}
    <2> DEFINE t == [s EXCEPT !.backend = "Established", !.data = Empty,
                              !.tcon = IF o.open = "up" THEN "up" ELSE "connecting"]
    <2> DEFINE u == BackendDispatch(t, s.data)
    <2> DEFINE v == [u EXCEPT !.phase = "TCPForward"]
    <2>1. SetupTcp(s, o) = v BY <1>2 DEF SetupTcp
    <2>2. t \in ConnState BY <1>0, EmptyLemma DEF ConnState, Status
    <2>3. /\ SameDown(s, t) /\ t.tout = s.tout /\ t.sendBuffer = s.sendBuffer
          /\ t.data = Empty /\ t.cin = s.cin
          /\ t.cend = s.cend /\ t.tend = s.tend /\ t.broken = s.broken /\ t.target = s.target
          /\ t.proxy = s.proxy /\ t.backend = "Established" /\ t.phase = s.phase
      BY <1>0 DEF ConnState, SameDown
    <2> HIDE DEF t
    <2>4. Good(t) BY <1>0, <2>2, <2>3 DEF Good, SameDown
    <2>5. Sound(t, s.data) BY <2>3, <2>4, TcpOpened
    <2>6. ~IsShutdown(t.backend) /\ t.backend # "None" BY <2>3 DEF IsShutdown
    <2>7. Sound(u, Empty) /\ SameStage(t, u) BY <2>5, <2>6, SoundBackendDispatch
    <2>8. u.backend # "None" BY <1>0, <2>4, <2>6, BackendDispatchLemma, KeepGood
    <2> HIDE DEF u
    <2>9. u.phase = "DnsWait" BY <2>3, <2>7 DEF SameStage
    <2>10. Sound(v, Empty) /\ v.phase = "TCPForward" BY <2>7, <2>8, <2>9, Forwarding
    <2> HIDE DEF v
    <2>11. Left(s, v) BY <2>10 DEF Left, Refused
    <2> QED BY <2>1, <2>11
  <1> QED BY <1>1, <1>2

\* New data is cached behind what is cached already.
LEMMA Cached ==
    ASSUME NEW s, NEW h, Sound(s, h), s.phase = "DnsWait", s.backend = "None", ~IsUdp,
           NEW t, t = [s EXCEPT !.data = @ \o h]
    PROVE  /\ Sound(t, Empty) /\ t.phase = "DnsWait" /\ t.backend = "None"
           /\ t.target = s.target
  <1>0. /\ Good(s) /\ s \in ConnState /\ h \in Seq(Nat) /\ PeersOK /\ Relay(s, h)
        /\ s.data \in Seq(Nat)
    BY Fields DEF Sound, Good
  <1>1. s.data \o h \in Seq(Nat) BY <1>0, ConcatLemma
  <1>2. t \in ConnState BY <1>0, <1>1 DEF ConnState
  <1>3. /\ t.tout = s.tout /\ t.sendBuffer = s.sendBuffer /\ t.cin = s.cin
        /\ t.data = s.data \o h /\ SameDown(s, t) /\ SamePeers(s, t) /\ t.target = s.target
        /\ t.backend = s.backend /\ t.proxy = s.proxy /\ t.broken = s.broken
        /\ t.phase = s.phase
    BY <1>0 DEF ConnState, SameDown, SamePeers
  <1>4. Good(t) BY <1>0, <1>2, <1>3 DEF Good, SameDown
  <1>5. UpLine(t, Empty) = UpLine(s, h)
    <2> DEFINE l == targetGot \o s.tout \o s.sendBuffer
    <2>1. l \in Seq(Nat)
      <3>1. targetGot \in Seq(Nat) /\ s.tout \in Seq(Nat) /\ s.sendBuffer \in Seq(Nat)
        BY <1>0, Fields, PeersNat
      <3>2. targetGot \o s.tout \in Seq(Nat) BY <3>1, ConcatLemma
      <3> QED BY <3>1, <3>2, ConcatLemma
    <2>2. UpLine(t, Empty) = (l \o (s.data \o h)) \o Empty /\ UpLine(s, h) = (l \o s.data) \o h
      BY <1>3 DEF UpLine
    <2> HIDE DEF l
    <2>3. l \o (s.data \o h) \in Seq(Nat) BY <1>1, <2>1, ConcatLemma
    <2>4. (l \o (s.data \o h)) \o Empty = l \o (s.data \o h) BY <2>3, ConcatLemma
    <2>5. (l \o s.data) \o h = l \o (s.data \o h) BY <1>0, <2>1, Assoc
    <2> QED BY <2>2, <2>4, <2>5
  <1>6. ReadUpTo(t) = ReadUpTo(s) BY <1>3 DEF ReadUpTo
  <1>7. WholeUp(t, Empty) = WholeUp(s, h) /\ UpOrder(t, Empty)
    BY <1>0, <1>3, <1>5, <1>6 DEF WholeUp, UpOrder, Relay
  <1>8. ~IsShutdown("None") BY DEF IsShutdown
  <1>9. UpWhole(t, Empty) BY <1>0, <1>3, <1>5, <1>6, <1>7 DEF Relay, UpWhole, Excused, SamePeers
  <1>10. DownOrder(t) /\ DownWhole(t) BY <1>0, <1>3, SameDownLemma DEF Relay, DownWhole
  <1>11. Backing(t) BY <1>0, <1>3 DEF Relay, Backing, SameDown, SamePeers
  <1>12. ToTarget(t) BY <1>0, <1>3, <1>8 DEF Relay, ToTarget, Clean, DnsFailed, SamePeers
  <1>13. ToClient(t) BY <1>0, <1>3 DEF Relay, ToClient, Clean, DnsFailed, SameDown, SamePeers
  <1> QED BY <1>0, <1>3, <1>4, <1>7, <1>9, <1>10, <1>11, <1>12, <1>13, EmptyLemma DEF Sound, Relay

LEMMA SoundDispatchDnsWait ==
    ASSUME NEW s, NEW h, Sound(s, h), s.phase = "DnsWait", s.backend = "None",
           IsUdp => WholeUp(s, h), NEW o \in Outcome
    PROVE  Left(s, DispatchDnsWait(s, h, o))
  <1>1. CASE IsUdp
    BY <1>1, SoundSetupUdp
  <1>2. CASE ~IsUdp
    <2> DEFINE t == [s EXCEPT !.data = @ \o h]
    <2>1. DispatchDnsWait(s, h, o) = IF t.target THEN SetupTcp(t, o) ELSE t
      BY <1>2 DEF DispatchDnsWait
    <2>2. /\ Sound(t, Empty) /\ t.phase = "DnsWait" /\ t.backend = "None"
          /\ t.target = s.target
      BY <1>2, Cached
    <2> HIDE DEF t
    <2>3. CASE t.target
      <3>1. Left(t, SetupTcp(t, o)) BY <1>2, <2>2, <2>3, SoundSetupTcp
      <3> QED BY <2>1, <2>2, <2>3, <3>1 DEF Left
    <2>4. CASE ~t.target
      BY <1>2, <2>1, <2>2, <2>4 DEF Left, Refused
    <2> QED BY <2>3, <2>4
  <1> QED BY <1>1, <1>2

\* How a handler may change the phase and the address.
Moved(s, t, o) ==
    /\ s.phase # "HandShake" => t.phase # "HandShake"
    /\ Refused(t)
    /\ t.phase = "DnsWait" =>
         \/ s.phase = "DnsWait" /\ t.target = s.target
         \/ s.phase = "HandShake" /\ (Queries(s, o) => ~t.target)

LEMMA StageMoved ==
    ASSUME NEW s, NEW t, NEW o, Refused(s), SameStage(s, t)
    PROVE  Moved(s, t, o)
  BY DEF Moved, Refused, SameStage

LEMMA MovedStage ==
    ASSUME NEW s, NEW t, NEW u, NEW o, Moved(s, t, o), SameStage(t, u)
    PROVE  Moved(s, u, o)
  BY DEF Moved, Refused, SameStage

LEMMA StageThenMoved ==
    ASSUME NEW s, NEW t, NEW u, NEW o, SameStage(s, t), Moved(t, u, o)
    PROVE  Moved(s, u, o)
  BY DEF Moved, SameStage, Queries

\* A UDP request without a backend has been refused and is not read again.
LEMMA SoundTryRead ==
    ASSUME NEW s, Sound(s, Empty), Waiting(s), ~(IsUdp /\ s.phase = "DnsWait"),
           s.backend = "None" \/ ~IsShutdown(s.backend), NEW o \in Outcome
    PROVE  Sound(TryReadProxy(s, o), Empty) /\ Moved(s, TryReadProxy(s, o), o)
  <1> DEFINE r == DoReadProxy(s)
  <1>0. /\ Good(s) /\ Relay(s, Empty) /\ s.cin \in Seq(Nat) /\ PeersOK
        /\ s.phase \in {"HandShake", "DnsWait", "TCPForward", "UDPForward"}
    BY Fields DEF Sound, Good, ConnState
  <1>1. r.phase = s.phase /\ r.backend = s.backend BY <1>0, ReadFields DEF Good
  <1>2. Refused(s) BY DEF Refused
  <1>3. CASE s.cend = "bad" \/ s.cin = Empty
    <2>1. TryReadProxy(s, o) = r BY <1>3 DEF TryReadProxy, ReadBuffer
    <2>2. Sound(r, Empty) /\ SameStage(s, r) BY <1>3, ReadDropped
    <2> QED BY <1>2, <2>1, <2>2, StageMoved
  <1>4. CASE s.cend # "bad" /\ s.cin # Empty
    <2>1. TryReadProxy(s, o) = Dispatch(r, s.cin, o) BY <1>4 DEF TryReadProxy, ReadBuffer
    <2>2. CASE s.phase = "HandShake"
      <3> DEFINE t == TryHandshake(r, o)
      <3> DEFINE h == Payload(r, s.cin)
      <3>1. Dispatch(r, s.cin, o) = DispatchDnsWait(t, h, o) BY <1>1, <2>2 DEF Dispatch
      <3>2. /\ Sound(t, h) /\ WholeUp(t, h) /\ t.phase = "DnsWait" /\ t.backend = "None"
            /\ Queries(s, o) => ~t.target
        BY <1>4, <2>2, ReadHead
      <3> HIDE DEF t, h
      <3>3. Left(t, DispatchDnsWait(t, h, o)) BY <3>2, SoundDispatchDnsWait
      <3> DEFINE d == DispatchDnsWait(t, h, o)
      <3> HIDE DEF d
      <3>4. Left(t, d) BY <3>3 DEF d
      <3>5. Sound(d, Empty) /\ Moved(s, d, o) BY <2>2, <3>2, <3>4 DEF Left, Moved
      <3> QED BY <2>1, <3>1, <3>5 DEF d
    <2>3. CASE s.phase = "DnsWait"
      <3>1. Dispatch(r, s.cin, o) = DispatchDnsWait(r, s.cin, o) BY <1>1, <2>3 DEF Dispatch
      <3>2. ~IsUdp /\ s.backend = "None" BY <2>3 DEF Waiting
      <3>3. WholeUp(s, Empty)
        BY <1>0, <1>4, <2>3, <3>2 DEF Relay, UpWhole, Excused, IsShutdown
      <3>4. Sound(r, s.cin) /\ SameStage(s, r) BY <2>3, <3>3, ReadInHand
      <3> HIDE DEF r
      <3> DEFINE d == DispatchDnsWait(r, s.cin, o)
      <3>5. Left(r, d) BY <1>1, <2>3, <3>2, <3>4, SoundDispatchDnsWait
      <3> HIDE DEF d
      <3>6. Sound(d, Empty) /\ Moved(s, d, o) BY <2>3, <3>4, <3>5 DEF Left, Moved, SameStage
      <3> QED BY <2>1, <3>1, <3>6 DEF d
    <2>4. CASE s.phase \in {"TCPForward", "UDPForward"} /\ s.backend = "None"
      <3>1. Dispatch(r, s.cin, o) = r BY <1>1, <2>4 DEF Dispatch, Forward
      <3>2. Excused(s) BY <1>0, <2>4 DEF Relay, Backing, Excused
      <3>3. Sound(r, Empty) /\ SameStage(s, r) BY <2>4, <3>2, ReadDropped
      <3> QED BY <1>2, <2>1, <3>1, <3>3, StageMoved
    <2>5. CASE s.phase \in {"TCPForward", "UDPForward"} /\ s.backend # "None"
      <3> DEFINE d == BackendDispatch(r, s.cin)
      <3>1. Dispatch(r, s.cin, o) = d BY <1>1, <2>5 DEF Dispatch, Forward
      <3>2. ~IsShutdown(s.backend) BY <2>5
      <3>3. WholeUp(s, Empty) BY <1>0, <1>4, <2>5, <3>2 DEF Relay, UpWhole, Excused
      <3>4. Sound(r, s.cin) /\ SameStage(s, r) BY <2>5, <3>3, ReadInHand
      <3> HIDE DEF r
      <3>5. Sound(d, Empty) /\ SameStage(r, d) BY <1>1, <2>5, <3>2, <3>4, SoundBackendDispatch
      <3>6. SameStage(s, d) BY <3>4, <3>5, SameStageTrans
      <3> QED BY <1>2, <2>1, <3>1, <3>5, <3>6, StageMoved
    <2> QED BY <1>0, <2>2, <2>3, <2>4, <2>5
  <1> QED BY <1>3, <1>4

-----------------------------------------------------------------------------
(* Connection::ready *)

LEMMA SoundFlag ==
    ASSUME NEW s, Sound(s, Empty), NEW b \in BOOLEAN
    PROVE  /\ Sound([s EXCEPT !.readProxy = b], Empty)
           /\ SameStage(s, [s EXCEPT !.readProxy = b])
           /\ Sound([s EXCEPT !.readBackend = b], Empty)
           /\ SameStage(s, [s EXCEPT !.readBackend = b])
  <1> DEFINE t == [s EXCEPT !.readProxy = b]
  <1> DEFINE u == [s EXCEPT !.readBackend = b]
  <1>0. Good(s) /\ s \in ConnState /\ Relay(s, Empty) BY DEF Sound, Good
  <1>1. Keep(s, t) /\ Keep(s, u) BY <1>0, FlagLemma
  <1>2. /\ SameUp(s, t) /\ SameDown(s, t) /\ SamePeers(s, t)
        /\ t.phase = s.phase /\ t.target = s.target /\ t.proxy = s.proxy
        /\ t.backend = s.backend /\ t.broken = s.broken
    BY <1>0 DEF ConnState, SameUp, SameDown, SamePeers
  <1>3. /\ SameUp(s, u) /\ SameDown(s, u) /\ SamePeers(s, u)
        /\ u.phase = s.phase /\ u.target = s.target /\ u.proxy = s.proxy
        /\ u.backend = s.backend /\ u.broken = s.broken
    BY <1>0 DEF ConnState, SameUp, SameDown, SamePeers
  <1> HIDE DEF t, u
  <1>4. Relay(t, Empty) BY <1>0, <1>2, FrameLemma
  <1>5. Relay(u, Empty) BY <1>0, <1>3, FrameLemma
  <1>6. Sound(t, Empty) /\ Sound(u, Empty) BY <1>1, <1>4, <1>5, EmptyLemma, SoundKeep
  <1>7. SameStage(s, t) /\ SameStage(s, u) BY <1>2, <1>3 DEF SameStage
  <1> QED BY <1>6, <1>7 DEF t, u

LEMMA SoundProxyReadable ==
    ASSUME NEW s, Sound(s, Empty), Waiting(s), ~(IsUdp /\ s.phase = "DnsWait"), NEW o \in Outcome
    PROVE  Sound(ProxyReadable(s, o), Empty) /\ Moved(s, ProxyReadable(s, o), o)
  <1>1. CASE BackendWritable(s)
    <2>1. s.backend = "None" \/ ~IsShutdown(s.backend) BY <1>1 DEF BackendWritable, Alive, IsShutdown
    <2>2. ProxyReadable(s, o) = TryReadProxy(s, o) BY <1>1 DEF ProxyReadable
    <2> QED BY <2>1, <2>2, SoundTryRead
  <1>2. CASE ~BackendWritable(s)
    <2> DEFINE t == [s EXCEPT !.readProxy = TRUE]
    <2>1. ProxyReadable(s, o) = t BY <1>2 DEF ProxyReadable
    <2>2. Sound(t, Empty) /\ SameStage(s, t) BY SoundFlag
    <2> HIDE DEF t
    <2>3. Refused(s) BY DEF Refused
    <2> QED BY <2>1, <2>2, <2>3, StageMoved
  <1> QED BY <1>1, <1>2

LEMMA SoundEstablished ==
    ASSUME NEW s, Sound(s, Empty)
    PROVE  /\ Sound([s EXCEPT !.proxy = Established(@)], Empty)
           /\ SameStage(s, [s EXCEPT !.proxy = Established(@)])
  <1> DEFINE t == [s EXCEPT !.proxy = Established(@)]
  <1>0. Good(s) /\ s \in ConnState /\ Relay(s, Empty) BY DEF Sound, Good
  <1>1. Keep(s, t) BY <1>0, EstablishedLemma
  <1>2. /\ SameUp(s, t) /\ SameDown(s, t) /\ SamePeers(s, t)
        /\ t.phase = s.phase /\ t.target = s.target /\ t.proxy = Established(s.proxy)
        /\ t.backend = s.backend /\ t.broken = s.broken
    BY <1>0 DEF ConnState, SameUp, SameDown, SamePeers
  <1> HIDE DEF t
  <1>3. /\ IsShutdown(t.proxy) <=> IsShutdown(s.proxy)
        /\ t.proxy = "PeerClosed" <=> s.proxy = "PeerClosed"
    BY <1>2 DEF IsShutdown, Established
  <1>4. /\ UpLine(t, Empty) = UpLine(s, Empty) /\ ReadUpTo(t) = ReadUpTo(s)
        /\ WholeUp(t, Empty) = WholeUp(s, Empty) /\ UpOrder(t, Empty) = UpOrder(s, Empty)
    BY <1>2, SameUpLemma
  <1>5. UpWhole(t, Empty) BY <1>0, <1>2, <1>3, <1>4 DEF Relay, UpWhole, Excused, SameUp, SamePeers
  <1>6. DownOrder(t) /\ DownWhole(t) BY <1>0, <1>2, <1>3, SameDownLemma DEF Relay, DownWhole
  <1>7. Backing(t) BY <1>0, <1>2, <1>3 DEF Relay, Backing, SameUp, SameDown, SamePeers
  <1>8. ToTarget(t) BY <1>0, <1>2, <1>3, <1>4 DEF Relay, ToTarget, Clean, DnsFailed, SameUp, SamePeers
  <1>9. ToClient(t) BY <1>0, <1>2, <1>3 DEF Relay, ToClient, Clean, DnsFailed, SameDown, SamePeers
  <1>10. Relay(t, Empty) BY <1>0, <1>4, <1>5, <1>6, <1>7, <1>8, <1>9 DEF Relay
  <1>11. Sound(t, Empty) BY <1>1, <1>10, EmptyLemma, SoundKeep
  <1>12. SameStage(s, t) BY <1>2, <1>3 DEF SameStage
  <1> QED BY <1>11, <1>12 DEF t

LEMMA SoundProxyWrite ==
    ASSUME NEW s, Sound(s, Empty)
    PROVE  Sound(ProxyWriteReady(s), Empty) /\ SameStage(s, ProxyWriteReady(s))
  <1> DEFINE e == [s EXCEPT !.proxy = Established(@)]
  <1> DEFINE t == DoSendProxy(e)
  <1> DEFINE u == IF t.backend = "None" THEN t ELSE DoReadBackend(t)
  <1>1. Sound(e, Empty) /\ SameStage(s, e) BY SoundEstablished
  <1> HIDE DEF e
  <1>2. Sound(t, Empty) /\ SameStage(e, t) BY <1>1, SoundDoSend
  <1>3. SameStage(s, t) BY <1>1, <1>2, SameStageTrans
  <1> HIDE DEF t
  <1>4. CASE ProxyWritable(t) /\ t.readBackend
    <2>1. Alive(t.proxy) BY <1>4 DEF ProxyWritable
    <2>2. Sound(u, Empty) /\ SameStage(t, u)
      <3>1. CASE t.backend = "None"
        BY <1>2, <3>1 DEF SameStage
      <3>2. CASE t.backend # "None"
        BY <1>2, <2>1, <3>2, SoundReadBackend
      <3> QED BY <3>1, <3>2
    <2> HIDE DEF u
    <2> DEFINE v == [u EXCEPT !.readBackend = FALSE]
    <2>3. Sound(v, Empty) /\ SameStage(u, v) BY <2>2, SoundFlag
    <2>4. ProxyWriteReady(s) = v BY <1>4 DEF ProxyWriteReady, e, t, u
    <2> HIDE DEF v
    <2>5. SameStage(s, v) BY <1>3, <2>2, <2>3, SameStageTrans
    <2> QED BY <2>3, <2>4, <2>5
  <1>5. CASE ~(ProxyWritable(t) /\ t.readBackend)
    <2>1. ProxyWriteReady(s) = t BY <1>5 DEF ProxyWriteReady, e, t
    <2> QED BY <1>2, <1>3, <2>1
  <1> QED BY <1>4, <1>5

LEMMA SoundBackendReadable ==
    ASSUME NEW s, Sound(s, Empty), s.backend # "None"
    PROVE  Sound(BackendReadable(s), Empty) /\ SameStage(s, BackendReadable(s))
  <1>1. CASE ProxyWritable(s)
    <2>1. Alive(s.proxy) BY <1>1 DEF ProxyWritable
    <2>2. BackendReadable(s) = DoReadBackend(s) BY <1>1 DEF BackendReadable
    <2> QED BY <2>1, <2>2, SoundReadBackend
  <1>2. CASE ~ProxyWritable(s)
    <2>1. BackendReadable(s) = [s EXCEPT !.readBackend = TRUE] BY <1>2 DEF BackendReadable
    <2> QED BY <2>1, SoundFlag
  <1> QED BY <1>1, <1>2

LEMMA SoundBackendWrite ==
    ASSUME NEW s, Sound(s, Empty), Waiting(s), s.backend # "None", NEW o \in Outcome
    PROVE  Sound(BackendWriteReady(s, o), Empty) /\ Moved(s, BackendWriteReady(s, o), o)
  <1> DEFINE t == BackendDispatch(s, Empty)
  <1> DEFINE u == TryReadProxy(t, o)
  <1>0. Good(s) /\ s.phase # "DnsWait" BY DEF Sound, Waiting
  <1>1. Sound(t, Empty) /\ SameStage(s, t) BY SoundBackendDispatch
  <1>2. Keep(s, t) BY <1>0, EmptyLemma, BackendDispatchLemma
  <1> HIDE DEF t
  <1>3. t.backend # "None" /\ t.phase = s.phase /\ Waiting(t)
    BY <1>2 DEF Keep, Waiting
  <1>4. Refused(s) BY <1>0 DEF Refused
  <1>5. CASE BackendWritable(t) /\ t.readProxy
    <2>1. ~IsShutdown(t.backend) BY <1>3, <1>5 DEF BackendWritable, Alive, IsShutdown
    <2>2. Sound(u, Empty) /\ Moved(t, u, o) BY <1>0, <1>1, <1>3, <2>1, SoundTryRead
    <2> HIDE DEF u
    <2> DEFINE v == [u EXCEPT !.readProxy = FALSE]
    <2>3. Sound(v, Empty) /\ SameStage(u, v) BY <2>2, SoundFlag
    <2>4. BackendWriteReady(s, o) = v BY <1>5 DEF BackendWriteReady, t, u
    <2> HIDE DEF v
    <2>5. Moved(t, v, o) BY <2>2, <2>3, MovedStage
    <2>6. Moved(s, v, o) BY <1>1, <2>5, StageThenMoved
    <2> QED BY <2>3, <2>4, <2>6
  <1>6. CASE ~(BackendWritable(t) /\ t.readProxy)
    <2>1. BackendWriteReady(s, o) = t BY <1>6 DEF BackendWriteReady, t
    <2>2. Moved(s, t, o) BY <1>1, <1>4, StageMoved
    <2> QED BY <1>1, <2>1, <2>2
  <1> QED BY <1>5, <1>6

\* The statuses after the end of ready: who is closed only now had nothing
\* left to send, and the other side was closed before.
LEMMA SettleStatus ==
    ASSUME NEW s, Good(s), Backing(s), NEW t, t = Settle(s)
    PROVE  /\ SameUp(s, t) /\ SameDown(s, t) /\ SamePeers(s, t)
           /\ t.phase = s.phase /\ t.target = s.target /\ t.broken = s.broken
           /\ t.backend = "None" <=> s.backend = "None"
           /\ IsShutdown(s.proxy) => IsShutdown(t.proxy)
           /\ IsShutdown(s.backend) => IsShutdown(t.backend)
           /\ (IsShutdown(t.backend) /\ ~IsShutdown(s.backend)) =>
                (s.backend # "None" /\ IsShutdown(s.proxy) /\ s.sendBuffer = Empty)
           /\ (IsShutdown(t.proxy) /\ ~IsShutdown(s.proxy)) =>
                (s.backend # "None" /\ IsShutdown(s.backend) /\ s.session = Empty)
           /\ t.backend = "PeerClosed" => IsShutdown(t.proxy)
           /\ t.proxy = "PeerClosed" => IsShutdown(t.backend)
  <1> DEFINE b == IF s.backend # "None" /\ IsShutdown(s.proxy) THEN PeerClosed(s.backend) ELSE s.backend
  <1> DEFINE p == IF s.backend # "None" /\ IsShutdown(b) THEN PeerClosed(s.proxy) ELSE s.proxy
  <1> DEFINE pp == CheckStatus(p, s.session = Empty)
  <1> DEFINE bb == IF b = "None" THEN b ELSE CheckStatus(b, s.sendBuffer = Empty)
  <1>0. /\ s \in ConnState /\ s.proxy \in Status /\ s.backend \in Status \cup {"None"}
    BY Fields DEF Good
  <1>1. t = [s EXCEPT !.proxy = pp, !.backend = bb] BY DEF Settle
  <1>2. /\ b = "None" <=> s.backend = "None"
        /\ IsShutdown(b) <=> IsShutdown(s.backend)
        /\ b = "PeerClosed" => (s.backend # "None" /\ IsShutdown(s.proxy))
    BY <1>0 DEF PeerClosed, IsShutdown, Backing, Status
  <1> HIDE DEF b
  <1>3. /\ IsShutdown(p) <=> IsShutdown(s.proxy)
        /\ p = "PeerClosed" => (s.backend # "None" /\ IsShutdown(s.backend))
    BY <1>0, <1>2 DEF PeerClosed, IsShutdown, Backing, Status
  <1> HIDE DEF p
  <1>4. /\ bb = "None" <=> s.backend = "None"
        /\ IsShutdown(b) => IsShutdown(bb)
        /\ (IsShutdown(bb) /\ ~IsShutdown(b)) => (b = "PeerClosed" /\ s.sendBuffer = Empty)
        /\ bb = "PeerClosed" => b = "PeerClosed"
    BY <1>2 DEF CheckStatus, IsShutdown
  <1>5. /\ IsShutdown(p) => IsShutdown(pp)
        /\ (IsShutdown(pp) /\ ~IsShutdown(p)) => (p = "PeerClosed" /\ s.session = Empty)
        /\ pp = "PeerClosed" => p = "PeerClosed"
    BY DEF CheckStatus, IsShutdown
  <1> HIDE DEF pp, bb
  <1>6. /\ SameUp(s, t) /\ SameDown(s, t) /\ SamePeers(s, t)
        /\ t.phase = s.phase /\ t.target = s.target /\ t.broken = s.broken
        /\ t.proxy = pp /\ t.backend = bb
    BY <1>0, <1>1 DEF ConnState, SameUp, SameDown, SamePeers
  <1> QED BY <1>2, <1>3, <1>4, <1>5, <1>6

LEMMA SoundSettle ==
    ASSUME NEW s, Sound(s, Empty), Waiting(s)
    PROVE  Sound(Settle(s), Empty) /\ SameStage(s, Settle(s))
  <1> DEFINE t == Settle(s)
  <1>0. Good(s) /\ PeersOK /\ Relay(s, Empty) BY DEF Sound
  <1>1. Good(t) BY <1>0, SettleLemma, MovesGood
  <1>2. /\ SameUp(s, t) /\ SameDown(s, t) /\ SamePeers(s, t)
        /\ t.phase = s.phase /\ t.target = s.target /\ t.broken = s.broken
        /\ t.backend = "None" <=> s.backend = "None"
        /\ IsShutdown(s.proxy) => IsShutdown(t.proxy)
        /\ IsShutdown(s.backend) => IsShutdown(t.backend)
        /\ (IsShutdown(t.backend) /\ ~IsShutdown(s.backend)) =>
             (s.backend # "None" /\ IsShutdown(s.proxy) /\ s.sendBuffer = Empty)
        /\ (IsShutdown(t.proxy) /\ ~IsShutdown(s.proxy)) =>
             (s.backend # "None" /\ IsShutdown(s.backend) /\ s.session = Empty)
        /\ t.backend = "PeerClosed" => IsShutdown(t.proxy)
        /\ t.proxy = "PeerClosed" => IsShutdown(t.backend)
    BY <1>0, SettleStatus DEF Relay
  <1> HIDE DEF t
  <1>3. /\ UpLine(t, Empty) = UpLine(s, Empty) /\ ReadUpTo(t) = ReadUpTo(s)
        /\ WholeUp(t, Empty) = WholeUp(s, Empty) /\ UpOrder(t, Empty) = UpOrder(s, Empty)
    BY <1>2, SameUpLemma
  <1>4. UpWhole(t, Empty) BY <1>0, <1>2, <1>3 DEF Relay, UpWhole, Excused, SameUp, SamePeers
  <1>5. DownOrder(t) /\ DownWhole(t) BY <1>0, <1>2, SameDownLemma DEF Relay, DownWhole
  <1>6. Backing(t) BY <1>0, <1>2 DEF Relay, Backing, SameUp, SameDown, SamePeers
  <1>7. s.backend # "None" => ~DnsFailed(s) /\ s.phase # "HandShake"
    BY <1>0 DEF Relay, Backing, DnsFailed, UpWhole, IsUdp
  <1>8. (s.cend = "fin" /\ s.backend # "None" /\ ~IsShutdown(s.backend)) => WholeUp(s, Empty)
    BY <1>0, <1>7 DEF Relay, UpWhole, Excused
  <1>9. ToTarget(t)
    BY <1>0, <1>2, <1>3, <1>7, <1>8 DEF Relay, ToTarget, Clean, DnsFailed, SameUp, SamePeers
  <1>10. ToClient(t)
    BY <1>0, <1>2, <1>7 DEF Relay, ToClient, Clean, DnsFailed, SameDown, SamePeers
  <1>11. Sound(t, Empty)
    BY <1>0, <1>1, <1>3, <1>4, <1>5, <1>6, <1>9, <1>10, EmptyLemma DEF Sound, Relay
  <1>12. SameStage(s, t) BY <1>2 DEF SameStage
  <1> QED BY <1>11, <1>12 DEF t

LEMMA SoundReadyProxy ==
    ASSUME NEW s, Sound(s, Empty), Waiting(s), ~(IsUdp /\ s.phase = "DnsWait"),
           NEW flags, NEW o \in Outcome
    PROVE  /\ Sound(ReadyProxy(s, flags, o), Empty) /\ Moved(s, ReadyProxy(s, flags, o), o)
           /\ (IsUdp /\ ReadyProxy(s, flags, o).phase = "DnsWait")
                => Destroyed(ReadyProxy(s, flags, o))
  <1> DEFINE t == IF "r" \in flags THEN ProxyReadable(s, o) ELSE s
  <1> DEFINE u == IF "w" \in flags THEN ProxyWriteReady(t) ELSE t
  <1>0. Good(s) /\ Refused(s) /\ SameStage(s, s) BY DEF Sound, Refused, SameStage
  <1>1. Moves(s, t) /\ Sound(t, Empty) /\ Moved(s, t, o)
    BY <1>0, ProxyReadableLemma, MovesRefl, SoundProxyReadable, StageMoved
  <1> HIDE DEF t
  <1>2. Good(t) /\ Waiting(t) BY <1>1, MovesGood
  <1>a. SameStage(t, t) BY DEF SameStage
  <1>3. Moves(t, u) /\ Sound(u, Empty) /\ SameStage(t, u)
    BY <1>1, <1>2, <1>a, ProxyWriteReadyLemma, KeepMoves, MovesRefl, SoundProxyWrite
  <1> HIDE DEF u
  <1>4. Waiting(u) /\ Good(u) BY <1>3, MovesGood
  <1>5. Moved(s, u, o) BY <1>1, <1>3, MovedStage
  <1>6. Sound(Settle(u), Empty) /\ SameStage(u, Settle(u)) BY <1>3, <1>4, SoundSettle
  <1>7. Moved(s, Settle(u), o) BY <1>5, <1>6, MovedStage
  <1>8. ASSUME IsUdp, Settle(u).phase = "DnsWait" PROVE Destroyed(Settle(u))
    <2>1. u.phase = "DnsWait" BY <1>6, <1>8 DEF SameStage
    <2>2. IsShutdown(u.proxy) /\ u.backend = "None" /\ u \in ConnState
      BY <1>4, <1>5, <1>8, <2>1 DEF Moved, Refused, Waiting, Good
    <2>3. /\ Settle(u).proxy = CheckStatus(u.proxy, u.session = Empty)
          /\ Settle(u).backend = "None"
      BY <2>2 DEF Settle, ConnState
    <2> QED BY <2>2, <2>3 DEF Destroyed, CheckStatus
  <1>9. ReadyProxy(s, flags, o) = Settle(u) BY DEF ReadyProxy, t, u
  <1> QED BY <1>6, <1>7, <1>8, <1>9

LEMMA SoundReadyBackend ==
    ASSUME NEW s, Sound(s, Empty), Waiting(s), Refused(s), NEW flags, NEW o \in Outcome
    PROVE  Sound(ReadyBackend(s, flags, o), Empty) /\ Moved(s, ReadyBackend(s, flags, o), o)
  <1> DEFINE t == IF "r" \in flags THEN BackendReadable(s) ELSE s
  <1> DEFINE u == IF "w" \in flags THEN BackendWriteReady(t, o) ELSE t
  <1> DEFINE v == IF s.phase \in {"UDPForward", "TCPForward"} /\ s.backend # "None" THEN u ELSE s
  <1>0. Good(s) /\ SameStage(s, s) BY DEF Sound, SameStage
  <1>1. ReadyBackend(s, flags, o) = Settle(v) BY DEF ReadyBackend
  <1>2. Sound(v, Empty) /\ Waiting(v) /\ Moved(s, v, o)
    <2>1. CASE s.phase \in {"UDPForward", "TCPForward"} /\ s.backend # "None"
      <3>1. Keep(s, t) /\ Sound(t, Empty) /\ SameStage(s, t)
        BY <1>0, <2>1, BackendReadableLemma, KeepRefl, SoundBackendReadable
      <3> HIDE DEF t
      <3>2. Good(t) /\ t.backend # "None" /\ Moves(s, t) BY <2>1, <3>1, KeepGood, KeepMoves
      <3>3. Waiting(t) /\ Refused(t) BY <3>1, <3>2, MovesGood DEF Refused, SameStage
      <3>a. SameStage(t, t) BY DEF SameStage
      <3>4. Moves(t, u) /\ Sound(u, Empty) /\ Moved(t, u, o)
        BY <3>1, <3>2, <3>3, <3>a, BackendWriteReadyLemma, MovesRefl, SoundBackendWrite, StageMoved
      <3> HIDE DEF u
      <3>5. Moved(s, u, o) BY <3>1, <3>4, StageThenMoved
      <3>6. v = u BY <2>1
      <3> QED BY <3>4, <3>5, <3>6, MovesGood
    <2>2. CASE ~(s.phase \in {"UDPForward", "TCPForward"} /\ s.backend # "None")
      <3>1. v = s BY <2>2
      <3> QED BY <1>0, <3>1, StageMoved
    <2> QED BY <2>1, <2>2
  <1> HIDE DEF v
  <1>3. Sound(Settle(v), Empty) /\ SameStage(v, Settle(v)) BY <1>2, SoundSettle
  <1> QED BY <1>1, <1>2, <1>3, MovedStage

\* The answer of the resolver is taken once, while the connection waits for it.
LEMMA SoundReadyDns ==
    ASSUME NEW s, Sound(s, Empty), Waiting(s), Refused(s), s.phase # "HandShake",
           req = "domain", dns \in {"found", "failed"}, s.phase = "DnsWait" => ~s.target,
           NEW o \in Outcome
    PROVE  /\ Sound(ReadyDns(s, dns = "found", o), Empty)
           /\ ReadyDns(s, dns = "found", o).phase # "HandShake"
           /\ Refused(ReadyDns(s, dns = "found", o))
  <1> DEFINE r == [s EXCEPT !.target = TRUE]
  <1> DEFINE f == [s EXCEPT !.proxy = Shutdown(@)]
  <1>0. /\ Good(s) /\ s \in ConnState /\ PeersOK /\ Relay(s, Empty) /\ ~IsUdp
        /\ s.broken \in BOOLEAN /\ s.target \in BOOLEAN
    BY DEF Sound, Good, IsUdp, ConnState
  <1>1. /\ (s.phase = "DnsWait" /\ dns = "found") =>
             ReadyDns(s, dns = "found", o) = Settle(Dispatch(r, Empty, o))
        /\ (s.phase = "DnsWait" /\ dns # "found") => ReadyDns(s, dns = "found", o) = Settle(f)
        /\ s.phase # "DnsWait" => ReadyDns(s, dns = "found", o) = Settle(s)
    BY DEF ReadyDns
  <1>2. CASE s.phase = "DnsWait" /\ dns = "found"
    <2>0. s.backend = "None" BY <1>2 DEF Waiting
    <2>1. /\ SameUp(s, r) /\ SameDown(s, r) /\ SamePeers(s, r) /\ r.phase = s.phase
          /\ r.proxy = s.proxy /\ r.backend = s.backend /\ r.broken = s.broken
      BY <1>0 DEF ConnState, SameUp, SameDown, SamePeers
    <2>a. r \in ConnState BY <1>0 DEF ConnState
    <2> HIDE DEF r
    <2>2. Good(r) /\ Waiting(r) BY <1>0, <2>0, <2>1, <2>a DEF Good, SameUp, SameDown, Waiting
    <2>3. Relay(r, Empty)
      <3>1. /\ UpLine(r, Empty) = UpLine(s, Empty) /\ ReadUpTo(r) = ReadUpTo(s)
            /\ WholeUp(r, Empty) = WholeUp(s, Empty) /\ UpOrder(r, Empty) = UpOrder(s, Empty)
        BY <2>1, SameUpLemma
      <3>2. ~DnsFailed(s) BY <1>2 DEF DnsFailed
      <3>3. UpWhole(r, Empty) BY <1>0, <2>1, <3>1 DEF Relay, UpWhole, Excused, SameUp, SamePeers
      <3>4. DownOrder(r) /\ DownWhole(r) BY <1>0, <2>1, SameDownLemma DEF Relay, DownWhole
      <3>5. Backing(r) BY <1>0, <2>0, <2>1 DEF Relay, Backing, SameUp, SameDown, SamePeers
      <3>6. ToTarget(r) BY <1>0, <2>1, <3>1, <3>2 DEF Relay, ToTarget, Clean, SameUp, SamePeers
      <3>7. ToClient(r) BY <1>0, <2>1, <3>2 DEF Relay, ToClient, Clean, SameDown, SamePeers
      <3> QED BY <1>0, <3>1, <3>3, <3>4, <3>5, <3>6, <3>7 DEF Relay
    <2>4. Sound(r, Empty) BY <1>0, <2>2, <2>3, EmptyLemma DEF Sound
    <2> DEFINE d == Dispatch(r, Empty, o)
    <2>5. d = DispatchDnsWait(r, Empty, o) BY <1>2, <2>1 DEF Dispatch
    <2>6. Left(r, d) BY <1>0, <1>2, <2>0, <2>1, <2>4, <2>5, SoundDispatchDnsWait
    <2>7. Waiting(d) BY <1>2, <2>1, <2>2, EmptyLemma, DispatchLemma, MovesGood
    <2> HIDE DEF d
    <2>8. Sound(Settle(d), Empty) /\ SameStage(d, Settle(d)) BY <2>6, <2>7, SoundSettle DEF Left
    <2>9. Settle(d).phase # "HandShake" /\ Refused(Settle(d))
      BY <2>6, <2>8 DEF Left, SameStage, Refused
    <2> QED BY <1>1, <1>2, <2>8, <2>9 DEF d
  <1>3. CASE s.phase = "DnsWait" /\ dns # "found"
    <2>1. /\ SameUp(s, f) /\ SameDown(s, f) /\ SamePeers(s, f) /\ f.phase = s.phase
          /\ f.proxy = Shutdown(s.proxy) /\ f.backend = s.backend /\ f.broken = s.broken
          /\ f.target = s.target
      BY <1>0 DEF ConnState, SameUp, SameDown, SamePeers
    <2>a. Shutdown(s.proxy) \in Status BY <1>0, Fields, StatusLemma
    <2>b. f \in ConnState BY <1>0, <2>a DEF ConnState
    <2> HIDE DEF f
    <2>2. Good(f) /\ Waiting(f) BY <1>0, <2>1, <2>b DEF Good, SameUp, SameDown, Waiting
    <2>3. DnsFailed(f) BY <1>3, <2>1 DEF DnsFailed
    <2>4. Relay(f, Empty) BY <1>0, <2>1, <2>3, ProxyShut
    <2>5. Sound(f, Empty) BY <1>0, <2>2, <2>4, EmptyLemma DEF Sound
    <2>6. Sound(Settle(f), Empty) /\ SameStage(f, Settle(f)) BY <2>2, <2>5, SoundSettle
    <2> QED BY <1>0, <1>1, <1>3, <2>1, <2>6 DEF SameStage, Refused
  <1>4. CASE s.phase # "DnsWait"
    <2>1. Sound(Settle(s), Empty) /\ SameStage(s, Settle(s)) BY SoundSettle
    <2> QED BY <1>0, <1>1, <1>4, <2>1 DEF SameStage, Refused
  <1> QED BY <1>2, <1>3, <1>4

\* destroy: nothing moves, both endpoints are closed.
LEMMA DestroyKeeps ==
    ASSUME NEW s, Sound(s, Empty), NEW t, t = Destroy(s)
    PROVE  /\ UpOrder(t, Empty) /\ UpWhole(t, Empty) /\ DownOrder(t) /\ DownWhole(t) /\ Backing(t)
           /\ t.phase = s.phase /\ t.target = s.target
  <1> DEFINE pp == CheckStatus(Shutdown(s.proxy), FALSE)
  <1> DEFINE bb == IF s.backend = "None" THEN s.backend ELSE CheckStatus(Shutdown(s.backend), FALSE)
  <1>0. Good(s) /\ s \in ConnState /\ PeersOK /\ Relay(s, Empty) BY DEF Sound, Good
  <1>1. t = [s EXCEPT !.proxy = pp, !.backend = bb] BY <1>0 DEF Destroy, ConnState
  <1>2. /\ pp = "Deregistered" /\ bb = (IF s.backend = "None" THEN "None" ELSE "Deregistered")
    BY DEF CheckStatus, Shutdown, IsShutdown
  <1> HIDE DEF pp, bb
  <1>3. /\ SameUp(s, t) /\ SameDown(s, t) /\ SamePeers(s, t)
        /\ t.phase = s.phase /\ t.target = s.target /\ t.broken = s.broken
        /\ t.proxy = pp /\ t.backend = bb
    BY <1>0, <1>1 DEF ConnState, SameUp, SameDown, SamePeers
  <1>4. /\ IsShutdown(t.proxy) /\ t.proxy # "PeerClosed" /\ t.backend # "PeerClosed"
        /\ t.backend = "None" <=> s.backend = "None"
        /\ s.backend # "None" => IsShutdown(t.backend)
    BY <1>2, <1>3 DEF IsShutdown
  <1>5. /\ UpLine(t, Empty) = UpLine(s, Empty) /\ ReadUpTo(t) = ReadUpTo(s)
        /\ WholeUp(t, Empty) = WholeUp(s, Empty) /\ UpOrder(t, Empty) = UpOrder(s, Empty)
    BY <1>3, SameUpLemma
  <1>a. IsShutdown(s.backend) => IsShutdown(t.backend) BY <1>2, <1>3 DEF IsShutdown
  <1>6. UpWhole(t, Empty)
    BY <1>0, <1>3, <1>4, <1>5, <1>a DEF Relay, UpWhole, Excused, SameUp, SamePeers
  <1>7. DownOrder(t) /\ DownWhole(t) BY <1>0, <1>3, <1>4, SameDownLemma DEF Relay, DownWhole
  <1>8. Backing(t) BY <1>0, <1>3, <1>4 DEF Relay, Backing, SameUp, SameDown, SamePeers
  <1> QED BY <1>0, <1>3, <1>5, <1>6, <1>7, <1>8 DEF Relay

-----------------------------------------------------------------------------
(* The specification *)

\* The turns of the event loop.  A refused UDP request is on the list of closed
\* connections and has no event left in this batch, so that nothing reads it
\* again; a query belongs to a domain whose head has been parsed, and its
\* answer is in ev or in the batch, never in both and never twice.
Turn ==
    /\ (IsUdp /\ c.phase = "DnsWait") => gone \/ (~polling /\ removed /\ batch["proxy"] = {})
    /\ Refused(c)
    /\ dns # "idle" => req = "domain" /\ c.phase # "HandShake"
    /\ dns \in {"idle", "pending", "done"} => "resolver" \notin ev /\ batch["resolver"] = {}
    /\ batch["resolver"] # {} => "resolver" \notin ev
    /\ (dns \in {"pending", "found", "failed"} /\ c.phase = "DnsWait") => ~c.target

\* The inductive invariant.
RInv == IInv /\ Relay(c, Empty) /\ Turn

LEMMA RInvSound ==
    ASSUME RInv PROVE Sound(c, Empty) /\ Waiting(c) /\ LoopOK /\ Turn
  BY EmptyLemma DEF RInv, IInv, Sound

LEMMA RInitLemma == Init => RInv
  <1> SUFFICES ASSUME Init PROVE RInv OBVIOUS
  <1>1. IInv BY InitLemma
  <1>2. /\ c.phase = "HandShake" /\ c.target = FALSE /\ c.proxy = "Connecting" /\ c.backend = "None"
        /\ c.data = Empty /\ c.session = Empty /\ c.sendBuffer = Empty
        /\ c.cin = Empty /\ c.cout = Empty /\ c.cend = "open"
        /\ c.tin = Empty /\ c.tout = Empty /\ c.tend = "open" /\ c.tcon = "no"
        /\ c.broken = FALSE
    BY DEF Init, NewConn
  <1>3. targetGot = Empty /\ clientGot = Empty /\ upSent = 0 /\ downSent = 0 BY DEF Init
  <1>4. Empty \o Empty = Empty BY EmptyLemma, ConcatLemma
  <1>5. UpLine(c, Empty) = Empty /\ DownLine(c) = Empty BY <1>2, <1>3, <1>4 DEF UpLine, DownLine
  <1>6. ReadUpTo(c) = 0 BY <1>2, <1>3, EmptyLemma DEF ReadUpTo
  <1>7. UpOrder(c, Empty) BY <1>2, <1>5, <1>6, RunEmpty DEF UpOrder
  <1>8. UpWhole(c, Empty) BY <1>2, <1>3, <1>5, EmptyLemma DEF UpWhole
  <1>9. DownOrder(c) /\ DownWhole(c)
    BY <1>2, <1>3, <1>5, RunEmpty, EmptyLemma DEF DownOrder, DownWhole, WholeDown
  <1>10. Backing(c) BY <1>2 DEF Backing, IsShutdown
  <1>11. ToTarget(c) /\ ToClient(c) BY <1>2 DEF ToTarget, ToClient, IsShutdown
  <1>12. Turn BY <1>2 DEF Init, Turn, Refused, Source
  <1> QED BY <1>1, <1>7, <1>8, <1>9, <1>10, <1>11, <1>12 DEF RInv, Relay

\* A handler's result keeps the invariant when the step ends: only the state
\* of the query may have moved on.
LEMMA RelayPrimed ==
    ASSUME Relay(c', Empty), UNCHANGED <<req, env>>, timedOut => timedOut',
           DnsFailed(c') => DnsFailed(c)'
    PROVE  Relay(c, Empty)'
  <1>0. /\ UNCHANGED req /\ UNCHANGED upSent /\ UNCHANGED downSent
        /\ UNCHANGED clientGot /\ UNCHANGED targetGot
    BY DEF env
  <1>1. /\ UpLine(c, Empty)' = UpLine(c', Empty) /\ DownLine(c)' = DownLine(c')
        /\ First' = First /\ ReadUpTo(c)' = ReadUpTo(c') /\ (IsUdp)' = IsUdp
    BY <1>0 DEF UpLine, DownLine, First, ReadUpTo, IsUdp
  <1>2. (WholeUp(c, Empty))' = WholeUp(c', Empty) /\ (WholeDown(c))' = WholeDown(c')
    BY <1>0, <1>1 DEF WholeUp, WholeDown
  <1>3. (UpOrder(c, Empty))' BY <1>1 DEF Relay, UpOrder
  <1>4. (UpWhole(c, Empty))' BY <1>0, <1>1, <1>2 DEF Relay, UpWhole, Excused
  <1>5. (DownOrder(c))' /\ (DownWhole(c))'
    BY <1>0, <1>1, <1>2 DEF Relay, DownOrder, DownWhole
  <1>6. (Backing(c))' BY <1>1 DEF Relay, Backing
  <1>7. (Clean(c))' => Clean(c') BY DEF Clean
  <1>8. (ToTarget(c))' BY <1>2, <1>7 DEF Relay, ToTarget
  <1>9. (ToClient(c))' BY <1>7 DEF Relay, ToClient
  <1> QED BY <1>3, <1>4, <1>5, <1>6, <1>8, <1>9 DEF Relay

LEMMA BatchLemma ==
    ASSUME LoopOK, NEW x \in Source, NEW y \in Source
    PROVE  [batch EXCEPT ![x] = {}][y] = IF y = x THEN {} ELSE batch[y]
  BY DEF LoopOK

\* What the loop does with the result of a handler.
LEMMA AfterLemma ==
    ASSUME LoopOK, NEW s, NEW x \in Source, AfterReady(s, x)
    PROVE  /\ c' = s /\ UNCHANGED <<req, env>> /\ UNCHANGED polling /\ UNCHANGED gone
           /\ UNCHANGED timedOut /\ UNCHANGED req
           /\ removed' = (removed \/ Destroyed(s))
           /\ "resolver" \in ev' => "resolver" \in ev
           /\ \A y \in Source : batch'[y] = IF y = x THEN {} ELSE batch[y]
  <1>1. \A y \in Source : batch'[y] = IF y = x THEN {} ELSE batch[y]
    BY BatchLemma DEF AfterReady
  <1>2. "resolver" \in ev' => "resolver" \in ev BY DEF AfterReady
  <1>3. /\ c' = s /\ UNCHANGED <<req, env>> /\ UNCHANGED polling /\ UNCHANGED gone
        /\ UNCHANGED timedOut /\ UNCHANGED req
        /\ removed' = (removed \/ Destroyed(s))
    BY DEF AfterReady, env
  <1> QED BY <1>1, <1>2, <1>3

LEMMA StepHandleProxy ==
    ASSUME RInv, HandleProxy PROVE Relay(c, Empty)' /\ Turn'
  <1>0. Sound(c, Empty) /\ Waiting(c) /\ LoopOK /\ Turn BY RInvSound
  <1>1. ~polling /\ batch["proxy"] # {} /\ ~gone BY DEF HandleProxy
  <1>2. PICK o \in Outcome :
          /\ AfterReady(ReadyProxy(c, batch["proxy"], o), "proxy")
          /\ dns' = IF Queries(c, o) /\ c'.phase # "HandShake" THEN "pending" ELSE dns
    BY DEF HandleProxy
  <1> DEFINE t == ReadyProxy(c, batch["proxy"], o)
  <1>3. ~(IsUdp /\ c.phase = "DnsWait") BY <1>0, <1>1 DEF Turn
  <1>4. /\ Sound(t, Empty) /\ Moved(c, t, o)
        /\ (IsUdp /\ t.phase = "DnsWait") => Destroyed(t)
    BY <1>0, <1>3, SoundReadyProxy
  <1> HIDE DEF t
  <1>5. /\ c' = t /\ UNCHANGED <<req, env>> /\ UNCHANGED polling /\ UNCHANGED gone
        /\ UNCHANGED timedOut /\ UNCHANGED req
        /\ removed' = (removed \/ Destroyed(t))
        /\ "resolver" \in ev' => "resolver" \in ev
        /\ batch'["proxy"] = {} /\ batch'["resolver"] = batch["resolver"]
    BY <1>0, <1>2, AfterLemma DEF t, Source
  <1>6. Queries(c, o) => c.phase = "HandShake" /\ req = "domain" /\ dns = "idle"
    BY <1>0 DEF Queries, Turn
  <1>7. DnsFailed(c') => (DnsFailed(c))'
    <2>1. ASSUME DnsFailed(c') PROVE dns' = dns BY <1>2, <1>6, <2>1 DEF DnsFailed
    <2> QED BY <1>5, <2>1 DEF DnsFailed
  <1>8. Relay(c, Empty)' BY <1>4, <1>5, <1>7, RelayPrimed DEF Sound
  <1>9. (IsUdp)' = IsUdp BY <1>5 DEF IsUdp
  <1>10. (Refused(c))' BY <1>4, <1>5, <1>9 DEF Moved, Refused
  <1>11. (IsUdp /\ c.phase = "DnsWait")' => (gone \/ (~polling /\ removed /\ batch["proxy"] = {}))'
    BY <1>1, <1>4, <1>5, <1>9
  <1>12. dns' # "idle" => req' = "domain" /\ c'.phase # "HandShake"
    BY <1>0, <1>2, <1>4, <1>5, <1>6 DEF Turn, Moved
  <1>13. /\ dns' \in {"idle", "pending", "done"} => "resolver" \notin ev' /\ batch'["resolver"] = {}
         /\ batch'["resolver"] # {} => "resolver" \notin ev'
    BY <1>0, <1>2, <1>5, <1>6 DEF Turn
  <1>14. (dns' \in {"pending", "found", "failed"} /\ c'.phase = "DnsWait") => ~c'.target
    <2>1. CASE Queries(c, o) BY <1>4, <1>5, <1>6, <2>1 DEF Moved
    <2>2. CASE ~Queries(c, o)
      <3>1. dns' = dns BY <1>2, <2>2
      <3> QED BY <1>0, <1>4, <1>5, <3>1 DEF Moved, Turn
    <2> QED BY <2>1, <2>2
  <1> QED BY <1>8, <1>10, <1>11, <1>12, <1>13, <1>14 DEF Turn

LEMMA StepHandleBackend ==
    ASSUME RInv, HandleBackend PROVE Relay(c, Empty)' /\ Turn'
  <1>0. Sound(c, Empty) /\ Waiting(c) /\ LoopOK /\ Turn BY RInvSound
  <1>1. ~polling /\ ~gone /\ UNCHANGED dns BY DEF HandleBackend
  <1>2. PICK o \in Outcome : AfterReady(ReadyBackend(c, batch["backend"], o), "backend")
    BY DEF HandleBackend
  <1> DEFINE t == ReadyBackend(c, batch["backend"], o)
  <1>3. Refused(c) BY <1>0 DEF Turn
  <1>4. Sound(t, Empty) /\ Moved(c, t, o) BY <1>0, <1>3, SoundReadyBackend
  <1>a. c.phase \in {"HandShake", "DnsWait"} => t.phase = c.phase /\ t.target = c.target
    BY <1>0 DEF ReadyBackend, Settle, Sound, Good, ConnState
  <1> HIDE DEF t
  <1>5. /\ c' = t /\ UNCHANGED <<req, env>> /\ UNCHANGED polling /\ UNCHANGED gone
        /\ UNCHANGED timedOut /\ UNCHANGED req
        /\ removed' = (removed \/ Destroyed(t))
        /\ "resolver" \in ev' => "resolver" \in ev
        /\ batch'["proxy"] = batch["proxy"] /\ batch'["resolver"] = batch["resolver"]
    BY <1>0, <1>2, AfterLemma DEF t, Source
  <1>7. DnsFailed(c') => (DnsFailed(c))' BY <1>1, <1>5 DEF DnsFailed
  <1>8. Relay(c, Empty)' BY <1>4, <1>5, <1>7, RelayPrimed DEF Sound
  <1>9. (IsUdp)' = IsUdp BY <1>5 DEF IsUdp
  <1>10. (Refused(c))' BY <1>4, <1>5, <1>9 DEF Moved, Refused
  <1>b. t.phase = "DnsWait" => c.phase = "DnsWait" /\ t.target = c.target
    BY <1>4, <1>a DEF Moved
  <1>11. (IsUdp /\ c.phase = "DnsWait")' => (gone \/ (~polling /\ removed /\ batch["proxy"] = {}))'
    BY <1>0, <1>1, <1>5, <1>9, <1>b DEF Turn
  <1>12. dns' # "idle" => req' = "domain" /\ c'.phase # "HandShake"
    BY <1>0, <1>1, <1>4, <1>5 DEF Turn, Moved
  <1>13. /\ dns' \in {"idle", "pending", "done"} => "resolver" \notin ev' /\ batch'["resolver"] = {}
         /\ batch'["resolver"] # {} => "resolver" \notin ev'
    BY <1>0, <1>1, <1>5 DEF Turn
  <1>14. (dns' \in {"pending", "found", "failed"} /\ c'.phase = "DnsWait") => ~c'.target
    BY <1>0, <1>1, <1>5, <1>b DEF Turn
  <1> QED BY <1>8, <1>10, <1>11, <1>12, <1>13, <1>14 DEF Turn

LEMMA StepHandleDns ==
    ASSUME RInv, HandleDns PROVE Relay(c, Empty)' /\ Turn'
  <1>0. Sound(c, Empty) /\ Waiting(c) /\ LoopOK /\ Turn BY RInvSound
  <1>1. ~polling /\ ~gone /\ batch["resolver"] # {} /\ dns' = "done" BY DEF HandleDns
  <1>2. PICK o \in Outcome : AfterReady(ReadyDns(c, dns = "found", o), "resolver")
    BY DEF HandleDns
  <1> DEFINE t == ReadyDns(c, dns = "found", o)
  <1>3. /\ Refused(c) /\ dns \in {"found", "failed"} /\ req = "domain" /\ c.phase # "HandShake"
        /\ c.phase = "DnsWait" => ~c.target
    BY <1>0, <1>1 DEF Turn, LoopOK
  <1>a. "resolver" \notin ev BY <1>0, <1>1 DEF Turn
  <1>4. Sound(t, Empty) /\ t.phase # "HandShake" /\ Refused(t)
    BY <1>0, <1>3, SoundReadyDns
  <1> HIDE DEF t
  <1>5. /\ c' = t /\ UNCHANGED <<req, env>> /\ UNCHANGED timedOut /\ UNCHANGED req
        /\ "resolver" \in ev' => "resolver" \in ev
        /\ batch'["resolver"] = {}
    BY <1>0, <1>2, AfterLemma DEF t, Source
  <1>7. DnsFailed(c') => (DnsFailed(c))' BY <1>1, <1>5 DEF DnsFailed
  <1>8. Relay(c, Empty)' BY <1>4, <1>5, <1>7, RelayPrimed DEF Sound
  <1>9. ~(IsUdp)' BY <1>3, <1>5 DEF IsUdp
  <1>10. (Refused(c))' BY <1>9 DEF Refused
  <1> QED BY <1>1, <1>3, <1>4, <1>5, <1>8, <1>9, <1>10, <1>a DEF Turn

\* The steps that leave the record as it is, but for the marks Poll sets.
LEMMA StepLoop ==
    ASSUME RInv, Poll \/ DnsNotFound \/ RemoveClosed \/ ResolverThread \/ UNCHANGED vars
    PROVE  Relay(c, Empty)' /\ Turn'
  <1>0. Sound(c, Empty) /\ Waiting(c) /\ LoopOK /\ Turn BY RInvSound
  <1>1. /\ SameUp(c, c') /\ SameDown(c, c') /\ SamePeers(c, c')
        /\ c'.phase = c.phase /\ c'.target = c.target /\ c'.proxy = c.proxy
        /\ c'.backend = c.backend /\ c'.broken = c.broken
    <2>1. CASE Poll
      BY <1>0, <2>1 DEF Poll, Sound, Good, ConnState, SameUp, SameDown, SamePeers
    <2>2. CASE UNCHANGED c BY <2>2 DEF SameUp, SameDown, SamePeers
    <2> QED BY <2>1, <2>2 DEF DnsNotFound, RemoveClosed, ResolverThread, vars
  <1>2. Relay(c', Empty) BY <1>0, <1>1, FrameLemma DEF Sound
  <1>3. UNCHANGED <<req, env>> /\ UNCHANGED req /\ UNCHANGED timedOut
    BY DEF Poll, DnsNotFound, RemoveClosed, ResolverThread, vars, env
  <1>4. dns \in {"failed", "done"} => dns' \in {"failed", "done"}
    BY DEF Poll, DnsNotFound, RemoveClosed, ResolverThread, vars
  <1>5. DnsFailed(c') => (DnsFailed(c))' BY <1>3, <1>4 DEF DnsFailed
  <1>6. Relay(c, Empty)' BY <1>2, <1>3, <1>5, RelayPrimed
  <1>7. (IsUdp)' = IsUdp BY <1>3 DEF IsUdp
  <1>8. (Refused(c))' BY <1>0, <1>1, <1>7 DEF Turn, Refused
  <1>9. Turn'
    <2>1. CASE Poll
      <3>1. /\ batch'["resolver"] = (IF "resolver" \in ev THEN {"r"} ELSE {})
            /\ ev' = {} /\ UNCHANGED dns /\ UNCHANGED gone /\ polling
        BY <2>1 DEF Poll, Flags, Source
      <3> QED BY <1>0, <1>1, <1>3, <1>7, <1>8, <3>1 DEF Turn
    <2>2. CASE DnsNotFound
      <3>1. /\ batch'["resolver"] = {} /\ batch["resolver"] # {} /\ dns' = "done"
            /\ UNCHANGED ev /\ gone /\ UNCHANGED gone
        BY <1>0, <2>2, BatchLemma DEF DnsNotFound, Source
      <3> QED BY <1>0, <1>1, <1>3, <1>7, <1>8, <3>1 DEF Turn, LoopOK
    <2>3. CASE RemoveClosed
      <3>1. /\ batch["resolver"] = {} /\ UNCHANGED batch /\ UNCHANGED dns
            /\ gone' = (gone \/ removed)
            /\ "resolver" \in ev' => "resolver" \in ev
        BY <2>3 DEF RemoveClosed, Source
      <3> QED BY <1>0, <1>1, <1>3, <1>7, <1>8, <3>1 DEF Turn
    <2>4. CASE ResolverThread
      <3>1. /\ dns = "pending" /\ dns' \in {"found", "failed"} /\ UNCHANGED batch
            /\ UNCHANGED gone /\ UNCHANGED polling /\ UNCHANGED removed
        BY <2>4 DEF ResolverThread
      <3> QED BY <1>0, <1>1, <1>3, <1>7, <1>8, <3>1 DEF Turn
    <2>5. CASE UNCHANGED vars
      <3>1. /\ UNCHANGED dns /\ UNCHANGED batch /\ UNCHANGED ev
            /\ UNCHANGED gone /\ UNCHANGED polling /\ UNCHANGED removed
        BY <2>5 DEF vars
      <3> QED BY <1>0, <1>1, <1>3, <1>7, <1>8, <3>1 DEF Turn
    <2> QED BY <2>1, <2>2, <2>3, <2>4, <2>5
  <1> QED BY <1>6, <1>9

LEMMA StepCheckTimeout ==
    ASSUME RInv, CheckTimeout PROVE Relay(c, Empty)' /\ Turn'
  <1>0. Sound(c, Empty) /\ Waiting(c) /\ LoopOK /\ Turn BY RInvSound
  <1>1. /\ c' = Destroy(c) /\ gone' = TRUE /\ timedOut' = TRUE /\ UNCHANGED req
        /\ UNCHANGED dns /\ UNCHANGED batch /\ UNCHANGED upSent /\ UNCHANGED downSent
        /\ UNCHANGED clientGot /\ UNCHANGED targetGot
        /\ "resolver" \in ev' => "resolver" \in ev
    BY DEF CheckTimeout, env
  <1>2. /\ UpOrder(c', Empty) /\ UpWhole(c', Empty) /\ DownOrder(c') /\ DownWhole(c') /\ Backing(c')
        /\ c'.phase = c.phase /\ c'.target = c.target
    BY <1>0, <1>1, DestroyKeeps
  <1>3. /\ UpLine(c, Empty)' = UpLine(c', Empty) /\ DownLine(c)' = DownLine(c')
        /\ First' = First /\ ReadUpTo(c)' = ReadUpTo(c') /\ (IsUdp)' = IsUdp
    BY <1>1 DEF UpLine, DownLine, First, ReadUpTo, IsUdp
  <1>4. (WholeUp(c, Empty))' = WholeUp(c', Empty) /\ (WholeDown(c))' = WholeDown(c')
    BY <1>1, <1>3 DEF WholeUp, WholeDown
  <1>5. (UpOrder(c, Empty))' BY <1>2, <1>3 DEF UpOrder
  <1>6. (UpWhole(c, Empty))' BY <1>1, <1>2, <1>3, <1>4 DEF UpWhole, Excused
  <1>7. (DownOrder(c))' /\ (DownWhole(c))' BY <1>1, <1>2, <1>3, <1>4 DEF DownOrder, DownWhole
  <1>8. (Backing(c))' BY <1>2, <1>3 DEF Backing
  <1>9. (ToTarget(c))' /\ (ToClient(c))' BY <1>1 DEF ToTarget, ToClient, Clean
  <1>10. c'.proxy = "Deregistered"
    BY <1>0, <1>1 DEF Destroy, CheckStatus, Shutdown, IsShutdown, Sound, Good, ConnState
  <1>11. (Refused(c))' BY <1>10 DEF Refused, IsShutdown
  <1>12. Turn' BY <1>0, <1>1, <1>2, <1>3, <1>11 DEF Turn
  <1> QED BY <1>5, <1>6, <1>7, <1>8, <1>9, <1>12 DEF Relay

\* The peers and the kernel leave the loop's variables and the statuses alone.
LEMMA PeerTurn ==
    ASSUME Turn, UNCHANGED sys, \E x \in {"proxy", "backend"} : Raise(x) \/ UNCHANGED ev,
           c'.phase = c.phase, c'.target = c.target, c'.proxy = c.proxy
    PROVE  Turn'
  <1>1. /\ UNCHANGED req /\ UNCHANGED dns /\ UNCHANGED batch /\ UNCHANGED polling
        /\ UNCHANGED removed /\ UNCHANGED gone
    BY DEF sys
  <1>2. "resolver" \in ev' => "resolver" \in ev BY DEF Raise
  <1>3. (IsUdp)' = IsUdp BY <1>1 DEF IsUdp
  <1>4. (Refused(c))' BY <1>3 DEF Turn, Refused
  <1> QED BY <1>1, <1>2, <1>3, <1>4 DEF Turn

\* A peer that closes: nothing that was passed on is taken back.
LEMMA StepClientClose ==
    ASSUME RInv, ClientClose PROVE Relay(c, Empty)' /\ Turn'
  <1>0. Sound(c, Empty) /\ Turn /\ Relay(c, Empty) /\ c \in ConnState
    BY RInvSound DEF Sound, Good
  <1>1. PICK how \in Close \ {"open"} : c' = [c EXCEPT !.cend = how] BY DEF ClientClose
  <1>2. c.cend = "open" /\ ~IsShutdown(c.proxy) /\ Raise("proxy") /\ UNCHANGED sys /\ UNCHANGED env
    BY DEF ClientClose
  <1>3. /\ SameUp(c, c') /\ SameDown(c, c') /\ c'.tend = c.tend /\ c'.tcon = c.tcon
        /\ c'.phase = c.phase /\ c'.target = c.target /\ c'.proxy = c.proxy
        /\ c'.backend = c.backend /\ c'.broken = c.broken /\ c'.cend # "open"
    BY <1>0, <1>1 DEF ConnState, SameUp, SameDown
  <1>4. /\ UpLine(c', Empty) = UpLine(c, Empty) /\ ReadUpTo(c') = ReadUpTo(c)
        /\ WholeUp(c', Empty) = WholeUp(c, Empty) /\ UpOrder(c', Empty) = UpOrder(c, Empty)
    BY <1>3, SameUpLemma
  <1>5. UpWhole(c', Empty) BY <1>0, <1>2, <1>3, <1>4 DEF Relay, UpWhole, Excused, SameUp
  <1>6. DownOrder(c') /\ DownWhole(c') BY <1>0, <1>3, SameDownLemma DEF Relay, DownWhole
  <1>7. Backing(c') BY <1>0, <1>3 DEF Relay, Backing, SameUp, SameDown
  <1>8. ToTarget(c') BY <1>0, <1>2, <1>3 DEF Relay, ToTarget, Clean
  <1>9. ToClient(c') BY <1>0, <1>2, <1>3 DEF Relay, ToClient, Clean, SameDown
  <1>10. Relay(c', Empty) BY <1>0, <1>4, <1>5, <1>6, <1>7, <1>8, <1>9 DEF Relay
  <1>11. UNCHANGED <<req, env>> /\ UNCHANGED timedOut /\ UNCHANGED req /\ UNCHANGED dns
    BY <1>2 DEF sys
  <1>12. DnsFailed(c') => (DnsFailed(c))' BY <1>11 DEF DnsFailed
  <1>13. Relay(c, Empty)' BY <1>10, <1>11, <1>12, RelayPrimed
  <1> QED BY <1>0, <1>2, <1>3, <1>13, PeerTurn

LEMMA StepTargetEnd ==
    ASSUME RInv, TargetAnswer \/ TargetClose PROVE Relay(c, Empty)' /\ Turn'
  <1>0. Sound(c, Empty) /\ Turn /\ Relay(c, Empty) /\ c \in ConnState
    BY RInvSound DEF Sound, Good
  <1>1. UNCHANGED sys /\ UNCHANGED env /\ Raise("backend") /\ c.tend = "open" /\ c.tcon # "no"
    BY DEF TargetAnswer, TargetClose
  <1>2. /\ SameUp(c, c') /\ SameDown(c, c') /\ c'.cend = c.cend
        /\ c'.phase = c.phase /\ c'.target = c.target /\ c'.proxy = c.proxy
        /\ c'.backend = c.backend /\ c'.broken = c.broken
        /\ c'.tend = "open" \/ c'.tend = "rst" \/ (c'.tend = "fin" /\ Alive(c.backend))
    <2>1. CASE c' = [c EXCEPT !.tcon = "up", !.tblk = FALSE]
      BY <1>0, <1>1, <2>1 DEF ConnState, SameUp, SameDown
    <2>2. CASE c' = [c EXCEPT !.tend = "rst"]
      BY <1>0, <2>2 DEF ConnState, SameUp, SameDown
    <2>3. CASE c' = [c EXCEPT !.tend = "fin"] /\ Alive(c.backend)
      BY <1>0, <2>3 DEF ConnState, SameUp, SameDown
    <2> QED BY <2>1, <2>2, <2>3 DEF TargetAnswer, TargetClose
  <1>3. c.backend # "None" BY <1>0, <1>1 DEF Relay, Backing
  <1>a. Alive(c.backend) => ~IsShutdown(c.backend) BY DEF Alive, IsShutdown
  <1>4. /\ UpLine(c', Empty) = UpLine(c, Empty) /\ ReadUpTo(c') = ReadUpTo(c)
        /\ WholeUp(c', Empty) = WholeUp(c, Empty) /\ UpOrder(c', Empty) = UpOrder(c, Empty)
    BY <1>2, SameUpLemma
  <1>5. UpWhole(c', Empty) BY <1>0, <1>2, <1>4 DEF Relay, UpWhole, Excused, SameUp
  <1>6. DownOrder(c') /\ DownWhole(c') BY <1>0, <1>2, SameDownLemma DEF Relay, DownWhole
  <1>7. Backing(c') BY <1>0, <1>2, <1>3 DEF Relay, Backing, SameUp, SameDown
  <1>8. ToTarget(c')
    BY <1>0, <1>1, <1>2, <1>4 DEF Relay, ToTarget, Clean, DnsFailed, SameUp
  <1>9. ToClient(c')
    BY <1>0, <1>2, <1>a DEF Relay, ToClient, Clean, DnsFailed, SameDown
  <1>10. Relay(c', Empty) BY <1>0, <1>4, <1>5, <1>6, <1>7, <1>8, <1>9 DEF Relay
  <1>11. UNCHANGED <<req, env>> /\ UNCHANGED timedOut /\ UNCHANGED req /\ UNCHANGED dns
    BY <1>1 DEF sys
  <1>12. DnsFailed(c') => (DnsFailed(c))' BY <1>11 DEF DnsFailed
  <1>13. Relay(c, Empty)' BY <1>10, <1>11, <1>12, RelayPrimed
  <1> QED BY <1>0, <1>1, <1>2, <1>13, PeerTurn

\* The next unit lengthens a run.
LEMMA RunAppend ==
    ASSUME NEW q \in Seq(Nat), NEW a \in Nat, NEW n \in Nat, Run(q, a), n = a + Len(q)
    PROVE  /\ Append(q, n) \in Seq(Nat) /\ Len(Append(q, n)) = Len(q) + 1 /\ Len(q) \in Nat
           /\ Run(Append(q, n), a)
  <1> DEFINE m == Len(q)
  <1>1. /\ Append(q, n) \in Seq(Nat) /\ Len(Append(q, n)) = m + 1 /\ m \in Nat
        /\ \A i \in 1 .. m : Append(q, n)[i] = q[i]
        /\ Append(q, n)[m + 1] = n
    BY AppendProperties, LenProperties
  <1>2. ASSUME NEW k \in 1 .. m + 1 PROVE Append(q, n)[k] = a + k - 1
    <2>1. CASE k = m + 1 BY <1>1, <2>1
    <2>2. CASE k # m + 1
      <3>1. k \in 1 .. m BY <1>1, <2>2
      <3> QED BY <1>1, <3>1 DEF Run
    <2> QED BY <2>1, <2>2
  <1> QED BY <1>1, <1>2 DEF Run

\* A unit that is received stays on its line.
LEMMA Received ==
    ASSUME NEW p \in Seq(Nat), NEW q \in Seq(Nat), q # Empty
    PROVE  Append(p, Head(q)) \o Tail(q) = p \o q
  <1> DEFINE m == Len(p)
  <1> DEFINE n == Len(q)
  <1> DEFINE a == Append(p, Head(q))
  <1> DEFINE t == Tail(q)
  <1>0. q # << >> BY DEF Empty
  <1>1. /\ Head(q) \in Nat /\ t \in Seq(Nat) /\ Len(t) = n - 1 /\ n \in Nat /\ m \in Nat
        /\ \A i \in 1 .. n - 1 : t[i] = q[i + 1]
    BY <1>0, HeadTailProperties, LenProperties
  <1>2. Head(q) = q[1] OBVIOUS
  <1>3. /\ a \in Seq(Nat) /\ Len(a) = m + 1
        /\ \A i \in 1 .. m : a[i] = p[i]
        /\ a[m + 1] = q[1]
    BY <1>1, <1>2, AppendProperties
  <1>b. n # 0 BY <1>0, EmptySeq
  <1> HIDE DEF a, t
  <1>4. /\ a \o t \in Seq(Nat) /\ Len(a \o t) = (m + 1) + (n - 1)
        /\ \A i \in 1 .. (m + 1) + (n - 1) :
             (a \o t)[i] = IF i <= m + 1 THEN a[i] ELSE t[i - (m + 1)]
    <2>1. /\ a \o t \in Seq(Nat) /\ Len(a \o t) = Len(a) + Len(t)
          /\ \A i \in 1 .. Len(a) + Len(t) :
               (a \o t)[i] = IF i <= Len(a) THEN a[i] ELSE t[i - Len(a)]
      BY <1>1, <1>3, ConcatProperties
    <2> QED BY <1>1, <1>3, <2>1
  <1>5. /\ p \o q \in Seq(Nat) /\ Len(p \o q) = m + n
        /\ \A i \in 1 .. m + n : (p \o q)[i] = IF i <= m THEN p[i] ELSE q[i - m]
    BY ConcatProperties
  <1>6. (m + 1) + (n - 1) = m + n BY <1>1
  <1>7. ASSUME NEW i \in 1 .. m + n PROVE (a \o t)[i] = (p \o q)[i]
    <2>1. CASE i <= m
      <3>1. i \in 1 .. m /\ i <= m + 1 BY <1>1, <2>1
      <3> QED BY <1>3, <1>4, <1>5, <1>6, <2>1, <3>1
    <2>2. CASE i = m + 1
      <3>1. ~(i <= m) /\ i - m = 1 /\ i <= m + 1 BY <1>1, <2>2
      <3> QED BY <1>3, <1>4, <1>5, <1>6, <2>2, <3>1
    <2>3. CASE ~(i <= m) /\ i # m + 1
      <3>1. /\ ~(i <= m) /\ ~(i <= m + 1) /\ i - (m + 1) \in 1 .. n - 1
            /\ (i - (m + 1)) + 1 = i - m
        BY <1>1, <2>3
      <3> QED BY <1>1, <1>4, <1>5, <1>6, <3>1
    <2> QED BY <2>1, <2>2, <2>3
  <1>8. Len(a \o t) = Len(p \o q) /\ \A i \in 1 .. Len(a \o t) : (a \o t)[i] = (p \o q)[i]
    BY <1>4, <1>5, <1>6, <1>7
  <1> QED BY <1>4, <1>5, <1>8, SeqEqual DEF a, t

LEMMA StepClientSend ==
    ASSUME RInv, ClientSend PROVE Relay(c, Empty)' /\ Turn'
  <1>0. /\ Sound(c, Empty) /\ Good(c) /\ Turn /\ Relay(c, Empty) /\ c \in ConnState
        /\ upSent \in Nat /\ c.cin \in Seq(Nat)
    BY RInvSound, PeersNat, Fields DEF Sound, Good
  <1>1. /\ c.cend = "open" /\ c' = [c EXCEPT !.cin = Append(@, upSent)] /\ upSent' = upSent + 1
        /\ Raise("proxy") /\ UNCHANGED sys
        /\ UNCHANGED downSent /\ UNCHANGED clientGot /\ UNCHANGED targetGot
    BY DEF ClientSend
  <1>2. UNCHANGED req /\ UNCHANGED timedOut /\ UNCHANGED dns BY <1>1 DEF sys
  <1>3. /\ SameDown(c, c') /\ SamePeers(c, c')
        /\ c'.tout = c.tout /\ c'.sendBuffer = c.sendBuffer /\ c'.data = c.data
        /\ c'.cin = Append(c.cin, upSent)
        /\ c'.phase = c.phase /\ c'.target = c.target /\ c'.proxy = c.proxy
        /\ c'.backend = c.backend /\ c'.broken = c.broken
    BY <1>0, <1>1 DEF ConnState, SameDown, SamePeers
  <1>4. /\ UpLine(c, Empty)' = UpLine(c, Empty) /\ First' = First /\ (IsUdp)' = IsUdp
        /\ DownLine(c)' = DownLine(c)
    BY <1>1, <1>2, <1>3 DEF UpLine, DownLine, First, IsUdp, SameDown
  <1>5. ReadUpTo(c) \in Nat /\ Run(c.cin, ReadUpTo(c)) BY <1>0 DEF Relay, UpOrder
  <1>6. upSent = ReadUpTo(c) + Len(c.cin) /\ Len(c.cin) \in Nat
    BY <1>0, LenProperties DEF ReadUpTo
  <1>7. Len(c'.cin) = Len(c.cin) + 1 /\ Run(c'.cin, ReadUpTo(c))
    BY SMTT(60), <1>0, <1>3, <1>5, <1>6, RunAppend
  <1>8. ReadUpTo(c)' = ReadUpTo(c) BY <1>0, <1>1, <1>6, <1>7 DEF ReadUpTo
  <1>9. (UpOrder(c, Empty))' BY <1>0, <1>4, <1>7, <1>8 DEF Relay, UpOrder
  <1>10. (WholeUp(c, Empty))' = WholeUp(c, Empty) BY <1>4, <1>8 DEF WholeUp
  <1>11. (UpWhole(c, Empty))'
    <2>1. c.phase = "HandShake" => (Len(c.cin) = upSent /\ UpLine(c, Empty) = Empty /\ c.backend = "None")
      BY <1>0, <1>1 DEF Relay, UpWhole
    <2>2. c.phase # "HandShake" =>
            /\ First + Len(UpLine(c, Empty)) <= ReadUpTo(c)
            /\ WholeUp(c, Empty) \/ Excused(c)
      BY <1>0 DEF Relay, UpWhole
    <2>3. Excused(c) => (Excused(c))' BY <1>3, <1>4 DEF Excused, SamePeers
    <2> QED BY <1>1, <1>3, <1>4, <1>7, <1>8, <1>10, <2>1, <2>2, <2>3 DEF UpWhole
  <1>12. (DownOrder(c))' /\ (DownWhole(c))'
    BY <1>0, <1>1, <1>3, <1>4 DEF Relay, DownOrder, DownWhole, WholeDown, SameDown
  <1>13. (Backing(c))' BY <1>0, <1>3, <1>4 DEF Relay, Backing, SameDown, SamePeers
  <1>14. (ToTarget(c))' BY <1>0, <1>1, <1>2, <1>3 DEF Relay, ToTarget, Clean, SamePeers
  <1>15. (ToClient(c))'
    BY <1>0, <1>2, <1>3 DEF Relay, ToClient, Clean, DnsFailed, SameDown, SamePeers
  <1>16. Relay(c, Empty)' BY <1>9, <1>11, <1>12, <1>13, <1>14, <1>15 DEF Relay
  <1> QED BY <1>0, <1>1, <1>3, <1>16, PeerTurn

LEMMA StepTargetSend ==
    ASSUME RInv, TargetSend PROVE Relay(c, Empty)' /\ Turn'
  <1>0. /\ Sound(c, Empty) /\ Good(c) /\ Turn /\ Relay(c, Empty) /\ c \in ConnState
        /\ downSent \in Nat /\ c.tin \in Seq(Nat)
        /\ DownLine(c) \in Seq(Nat) /\ Len(DownLine(c)) \in Nat
    BY RInvSound, PeersNat, Fields, LineLemma DEF Sound, Good
  <1>1. /\ c' = [c EXCEPT !.tin = Append(@, downSent + 1)] /\ downSent' = downSent + 1
        /\ Raise("backend") /\ UNCHANGED sys /\ Alive(c.backend)
        /\ UNCHANGED upSent /\ UNCHANGED clientGot /\ UNCHANGED targetGot
    BY DEF TargetSend
  <1>2. UNCHANGED req /\ UNCHANGED timedOut /\ UNCHANGED dns BY <1>1 DEF sys
  <1>3. /\ SameUp(c, c') /\ SamePeers(c, c') /\ c'.cout = c.cout /\ c'.session = c.session
        /\ c'.tin = Append(c.tin, downSent + 1)
        /\ c'.phase = c.phase /\ c'.target = c.target /\ c'.proxy = c.proxy
        /\ c'.backend = c.backend /\ c'.broken = c.broken
    BY <1>0, <1>1 DEF ConnState, SameUp, SamePeers
  <1>4. /\ UpLine(c, Empty)' = UpLine(c, Empty) /\ First' = First /\ (IsUdp)' = IsUdp
        /\ DownLine(c)' = DownLine(c) /\ ReadUpTo(c)' = ReadUpTo(c)
    BY <1>1, <1>2, <1>3 DEF UpLine, DownLine, First, IsUdp, ReadUpTo, SameUp
  <1> DEFINE a == downSent - Len(c.tin) + 1
  <1>5. /\ Run(c.tin, a) /\ Len(DownLine(c)) + Len(c.tin) <= downSent
        /\ Len(c.tin) \in Nat
    BY <1>0, LenProperties DEF Relay, DownOrder
  <1>6. a \in Nat /\ downSent + 1 = a + Len(c.tin) /\ downSent + 1 \in Nat BY <1>0, <1>5
  <1> HIDE DEF a
  <1>7. Len(c'.tin) = Len(c.tin) + 1 /\ Run(c'.tin, a) BY <1>0, <1>3, <1>5, <1>6, RunAppend
  <1>8. (DownOrder(c))'
    <2>1. downSent' - Len(c'.tin) + 1 = a BY <1>0, <1>1, <1>5, <1>7 DEF a
    <2>2. Len(DownLine(c)) + Len(c'.tin) <= downSent' BY <1>0, <1>1, <1>5, <1>7
    <2> QED BY <1>0, <1>4, <1>7, <2>1, <2>2 DEF Relay, DownOrder
  <1>9. WholeDown(c) => (WholeDown(c))' BY <1>0, <1>1, <1>4, <1>5, <1>7 DEF WholeDown
  <1>10. (DownWhole(c))' BY <1>0, <1>3, <1>9 DEF Relay, DownWhole
  <1>11. (WholeUp(c, Empty))' = WholeUp(c, Empty) BY <1>4 DEF WholeUp
  <1>12. (UpOrder(c, Empty))' BY <1>0, <1>3, <1>4 DEF Relay, UpOrder, SameUp
  <1>13. (UpWhole(c, Empty))'
    BY <1>0, <1>1, <1>3, <1>4, <1>11 DEF Relay, UpWhole, Excused, SameUp, SamePeers
  <1>14. c.backend # "None" /\ ~IsShutdown(c.backend) BY <1>1 DEF Alive, IsShutdown
  <1>15. (Backing(c))' BY <1>0, <1>3, <1>4, <1>14 DEF Relay, Backing, SameUp, SamePeers
  <1>16. (ToTarget(c))'
    BY <1>0, <1>2, <1>3, <1>11 DEF Relay, ToTarget, Clean, DnsFailed, SameUp, SamePeers
  <1>17. (ToClient(c))'
    BY <1>0, <1>2, <1>3, <1>14 DEF Relay, ToClient, Clean, DnsFailed, SamePeers
  <1>18. Relay(c, Empty)' BY <1>8, <1>10, <1>12, <1>13, <1>15, <1>16, <1>17 DEF Relay
  <1> QED BY <1>0, <1>1, <1>3, <1>18, PeerTurn

\* A peer that receives a unit takes it from the front of its socket's buffer
\* to the end of what it has got: both lines stay as they are.
LEMMA StepRecv ==
    ASSUME RInv, ClientRecv \/ TargetRecv PROVE Relay(c, Empty)' /\ Turn'
  <1>0. /\ Sound(c, Empty) /\ Good(c) /\ Turn /\ Relay(c, Empty) /\ c \in ConnState
        /\ c.cout \in Seq(Nat) /\ c.tout \in Seq(Nat)
        /\ clientGot \in Seq(Nat) /\ targetGot \in Seq(Nat)
    BY RInvSound, PeersNat, Fields DEF Sound, Good
  <1>1. UNCHANGED sys /\ UNCHANGED upSent /\ UNCHANGED downSent
    BY DEF ClientRecv, TargetRecv
  <1>2. UNCHANGED req /\ UNCHANGED timedOut /\ UNCHANGED dns BY <1>1 DEF sys
  <1>3. /\ SamePeers(c, c') /\ c'.session = c.session /\ c'.tin = c.tin /\ c'.cin = c.cin
        /\ c'.sendBuffer = c.sendBuffer /\ c'.data = c.data
        /\ c'.phase = c.phase /\ c'.target = c.target /\ c'.proxy = c.proxy
        /\ c'.backend = c.backend /\ c'.broken = c.broken
        /\ clientGot' \o c'.cout = clientGot \o c.cout
        /\ targetGot' \o c'.tout = targetGot \o c.tout
    <2>1. CASE ClientRecv
      <3>1. /\ c.cout # Empty /\ clientGot' = Append(clientGot, Head(c.cout)) /\ UNCHANGED targetGot
            /\ c' = [c EXCEPT !.cout = Tail(@), !.cblk = FALSE]
        BY <2>1 DEF ClientRecv
      <3>2. Append(clientGot, Head(c.cout)) \o Tail(c.cout) = clientGot \o c.cout
        BY <1>0, <3>1, Received
      <3>3. /\ c'.cout = Tail(c.cout) /\ c'.tout = c.tout
            /\ SamePeers(c, c') /\ c'.session = c.session /\ c'.tin = c.tin /\ c'.cin = c.cin
            /\ c'.sendBuffer = c.sendBuffer /\ c'.data = c.data
            /\ c'.phase = c.phase /\ c'.target = c.target /\ c'.proxy = c.proxy
            /\ c'.backend = c.backend /\ c'.broken = c.broken
        BY <1>0, <3>1 DEF ConnState, SamePeers
      <3> QED BY <3>1, <3>2, <3>3
    <2>2. CASE TargetRecv
      <3>1. /\ c.tout # Empty /\ targetGot' = Append(targetGot, Head(c.tout)) /\ UNCHANGED clientGot
            /\ c' = [c EXCEPT !.tout = Tail(@), !.tblk = FALSE]
        BY <2>2 DEF TargetRecv
      <3>2. Append(targetGot, Head(c.tout)) \o Tail(c.tout) = targetGot \o c.tout
        BY <1>0, <3>1, Received
      <3>3. /\ c'.tout = Tail(c.tout) /\ c'.cout = c.cout
            /\ SamePeers(c, c') /\ c'.session = c.session /\ c'.tin = c.tin /\ c'.cin = c.cin
            /\ c'.sendBuffer = c.sendBuffer /\ c'.data = c.data
            /\ c'.phase = c.phase /\ c'.target = c.target /\ c'.proxy = c.proxy
            /\ c'.backend = c.backend /\ c'.broken = c.broken
        BY <1>0, <3>1 DEF ConnState, SamePeers
      <3> QED BY <3>1, <3>2, <3>3
    <2> QED BY <2>1, <2>2
  <1>4. /\ UpLine(c, Empty)' = UpLine(c, Empty) /\ First' = First /\ (IsUdp)' = IsUdp
        /\ DownLine(c)' = DownLine(c) /\ ReadUpTo(c)' = ReadUpTo(c)
    BY <1>1, <1>2, <1>3 DEF UpLine, DownLine, First, IsUdp, ReadUpTo
  <1>5. (WholeUp(c, Empty))' = WholeUp(c, Empty) /\ (WholeDown(c))' = WholeDown(c)
    BY <1>1, <1>3, <1>4 DEF WholeUp, WholeDown
  <1>6. (UpOrder(c, Empty))' BY <1>0, <1>3, <1>4 DEF Relay, UpOrder
  <1>7. (UpWhole(c, Empty))'
    BY <1>0, <1>1, <1>3, <1>4, <1>5 DEF Relay, UpWhole, Excused, SamePeers
  <1>8. (DownOrder(c))' /\ (DownWhole(c))'
    BY <1>0, <1>1, <1>3, <1>4, <1>5 DEF Relay, DownOrder, DownWhole
  <1>9. (Backing(c))' BY <1>0, <1>3, <1>4 DEF Relay, Backing, SamePeers
  <1>10. (ToTarget(c))'
    BY <1>0, <1>2, <1>3, <1>5 DEF Relay, ToTarget, Clean, DnsFailed, SamePeers
  <1>11. (ToClient(c))' BY <1>0, <1>2, <1>3 DEF Relay, ToClient, Clean, DnsFailed, SamePeers
  <1>12. Relay(c, Empty)' BY <1>6, <1>7, <1>8, <1>9, <1>10, <1>11 DEF Relay
  <1>13. \E x \in {"proxy", "backend"} : Raise(x) \/ UNCHANGED ev BY DEF ClientRecv, TargetRecv
  <1> QED BY <1>0, <1>1, <1>3, <1>12, <1>13, PeerTurn

LEMMA RStepLemma ==
    ASSUME RInv, [Next]_vars PROVE RInv'
  <1>1. IInv' BY StepLemma DEF RInv
  <1>2. Relay(c, Empty)' /\ Turn'
    BY StepHandleProxy, StepHandleBackend, StepHandleDns, StepLoop, StepCheckTimeout,
       StepClientSend, StepClientClose, StepTargetEnd, StepTargetSend, StepRecv
    DEF Next, Loop
  <1> QED BY <1>1, <1>2 DEF RInv

-----------------------------------------------------------------------------
(* What the invariant says of the two streams *)

\* The units of a run are those of the stream it is a part of.
LEMMA RunIsCount ==
    ASSUME NEW q \in Seq(Nat), NEW a \in Nat, NEW b \in Int, Run(q, a), Len(q) = b - a + 1
    PROVE  q = Count(a, b)
  <1> DEFINE n == Len(q)
  <1>1. n \in Nat /\ q = [i \in 1 .. n |-> q[i]] BY LenProperties, SeqDef
  <1>2. [i \in 1 .. n |-> q[i]] = [i \in 1 .. n |-> a + i - 1] BY DEF Run
  <1> QED BY <1>1, <1>2 DEF Count

LEMMA RunIsPrefix ==
    ASSUME NEW q \in Seq(Nat), NEW a \in Nat, NEW b \in Int, Run(q, a), Len(q) <= b - a + 1
    PROVE  IsPrefixOf(q, Count(a, b))
  <1> DEFINE n == Len(q)
  <1> DEFINE m == b - a + 1
  <1> DEFINE r == Count(a, b)
  <1>1. n \in Nat /\ m \in Nat BY LenProperties
  <1>2. \A i \in 1 .. m : a + i - 1 \in Nat BY <1>1
  <1>3. r \in Seq(Nat) /\ Len(r) = m /\ \A i \in 1 .. m : r[i] = a + i - 1
    BY <1>1, <1>2, SeqDef DEF Count
  <1> HIDE DEF r
  <1>4. /\ Take(r, n) \in Seq(Nat) /\ Len(Take(r, n)) = n
        /\ \A i \in 1 .. n : Take(r, n)[i] = r[i]
    <2>1. \A i \in 1 .. n : r[i] \in Nat BY SMTT(60), <1>1, <1>2, <1>3
    <2>2. /\ SubSeq(r, 1, n) \in Seq(Nat)
          /\ Len(SubSeq(r, 1, n)) = IF 1 <= n THEN n - 1 + 1 ELSE 0
          /\ \A i \in 1 .. n - 1 + 1 : SubSeq(r, 1, n)[i] = r[1 + i - 1]
      BY <1>1, <1>3, <2>1, SubSeqProperties
    <2>3. n - 1 + 1 = n /\ (~(1 <= n) => n = 0) BY <1>1
    <2>4. \A i \in 1 .. n : 1 + i - 1 = i BY <1>1
    <2> QED BY <2>2, <2>3, <2>4 DEF Take
  <1>5. \A i \in 1 .. n : q[i] = Take(r, n)[i] BY <1>1, <1>3, <1>4 DEF Run
  <1>6. q = Take(r, n) BY <1>4, <1>5, SeqEqual
  <1> QED BY <1>3, <1>6 DEF IsPrefixOf, r

\* Before the client has sent its head there is nothing to compare with.
LEMMA CountEmpty ==
    ASSUME NEW a \in Nat, NEW b \in Int, b - a + 1 <= 0
    PROVE  Count(a, b) = Empty
  <1>1. 1 .. b - a + 1 = 1 .. 0 OBVIOUS
  <1>2. Count(a, b) = [i \in 1 .. 0 |-> a + i - 1] BY <1>1 DEF Count
  <1> DEFINE r == [i \in 1 .. 0 |-> a + i - 1]
  <1>3. \A i \in 1 .. 0 : a + i - 1 \in Nat OBVIOUS
  <1>4. r \in Seq(Nat) /\ Len(r) = 0 BY <1>3, SeqDef
  <1> HIDE DEF r
  <1>5. r = Empty BY <1>4, EmptyIff
  <1> QED BY <1>2, <1>5 DEF r

LEMMA EmptyIsPrefix == IsPrefixOf(Empty, Empty)
  <1>1. Take(Empty, 0) \in Seq(Nat) /\ Len(Take(Empty, 0)) = 0
    <2>1. 0 \in 0 .. Len(Empty) BY EmptyLemma
    <2> QED BY <2>1, EmptyLemma, BufferLemma
  <1>2. Take(Empty, 0) = Empty BY <1>1, EmptyIff
  <1> QED BY <1>2, EmptyLemma DEF IsPrefixOf

LEMMA UpStreamIs == UpStream = Count(First, upSent - 1)
  BY DEF UpStream, First

LEMMA Ordered ==
    ASSUME RInv PROVE StreamsInOrder
  <1>0. /\ Sound(c, Empty) /\ Good(c) /\ PeersOK /\ Relay(c, Empty)
        /\ c.cin \in Seq(Nat) /\ c.tout \in Seq(Nat) /\ c.cout \in Seq(Nat)
        /\ c.sendBuffer \in Seq(Nat) /\ c.data \in Seq(Nat) /\ c.session \in Seq(Nat)
        /\ upSent \in Nat /\ downSent \in Nat /\ targetGot \in Seq(Nat) /\ clientGot \in Seq(Nat)
        /\ First \in Nat
    BY RInvSound, Fields, PeersNat, FirstNat DEF Sound
  <1> DEFINE p == targetGot \o c.tout
  <1> DEFINE u == UpLine(c, Empty)
  <1> DEFINE x == c.sendBuffer \o c.data
  <1>1. /\ p \in Seq(Nat) /\ p \o c.sendBuffer \in Seq(Nat)
        /\ p \o c.sendBuffer \o c.data \in Seq(Nat) /\ x \in Seq(Nat)
    BY <1>0, ConcatLemma
  <1>2. u = p \o x
    <2>1. u = (p \o c.sendBuffer \o c.data) \o Empty BY DEF UpLine
    <2>2. u = p \o c.sendBuffer \o c.data BY <1>1, <2>1, ConcatLemma
    <2>3. p \in Seq(Nat) /\ c.sendBuffer \in Seq(Nat) /\ c.data \in Seq(Nat) BY <1>0, <1>1
    <2> HIDE DEF p
    <2>4. (p \o c.sendBuffer) \o c.data = p \o (c.sendBuffer \o c.data) BY <2>3, Assoc
    <2> QED BY <2>2, <2>4
  <1>3. Run(u, First) BY <1>0 DEF Relay, UpOrder
  <1> HIDE DEF p, x
  <1>4. Run(p, First) /\ Len(u) = Len(p) + Len(x) /\ Len(p) \in Nat /\ Len(x) \in Nat
    BY <1>0, <1>1, <1>2, <1>3, RunConcat, ConcatLemma
  <1> HIDE DEF u
  <1>5. IsPrefixOf(p, UpStream)
    <2>1. CASE c.phase # "HandShake"
      <3>1. First + Len(u) <= upSent - Len(c.cin) /\ Len(c.cin) \in Nat
        BY <1>0, <2>1, LenProperties DEF Relay, UpWhole, ReadUpTo, u
      <3>2. Len(p) <= (upSent - 1) - First + 1 /\ upSent - 1 \in Int 
        <4> DEFINE a == Len(p)
        <4> DEFINE b == Len(x)
        <4> DEFINE k == Len(c.cin)
        <4>1. /\ First + (a + b) <= upSent - k /\ a \in Nat /\ b \in Nat /\ k \in Nat
              /\ First \in Nat /\ upSent \in Nat
          BY <1>0, <1>4, <3>1
        <4> HIDE DEF a, b, k
        <4>2. a <= (upSent - 1) - First + 1 /\ upSent - 1 \in Int BY <4>1
        <4> QED BY <4>2 DEF a
      <3> QED BY <1>0, <1>1, <1>4, <3>2, RunIsPrefix, UpStreamIs
    <2>2. CASE c.phase = "HandShake"
      <3>1. Len(u) = 0 BY <1>0, <2>2, EmptyLemma DEF Relay, UpWhole, u
      <3>2. Len(p) = 0 BY <1>4, <3>1
      <3>3. p = Empty BY <1>1, <3>2, EmptyIff
      <3>a. upSent - 1 \in Int BY <1>0
      <3>4. CASE (upSent - 1) - First + 1 <= 0
        BY <1>0, <3>3, <3>4, <3>a, CountEmpty, UpStreamIs, EmptyIsPrefix
      <3>5. CASE ~((upSent - 1) - First + 1 <= 0)
        <4>1. Len(p) <= (upSent - 1) - First + 1 BY <1>0, <3>2, <3>5
        <4> QED BY <1>0, <1>1, <1>4, <3>a, <4>1, RunIsPrefix, UpStreamIs
      <3> QED BY <3>4, <3>5
    <2> QED BY <2>1, <2>2
  <1> DEFINE q == clientGot \o c.cout
  <1>6. q \in Seq(Nat) BY <1>0, ConcatLemma
  <1>7. DownLine(c) = q \o c.session BY DEF DownLine
  <1> HIDE DEF q
  <1>8. Run(DownLine(c), 1) /\ Len(DownLine(c)) + Len(c.tin) <= downSent /\ Len(c.tin) \in Nat
    BY <1>0, Fields DEF Relay, DownOrder
  <1>9. /\ Run(q, 1) /\ Len(DownLine(c)) = Len(q) + Len(c.session)
        /\ Len(q) \in Nat /\ Len(c.session) \in Nat
    BY <1>0, <1>6, <1>7, <1>8, RunConcat, ConcatLemma
  <1>10. Len(q) <= downSent - 1 + 1 /\ downSent \in Int
    <2> DEFINE a == Len(q)
    <2> DEFINE b == Len(c.session)
    <2> DEFINE k == Len(c.tin)
    <2>1. /\ (a + b) + k <= downSent /\ a \in Nat /\ b \in Nat /\ k \in Nat /\ downSent \in Nat
      BY <1>0, <1>8, <1>9
    <2> HIDE DEF a, b, k
    <2>2. a <= downSent - 1 + 1 /\ downSent \in Int BY <2>1
    <2> QED BY <2>2 DEF a
  <1>11. IsPrefixOf(q, DownStream) BY <1>6, <1>9, <1>10, RunIsPrefix DEF DownStream
  <1> QED BY <1>5, <1>11 DEF StreamsInOrder, p, q

LEMMA Kept ==
    ASSUME RInv PROVE NothingDropped
  <1>a. Sound(c, Empty) /\ Good(c) /\ PeersOK /\ Relay(c, Empty)
    BY RInvSound DEF Sound
  <1>0. /\ Sound(c, Empty) /\ Good(c) /\ PeersOK /\ Relay(c, Empty)
        /\ c.cin \in Seq(Nat) /\ Len(c.cin) \in Nat /\ c.tin \in Seq(Nat) /\ Len(c.tin) \in Nat
        /\ upSent \in Nat /\ downSent \in Nat /\ First \in Nat /\ upSent - 1 \in Int
        /\ UpLine(c, Empty) \in Seq(Nat) /\ Len(UpLine(c, Empty)) \in Nat
        /\ DownLine(c) \in Seq(Nat) /\ Len(DownLine(c)) \in Nat
    <2>1. /\ c.cin \in Seq(Nat) /\ c.tin \in Seq(Nat) /\ Len(c.tin) \in Nat
      BY <1>a, Fields
    <2>2. upSent \in Nat /\ downSent \in Nat /\ First \in Nat BY <1>a, PeersNat, FirstNat
    <2>3. upSent - 1 \in Int BY <2>2
    <2>4. Len(c.cin) \in Nat BY <2>1, LenProperties
    <2>5. /\ UpLine(c, Empty) \in Seq(Nat) /\ Len(UpLine(c, Empty)) \in Nat
          /\ DownLine(c) \in Seq(Nat) /\ Len(DownLine(c)) \in Nat
      BY <1>a, EmptyLemma, LineLemma
    <2> QED BY <1>a, <2>1, <2>2, <2>3, <2>4, <2>5
  <1> DEFINE u == UpLine(c, Empty)
  <1> DEFINE x == IF c.phase = "HandShake" /\ req # "none" /\ c.cin # Empty THEN Tail(c.cin) ELSE c.cin
  <1>1. ASSUME c.backend \in {"None", "Established"}, c.cend # "bad", ~IsShutdown(c.proxy)
        PROVE  targetGot \o c.tout \o c.sendBuffer \o c.data \o x = UpStream
    <2>1. x \in Seq(Nat)
      <3>1. c.cin # Empty => Tail(c.cin) \in Seq(Nat) BY <1>0, HeadTailProperties DEF Empty
      <3> QED BY <1>0, <3>1
    <2>2. UpLine(c, x) = u \o x BY <1>0, <2>1, LineLemma
    <2>3. Run(u, First) /\ Run(c.cin, ReadUpTo(c)) BY <1>0 DEF Relay, UpOrder
    <2>4. u \o x = UpStream
      <3>1. CASE c.phase # "HandShake"
        <4>1. x = c.cin BY <3>1
        <4>2. ~Excused(c) BY <1>1 DEF Excused, IsShutdown
        <4>3. First + Len(u) = ReadUpTo(c) BY <1>0, <3>1, <4>2 DEF Relay, UpWhole, WholeUp
        <4>4. Run(u \o c.cin, First) /\ Len(u \o c.cin) = Len(u) + Len(c.cin) /\ u \o c.cin \in Seq(Nat)
          BY <1>0, <2>3, <4>3, RunConcat, ConcatLemma
        <4>5. Len(u \o c.cin) = (upSent - 1) - First + 1
          <5>1. First + Len(u) = upSent - Len(c.cin) BY <4>3 DEF ReadUpTo
          <5>2. Len(u) \in Nat BY <1>0
          <5> HIDE DEF u
          <5>3. Len(u \o c.cin) = Len(u) + Len(c.cin) BY <4>4
          <5> DEFINE a == Len(u)
          <5> DEFINE k == Len(c.cin)
          <5>4. /\ First + a = upSent - k /\ a \in Nat /\ k \in Nat
                /\ First \in Nat /\ upSent \in Nat
            BY <1>0, <5>1, <5>2
          <5> HIDE DEF a, k
          <5>5. a + k = (upSent - 1) - First + 1 BY <5>4
          <5> QED BY <5>3, <5>5 DEF a, k
        <4> QED BY <1>0, <4>1, <4>4, <4>5, RunIsCount, UpStreamIs
      <3>2. CASE c.phase = "HandShake"
        <4>1. u = Empty /\ Len(c.cin) = upSent BY <1>0, <1>1, <3>2 DEF Relay, UpWhole
        <4>2. u \o x = x BY <2>1, <4>1, ConcatLemma
        <4>3. Run(c.cin, 0) BY <1>0, <2>3, <4>1 DEF ReadUpTo
        <4>4. CASE req = "none"
          <5>1. First = 0 /\ x = c.cin BY <4>4 DEF First
          <5>2. Len(c.cin) = (upSent - 1) - 0 + 1 BY <1>0, <4>1
          <5> QED BY <1>0, <4>2, <4>3, <5>1, <5>2, RunIsCount, UpStreamIs
        <4>5. CASE req # "none" /\ c.cin = Empty
          <5>1. First = 1 /\ x = Empty /\ upSent = 0 BY <4>1, <4>5, EmptyLemma DEF First
          <5>2. (upSent - 1) - First + 1 <= 0 BY <5>1
          <5> QED BY <1>0, <4>2, <5>1, <5>2, CountEmpty, UpStreamIs
        <4>6. CASE req # "none" /\ c.cin # Empty
          <5>1. First = 1 /\ x = Tail(c.cin) BY <3>2, <4>6 DEF First
          <5>2. /\ Len(Tail(c.cin)) = Len(c.cin) - 1
                /\ \A i \in 1 .. Len(Tail(c.cin)) : Tail(c.cin)[i] = c.cin[i + 1]
            BY <1>0, <4>6, HeadTailProperties DEF Empty
          <5>3. Run(Tail(c.cin), 1)
            <6> SUFFICES ASSUME NEW k \in 1 .. Len(Tail(c.cin)) PROVE Tail(c.cin)[k] = 1 + k - 1
              BY DEF Run
            <6>1. k + 1 \in 1 .. Len(c.cin) BY <1>0, <5>2
            <6>2. c.cin[k + 1] = 0 + (k + 1) - 1 BY <4>3, <6>1 DEF Run
            <6> QED BY <5>2, <6>2
          <5>4. Len(Tail(c.cin)) = (upSent - 1) - 1 + 1 BY <1>0, <4>1, <5>2
          <5> QED BY <1>0, <2>1, <4>2, <5>1, <5>3, <5>4, RunIsCount, UpStreamIs
        <4> QED BY <4>4, <4>5, <4>6
      <3> QED BY <3>1, <3>2
    <2> QED BY <2>2, <2>4 DEF UpLine
  <1>2. ASSUME ~c.broken, ~IsShutdown(c.proxy)
        PROVE  clientGot \o c.cout \o c.session \o c.tin = DownStream
    <2> DEFINE d == DownLine(c)
    <2>1. Run(d, 1) /\ Run(c.tin, downSent - Len(c.tin) + 1) /\ Len(d) + Len(c.tin) = downSent
      BY <1>0, <1>2 DEF Relay, DownOrder, DownWhole, WholeDown
    <2>a. d \in Seq(Nat) /\ Len(d) \in Nat BY <1>0
    <2> HIDE DEF d
    <2>2. downSent - Len(c.tin) + 1 = 1 + Len(d) /\ downSent \in Int /\ downSent - 1 + 1 = downSent
      <3> DEFINE a == Len(d)
      <3> DEFINE k == Len(c.tin)
      <3>1. a + k = downSent /\ a \in Nat /\ k \in Nat /\ downSent \in Nat BY <1>0, <2>1, <2>a
      <3> HIDE DEF a, k
      <3>2. downSent - k + 1 = 1 + a /\ downSent \in Int /\ downSent - 1 + 1 = downSent BY <3>1
      <3> QED BY <3>2 DEF a, k
    <2>3. d \o c.tin \in Seq(Nat) /\ Run(d \o c.tin, 1) /\ Len(d \o c.tin) = downSent
      BY <1>0, <2>1, <2>2, <2>a, RunConcat, ConcatLemma
    <2>4. d \o c.tin = Count(1, downSent) BY <2>2, <2>3, RunIsCount
    <2> QED BY <2>4 DEF DownLine, DownStream, d
  <1> QED BY <1>1, <1>2 DEF NothingDropped

LEMMA FlushedBoth ==
    ASSUME RInv PROVE Flushed
  <1>0. /\ Sound(c, Empty) /\ Good(c) /\ PeersOK /\ Relay(c, Empty) /\ Waiting(c)
        /\ c.tout \in Seq(Nat) /\ c.cout \in Seq(Nat)
        /\ upSent \in Nat /\ downSent \in Nat /\ First \in Nat /\ upSent - 1 \in Int
        /\ targetGot \in Seq(Nat) /\ clientGot \in Seq(Nat)
    BY RInvSound, Fields, PeersNat, FirstNat DEF Sound
  <1>1. ASSUME c.cend = "fin", c.tend = "open", c.backend = "Deregistered", ~c.broken, ~timedOut
        PROVE  targetGot \o c.tout = UpStream
    <2> DEFINE p == targetGot \o c.tout
    <2>1. c.sendBuffer = Empty /\ c.cin = Empty /\ WholeUp(c, Empty) /\ c.data = Empty
      BY <1>0, <1>1 DEF Relay, ToTarget, Clean, Backing, IsShutdown
    <2>2. UpLine(c, Empty) = p \o (Empty \o Empty) /\ p \in Seq(Nat)
      BY <1>0, <2>1, BackLine, EmptyLemma
    <2> HIDE DEF p
    <2>3. UpLine(c, Empty) = p BY <2>2, ConcatLemma, EmptyLemma
    <2>4. Run(p, First) BY <1>0, <2>3 DEF Relay, UpOrder
    <2>5. Len(p) \in Nat /\ First + Len(p) = upSent - 0
      BY <2>1, <2>2, <2>3, EmptyLemma, LenProperties DEF WholeUp, ReadUpTo
    <2>6. Len(p) = (upSent - 1) - First + 1 BY <1>0, <2>5
    <2> QED BY <1>0, <2>2, <2>4, <2>6, RunIsCount, UpStreamIs DEF p
  <1>2. ASSUME c.tend = "fin", c.cend = "open", IsShutdown(c.proxy), ~c.broken, ~timedOut
        PROVE  clientGot \o c.cout = DownStream
    <2> DEFINE q == clientGot \o c.cout
    <2>1. ~DnsFailed(c) BY <1>0, <1>2 DEF DnsFailed, Waiting, Relay, Backing
    <2>2. c.tin = Empty /\ c.session = Empty
      BY <1>0, <1>2, <2>1 DEF Relay, ToClient, Clean
    <2>3. q \in Seq(Nat) BY <1>0, ConcatLemma
    <2>4. DownLine(c) = q \o Empty BY <2>2 DEF DownLine
    <2> HIDE DEF q
    <2>5. DownLine(c) = q BY <2>3, <2>4, ConcatLemma
    <2>6. Run(q, 1) /\ Len(q) + Len(c.tin) = downSent
      BY <1>0, <1>2, <2>5 DEF Relay, DownOrder, DownWhole, WholeDown
    <2>7. Len(q) \in Nat /\ Len(q) = downSent - 1 + 1
      BY <1>0, <2>2, <2>3, <2>6, EmptyLemma, LenProperties
    <2>8. downSent \in Int BY <1>0
    <2>9. q = Count(1, downSent) BY <2>3, <2>6, <2>7, <2>8, RunIsCount
    <2> QED BY <2>9 DEF DownStream, q
  <1> QED BY <1>1, <1>2 DEF Flushed, FlushedToTarget, FlushedToClient

\* The relay of the mio server is faithful for every number of units, every
\* buffer size and every session limit: in whatever order events, answers of
\* the resolver, partial writes, closes and timeouts come, each side gets a
\* prefix of what the other has sent; nothing is dropped while both endpoints
\* are open; and a side that closes after its last unit loses none of them.
THEOREM RelayKept == Spec => []RelayFaithful
  <1>1. Init => RInv BY RInitLemma
  <1>2. RInv /\ [Next]_vars => RInv' BY RStepLemma
  <1>3. RInv => RelayFaithful BY Ordered, Kept, FlushedBoth DEF RelayFaithful
  <1> QED BY <1>1, <1>2, <1>3, PTL DEF Spec

=============================================================================
